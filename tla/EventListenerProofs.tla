------------------------- MODULE EventListenerProofs -------------------------
(* What holds of Payments next to the event listener, for every value of the
   constants: the listener does what Payments takes it to do. *)
EXTENDS EventListener, PaymentsProofs, Induction

listenerState == <<vars, listenerVars>>

-----------------------------------------------------------------------------
(* Least and greatest blocks. *)

LEMMA MinIsLeast ==
    ASSUME NEW S \in SUBSET Nat, S # {}
    PROVE  Min(S) \in S /\ \A n \in S : Min(S) <= n
  <1>1. \E x \in S : \A y \in S : x <= y
    BY LeastExists
  <1>2. QED
    BY <1>1 DEF Min

LEMMA MaxIsGreatest ==
    ASSUME NEW top \in Nat, NEW S \in SUBSET (1..top), S # {}
    PROVE  Max(S) \in S /\ \A n \in S : n <= Max(S)
  <1> DEFINE T == {top - n : n \in S}
  <1>1. T \in SUBSET Nat /\ T # {}
    <2>1. \A n \in S : top - n \in Nat
      OBVIOUS
    <2>2. QED
      BY <2>1
  <1>2. PICK t \in T : \A u \in T : t <= u
    BY <1>1, LeastExists
  <1>3. PICK m \in S : t = top - m
    BY <1>2
  <1>4. \A n \in S : n <= m
    BY <1>2, <1>3
  <1>5. \E x \in S : \A y \in S : x >= y
    BY <1>4
  <1>6. QED
    BY <1>5 DEF Max

-----------------------------------------------------------------------------
(* The inductive invariant.  What the poller has found is a contribution of an
   event; if a request has booked it since, it is done with it. *)
FoundInv ==
    /\ poller # Waiting =>
          "listener" \in Environment /\ \E event \in Keys : counted[event] > 0
    /\ poller.pc = "update" =>
          \E k \in Keys : /\ poller.found = {k}
                          /\ contribution[k] # "absent"
                          /\ k \in hashed => k \in Settled

(* Behind the poller every event has its row or is given up; a request knows the
   block of its transaction before it writes a row. *)
ScanInv ==
    /\ next <= height + 1
    /\ \A k \in Keys : counted[k] > 0 => block[k] > 0
    /\ \A h \in Handlers : handler[h].pc = "confirm" => block[handler[h].key] > 0
    /\ poller # Waiting =>
          /\ 1 <= poller.at /\ poller.at <= poller.latest /\ poller.latest <= height
          /\ \A e \in Events : e < poller.at => e \in ledger \cup lost
    /\ poller.pc = "update" => poller.at \in ledger
    /\ EventsAreRecorded

ListenerInv == ListenerTypeOK /\ CountInv /\ FoundInv /\ ScanInv

LEMMA EventsType ==
    ASSUME ListenerTypeOK, ScanInv
    PROVE  Events \subseteq 1..height
  BY DEF ListenerTypeOK, ScanInv, Events

LEMMA PollerType ==
    ASSUME ListenerTypeOK, poller # Waiting
    PROVE  /\ poller \in Polling /\ poller.at \in Nat /\ poller.latest \in Nat
           /\ poller.pc \in {"row", "update"} /\ poller.found \subseteq Keys
  BY DEF ListenerTypeOK, Polling

(* Requests that are neither relaying nor booking: nothing is counted or hashed,
   and none comes to book. *)
LEMMA PlainRequests ==
    ASSUME TypeOK, NEW h \in Handlers, NEW k \in Keys,
           PlainStep(h) \/ Begin(h, k) \/ Settle(k)
    PROVE  /\ UNCHANGED <<counted, hashed>>
           /\ \A j \in Keys : contribution[j] # "absent" => contribution'[j] # "absent"
           /\ \A g \in Handlers : handler'[g].pc = "confirm" =>
                 handler[g].pc = "confirm" /\ handler'[g].key = handler[g].key
  <1>1. CASE PlainStep(h)
    <2>1. UNCHANGED <<counted, hashed>>
      BY <1>1 DEF PlainStep, InitiateCreate, InitiateCollect, InitiateFailed, PollCheck,
                  WriteSuccess, WriteFailure, Record, MarkFailed, db
    <2>2. \A j \in Keys : contribution[j] # "absent" => contribution'[j] # "absent"
      BY <1>1 DEF PlainStep, InitiateCreate, InitiateCollect, InitiateFailed, PollCheck,
                  WriteSuccess, WriteFailure, Record, MarkFailed, db, TypeOK
    <2>3. /\ Alone(h)
          /\ \/ handler'[h] = Idle
             \/ \E point \in Points \ {"confirm"} : MovesTo(h, point)
      BY <1>1, DoneMoves, GotoMoves, AskMoves
      DEF PlainStep, InitiateCreate, InitiateFailed, PollCheck, WriteSuccess, WriteFailure,
          Record, MarkFailed, Answer, Points
    <2>4. QED
      BY <2>1, <2>2, <2>3 DEF Alone, MovesTo, Idle
  <1>2. CASE Begin(h, k)
    <2>1. UNCHANGED <<counted, hashed, contribution>>
      BY <1>2 DEF Begin, InitiateBegin, HookBegin, PollBegin, ContributeDirectly, db
    <2>2. CASE UNCHANGED handler
      BY <2>1, <2>2
    <2>3. CASE \E hook \in BOOLEAN, point \in Points \ {"confirm"} : Enter(h, k, hook, point)
      BY <2>1, <2>3, EnterMoves DEF Alone
    <2>4. QED
      BY <1>2, <2>2, <2>3
      DEF Begin, InitiateBegin, HookBegin, PollBegin, ContributeDirectly, Points
  <1>3. CASE Settle(k)
    BY <1>3 DEF Settle, db
  <1>4. QED
    BY <1>1, <1>2, <1>3

-----------------------------------------------------------------------------
(* Each step of the listener is one of Payments or none. *)
LEMMA StepRefines ==
    ASSUME ListenerTypeOK, CountInv, FoundInv, [ListenerNext]_listenerState
    PROVE  [Next]_vars
  <1>1. ASSUME NEW h \in Handlers, RelayInBlock(h) \/ ConfirmInLedger(h) PROVE Next
    BY <1>1 DEF RelayInBlock, ConfirmInLedger, Next, Step
  <1>2. ASSUME NEW h \in Handlers, PlainStep(h) PROVE Next
    BY <1>2 DEF Next, Step
  <1>3. ASSUME NEW h \in Handlers, NEW k \in Keys, Begin(h, k) PROVE Next
    BY <1>3 DEF Next
  <1>4. ASSUME NEW k \in Keys, Settle(k) PROVE Next
    BY <1>4 DEF Next
  <1>5. CASE Poll \/ PollSwallowed \/ RecordEvent \/ PollError
    BY <1>5 DEF Poll, PollSwallowed, RecordEvent, PollError
  <1>6. CASE UpdateContribution
    <2>1. PICK k \in Keys : /\ poller.found = {k} /\ contribution[k] # "absent"
                            /\ k \in hashed => k \in Settled
      BY <1>6 DEF UpdateContribution, FoundInv
    <2>2. "listener" \in Environment /\ \E event \in Keys : counted[event] > 0
      BY <1>6 DEF UpdateContribution, FoundInv, Waiting
    <2>3. contribution' = [contribution EXCEPT ![k] = "CONFIRMED"] /\ hashed' = hashed \cup {k}
      BY <1>6, <2>1 DEF UpdateContribution, ListenerTypeOK, TypeOK
    <2>4. UNCHANGED <<payment, balance, counted, campay, acknowledged, handler>>
      BY <1>6 DEF UpdateContribution
    <2>5. CASE k \in hashed
      <3>1. contribution[k] = "CONFIRMED"
        BY <2>1, <2>5 DEF Settled
      <3>2. UNCHANGED <<contribution, hashed>>
        BY <2>3, <2>5, <3>1 DEF ListenerTypeOK, TypeOK
      <3>3. QED
        BY <2>4, <3>2 DEF vars, db, campay
    <2>6. CASE k \notin hashed
      <3>1. SyncContribution(k)
        BY <2>1, <2>2, <2>3, <2>4, <2>6 DEF SyncContribution
      <3>2. QED
        BY <3>1 DEF Next
    <2>7. QED
      BY <2>5, <2>6
  <1>7. CASE RestartListener
    BY <1>7 DEF RestartListener, Next
  <1>8. CASE UNCHANGED listenerState
    BY <1>8 DEF listenerState
  <1>9. QED
    BY <1>1, <1>2, <1>3, <1>4, <1>5, <1>6, <1>7, <1>8 DEF ListenerNext, Requests

(* Where the loop goes after a block: the next event, or past the latest block,
   and it leaves no event of the range behind. *)
LEMMA ProceedMoves ==
    ASSUME ListenerTypeOK, ScanInv, NEW b \in Nat, NEW latest \in Nat, latest <= height,
           ProceedFrom(b, latest)
    PROVE  \/ \E m \in Events :
                 /\ poller' = [pc |-> "row", at |-> m, latest |-> latest, found |-> {}]
                 /\ b <= m /\ m <= latest
                 /\ \A e \in Events : e < b \/ m <= e
                 /\ UNCHANGED next
           \/ /\ poller' = Waiting /\ next' = latest + 1
              /\ \A e \in Events : e < b \/ latest < e
  <1> DEFINE ahead == {e \in Events : b <= e /\ e <= latest}
  <1>1. Events \subseteq 1..height /\ ahead \in SUBSET Nat
    BY EventsType DEF ListenerTypeOK
  <1>2. CASE ahead = {}
    <2>1. \A e \in Events : e < b \/ latest < e
      BY <1>1, <1>2 DEF ListenerTypeOK
    <2>2. QED
      BY <1>2, <2>1 DEF ProceedFrom
  <1>3. CASE ahead # {}
    <2>1. Min(ahead) \in ahead /\ \A e \in ahead : Min(ahead) <= e
      BY <1>1, <1>3, MinIsLeast
    <2> DEFINE m == Min(ahead)
    <2>2. poller' = [pc |-> "row", at |-> m, latest |-> latest, found |-> {}] /\ UNCHANGED next
      BY <1>3 DEF ProceedFrom
    <2>3. m \in Nat /\ m \in Events /\ b <= m /\ m <= latest
      BY <1>1, <2>1
    <2>4. \A e \in Events : e < b \/ m <= e
      BY <1>1, <2>1, <2>3 DEF ListenerTypeOK
    <2> HIDE DEF m
    <2>5. QED
      BY <2>2, <2>3, <2>4
  <1>4. QED
    BY <1>2, <1>3

-----------------------------------------------------------------------------
(* Each step keeps the four parts of the invariant. *)

LEMMA InitListener == ListenerInit => ListenerInv
  <1> SUFFICES ASSUME ListenerInit PROVE ListenerInv
    OBVIOUS
  <1>1. TypeOK /\ CountInv
    BY InitType, CountInit DEF ListenerInit
  <1>2. ListenerTypeOK
    BY <1>1 DEF ListenerInit, ListenerTypeOK
  <1>3. FoundInv
    BY DEF ListenerInit, FoundInv, Waiting
  <1>4. Events = {} /\ next = 0 /\ height = 0
    BY DEF ListenerInit, Init, Events
  <1>5. ScanInv
    BY <1>4 DEF ListenerInit, Init, ScanInv, Waiting, Idle, EventsAreRecorded
  <1>6. QED
    BY <1>1, <1>2, <1>3, <1>5 DEF ListenerInv

LEMMA FoundNext ==
    ASSUME ListenerInv, [ListenerNext]_listenerState
    PROVE  FoundInv'
  <1>0. ListenerTypeOK /\ TypeOK /\ CountInv /\ FoundInv
    BY DEF ListenerInv, ListenerTypeOK
  <1>1. [Next]_vars
    BY <1>0, StepRefines
  <1>2. Settled \subseteq Settled'
    BY <1>0, <1>1, SettledGrows
  <1>3. ASSUME UNCHANGED <<poller, counted, hashed>>,
               \A j \in Keys : contribution[j] # "absent" => contribution'[j] # "absent"
        PROVE  FoundInv'
    BY <1>0, <1>2, <1>3 DEF FoundInv
  <1>4. ASSUME NEW h \in Handlers, RelayInBlock(h) PROVE FoundInv'
    <2>1. UNCHANGED <<poller, contribution, hashed>>
      BY <1>4 DEF RelayInBlock, RelayContribution, db, listener
    <2>2. handler[h].key \in Keys
      BY <1>0, <1>4, BusyIsActive DEF RelayInBlock, RelayContribution
    <2>3. counted' \in {counted, [counted EXCEPT ![handler[h].key] = @ + 1]}
      BY <1>4 DEF RelayInBlock, RelayContribution
    <2>4. \A k \in Keys : counted[k] > 0 => counted'[k] > 0
      BY <1>0, <2>2, <2>3 DEF TypeOK
    <2>5. QED
      BY <1>0, <1>2, <2>1, <2>4 DEF FoundInv
  <1>5. ASSUME NEW h \in Handlers, ConfirmInLedger(h) PROVE FoundInv'
    <2>1. UNCHANGED <<poller, counted>> /\ Confirm(h)
      BY <1>5 DEF ConfirmInLedger, Confirm, listener
    <2>2. \A j \in Keys : contribution[j] # "absent" => contribution'[j] # "absent"
      BY <1>0, <2>1 DEF Confirm, TypeOK
    <2>3. hashed' = hashed \/ \E k \in Keys : hashed' = hashed \cup {k} /\ k \in Settled'
      BY <1>0, <2>1, ConfirmSettles
    <2>4. \A k \in Keys : (k \in hashed => k \in Settled) => (k \in hashed' => k \in Settled')
      BY <1>2, <2>3
    <2>5. QED
      BY <1>0, <2>1, <2>2, <2>4 DEF FoundInv
  <1>6. ASSUME NEW h \in Handlers, NEW k \in Keys, PlainStep(h) \/ Begin(h, k) \/ Settle(k),
               UNCHANGED listenerVars
        PROVE  FoundInv'
    BY <1>0, <1>6, <1>3, PlainRequests DEF listenerVars, listener
  <1>6a. ASSUME NEW h \in Handlers, PlainStep(h), UNCHANGED listenerVars PROVE FoundInv'
    <2>1. handler[h].key \in Keys
      BY <1>0, <1>6a, BusyIsActive
      DEF PlainStep, InitiateCreate, InitiateCollect, InitiateFailed, PollCheck,
          WriteSuccess, WriteFailure, Record, MarkFailed
    <2>2. QED
      BY <2>1, <1>6a, <1>6
  <1>6b. ASSUME NEW k \in Keys, Settle(k), UNCHANGED listenerVars PROVE FoundInv'
    BY <1>6b, <1>3 DEF Settle, db, listenerVars, listener
  <1>7. CASE Poll
    <2>1. poller' = Waiting \/ (poller'.pc = "row" /\ Events # {})
      BY <1>7 DEF Poll, ProceedFrom
    <2>2. "listener" \in Environment /\ UNCHANGED counted
      BY <1>7 DEF Poll, vars
    <2>3. Events # {} => \E event \in Keys : counted[event] > 0
      BY DEF Events
    <2>4. QED
      BY <2>1, <2>2, <2>3 DEF FoundInv, Waiting
  <1>8. CASE PollSwallowed \/ PollError \/ RestartListener
    <2>1. CASE PollError \/ RestartListener
      <3>1. poller' = Waiting
        BY <2>1 DEF PollError, RestartListener
      <3>2. QED
        BY <3>1 DEF FoundInv, Waiting
    <2>2. CASE PollSwallowed
      BY <1>0, <1>3, <2>2 DEF PollSwallowed, vars, db
    <2>3. QED
      BY <1>8, <2>1, <2>2
  <1>9. CASE RecordEvent
    <2>a. poller.pc = "row" /\ UNCHANGED counted
      BY <1>9 DEF RecordEvent, vars
    <2>b. poller # Waiting
      BY <2>a DEF Waiting
    <2>1. /\ poller.pc = "row" /\ poller # Waiting /\ UNCHANGED counted
          /\ "listener" \in Environment /\ \E event \in Keys : counted[event] > 0
      BY <1>0, <2>a, <2>b DEF FoundInv
    <2>2. CASE ProceedFrom(poller.at + 1, poller.latest)
      <3>1. poller' = Waiting \/ poller'.pc = "row"
        BY <2>2 DEF ProceedFrom
      <3>2. QED
        BY <2>1, <3>1 DEF FoundInv, Waiting
    <2>3. ASSUME NEW k \in Keys \ hashed, contribution[k] # "absent",
                 poller' = [poller EXCEPT !.pc = "update", !.found = {k}]
          PROVE  FoundInv'
      <3>1. poller' = [pc |-> "update", at |-> poller.at, latest |-> poller.latest, found |-> {k}]
        BY <1>0, <2>1, <2>3, PollerType DEF Polling
      <3>2. UNCHANGED <<contribution, hashed>>
        BY <1>9 DEF RecordEvent, vars, db
      <3>3. QED
        BY <2>1, <2>3, <3>1, <3>2 DEF FoundInv
    <2>4. QED
      BY <1>9, <2>2, <2>3 DEF RecordEvent
  <1>10. CASE UpdateContribution
    <2>1. /\ "listener" \in Environment /\ \E event \in Keys : counted[event] > 0
          /\ UNCHANGED counted
      BY <1>0, <1>10 DEF UpdateContribution, FoundInv, Waiting
    <2>2. poller' = Waiting \/ poller'.pc = "row"
      BY <1>10 DEF UpdateContribution, ProceedFrom
    <2>3. QED
      BY <2>1, <2>2 DEF FoundInv, Waiting
  <1>11. CASE UNCHANGED listenerState
    BY <1>11, <1>3 DEF listenerState, vars, db, listenerVars, listener
  <1>12. QED
    BY <1>4, <1>5, <1>6, <1>6a, <1>6b, <1>7, <1>8, <1>9, <1>10, <1>11
    DEF ListenerNext, Requests

(* What a step keeps of the invariant: the blocks and rows, what they say of
   contributions and requests, and the loop. *)
ShapeKept ==
    /\ height' \in Nat /\ block' \in [Keys -> 0..height']
    /\ ledger' \in SUBSET (1..height') /\ lost' \in SUBSET (1..height')

CountsKept ==
    /\ \A k \in Keys : counted'[k] > 0 => block'[k] > 0
    /\ \A h \in Handlers : handler'[h].pc = "confirm" => block'[handler'[h].key] > 0

LoopKept ==
    /\ next' \in Nat /\ next' <= height' + 1
    /\ poller' \in Polling \cup {Waiting}
    /\ poller' # Waiting =>
          /\ 1 <= poller'.at /\ poller'.at <= poller'.latest /\ poller'.latest <= height'
          /\ \A e \in Events' : e < poller'.at => e \in ledger' \cup lost'
    /\ poller'.pc = "update" => poller'.at \in ledger'
    /\ EventsAreRecorded'

(* Proceeding keeps the types and leaves nothing behind, if nothing is behind b. *)
LEMMA ProceedKeeps ==
    ASSUME ListenerInv, NEW b \in Nat, NEW latest \in Nat, latest <= height,
           ProceedFrom(b, latest), UNCHANGED <<height, block, lost, counted>>,
           ledger \subseteq ledger',
           \A e \in Events : e < b => e \in ledger' \cup lost'
    PROVE  LoopKept
  <1>1. ListenerTypeOK /\ ScanInv /\ height \in Nat /\ next \in Nat
    BY DEF ListenerInv, ListenerTypeOK
  <1>2. Events \subseteq 1..height /\ Events' = Events
    BY <1>1, EventsType DEF Events
  <1>3. \A e \in Events : e < next => e \in ledger' \cup lost'
    BY <1>1 DEF ScanInv, EventsAreRecorded
  <1>4. ASSUME NEW m \in Events, b <= m, m <= latest, UNCHANGED next,
               poller' = [pc |-> "row", at |-> m, latest |-> latest, found |-> {}],
               \A e \in Events : e < b \/ m <= e
        PROVE  LoopKept
    <2>0. m \in Nat /\ 1 <= m
      BY <1>1, <1>2
    <2>1. \A e \in Events : e < m => e \in ledger' \cup lost'
      BY <1>1, <1>2, <1>4, <2>0
    <2>2. poller' # Waiting /\ poller' \in Polling /\ poller'.at = m /\ poller'.latest = latest
      BY <1>4, <2>0 DEF Waiting, Polling
    <2>3. next' \in Nat /\ next' <= height' + 1
      BY <1>1, <1>4 DEF ScanInv
    <2>4. EventsAreRecorded'
      BY <1>2, <1>3, <1>4 DEF EventsAreRecorded
    <2>5. poller'.pc # "update"
      BY <1>4
    <2>6. QED
      BY <1>2, <1>4, <2>0, <2>1, <2>2, <2>3, <2>4, <2>5 DEF LoopKept
  <1>5. CASE /\ poller' = Waiting /\ next' = latest + 1
             /\ \A e \in Events : e < b \/ latest < e
    <2>1. \A e \in Events : e < latest + 1 => e \in ledger' \cup lost'
      BY <1>1, <1>2, <1>5
    <2>2. EventsAreRecorded'
      BY <1>2, <1>5, <2>1 DEF EventsAreRecorded
    <2>3. QED
      BY <1>1, <1>5, <2>2 DEF Waiting, LoopKept
  <1>6. QED
    BY <1>1, <1>4, <1>5, ProceedMoves

LEMMA ScanNext ==
    ASSUME ListenerInv, [ListenerNext]_listenerState
    PROVE  ListenerTypeOK' /\ ScanInv'
  <1>0. ListenerTypeOK /\ TypeOK /\ CountInv /\ FoundInv /\ ScanInv /\ height \in Nat /\ next \in Nat
    BY DEF ListenerInv, ListenerTypeOK
  <1>1. [Next]_vars /\ TypeOK'
    BY <1>0, StepRefines, NextType
  <1>e. Events \subseteq 1..height
    BY <1>0, EventsType
  <1>c. \A h \in Handlers : handler[h].pc = "confirm" => handler[h].key \in Keys
    BY <1>0, BusyIsActive
  <1>q. ShapeKept /\ CountsKept /\ LoopKept => ListenerTypeOK' /\ ScanInv'
    BY <1>1 DEF ListenerTypeOK, ScanInv, ShapeKept, CountsKept, LoopKept
  \* What is on the chain stays.
  <1>s. ASSUME UNCHANGED <<height, block, counted>>, ledger' \in SUBSET (1..height),
               lost' \in SUBSET (1..height),
               \A h \in Handlers : handler'[h].pc = "confirm" =>
                   handler[h].pc = "confirm" /\ handler'[h].key = handler[h].key
        PROVE  ShapeKept /\ CountsKept /\ Events' = Events
    BY <1>s, <1>0 DEF ListenerTypeOK, ScanInv, Events, ShapeKept, CountsKept
  \* The loop stays where it is, and no event comes before the latest block.
  <1>l. ASSUME UNCHANGED <<next, poller>>, Events' \subseteq Events \cup {height + 1},
               height' \in Nat, height <= height', ledger \subseteq ledger', lost \subseteq lost'
        PROVE  LoopKept
    <2>1. next' \in Nat /\ next' <= height' + 1
      <3>1. next' = next /\ next <= height + 1
        BY <1>l, <1>0 DEF ScanInv
      <3>2. height \in Nat /\ next \in Nat
        BY <1>0
      <3>3. height' \in Nat /\ height <= height'
        BY <1>l
      <3>4. \A n, low, top \in Nat : n <= low + 1 /\ low <= top => n <= top + 1
        OBVIOUS
      <3>5. QED
        BY <3>1, <3>2, <3>3, <3>4
    <2>1a. poller' \in Polling \cup {Waiting}
      BY <1>l, <1>0 DEF ListenerTypeOK
    <2>1b. poller'.pc = "update" => poller'.at \in ledger'
      BY <1>l, <1>0 DEF ScanInv
    <2>2. EventsAreRecorded'
      BY <1>l, <1>0, <1>e DEF ScanInv, EventsAreRecorded
    <2>3. poller' # Waiting =>
             /\ 1 <= poller'.at /\ poller'.at <= poller'.latest /\ poller'.latest <= height'
             /\ \A e \in Events' : e < poller'.at => e \in ledger' \cup lost'
      <3> SUFFICES ASSUME poller # Waiting
                   PROVE  /\ 1 <= poller.at /\ poller.at <= poller.latest
                          /\ poller.latest <= height'
                          /\ \A e \in Events' : e < poller.at => e \in ledger' \cup lost'
        BY <1>l
      <3>1. poller.at \in Nat /\ poller.latest \in Nat
        BY <1>0, PollerType
      <3>2. /\ 1 <= poller.at /\ poller.at <= poller.latest /\ poller.latest <= height
            /\ \A e \in Events : e < poller.at => e \in ledger \cup lost
        BY <1>0 DEF ScanInv
      <3>3. \A e \in Events' : e < poller.at => e \in Events
        BY <1>l, <1>0, <3>1, <3>2
      <3>4. QED
        BY <1>l, <1>0, <3>1, <3>2, <3>3
    <2>4. QED
      BY <2>1, <2>1a, <2>1b, <2>2, <2>3 DEF LoopKept
  <1>2. ASSUME NEW h \in Handlers, RelayInBlock(h) PROVE ShapeKept /\ CountsKept /\ LoopKept
    <2>1. /\ handler[h].key \in Keys /\ counted[handler[h].key] = 0
          /\ handler[h].pc = "relay" /\ UNCHANGED <<ledger, next, poller, lost>>
      BY <1>0, <1>2, BusyIsActive DEF RelayInBlock, RelayContribution, CountInv, listener
    <2>2. Alone(h) /\ \E point \in {"confirm", "mark"} : MovesTo(h, point)
      BY <1>0, <1>2, GotoMoves DEF RelayInBlock, RelayContribution, Points
    <2>3. PICK k \in Keys : k = handler[h].key /\ handler'[h].key = k /\ counted[k] = 0
      BY <2>1, <2>2 DEF MovesTo
    <2>4. counted' \in {counted, [counted EXCEPT ![k] = @ + 1]}
      BY <1>2, <2>3 DEF RelayInBlock, RelayContribution
    <2>5. CASE height' = height + 1 /\ block' = [block EXCEPT ![k] = height + 1]
      <3>1. ShapeKept
        BY <1>0, <2>1, <2>5 DEF ListenerTypeOK, ShapeKept
      <3>2. CountsKept
        <4>1. \A j \in Keys \ {k} : block'[j] = block[j] /\ counted'[j] = counted[j]
          BY <1>0, <2>4, <2>5 DEF ListenerTypeOK, TypeOK
        <4>2. block'[k] = height + 1
          BY <1>0, <2>1, <2>3, <2>5 DEF ListenerTypeOK
        <4>3. \A j \in Keys : counted'[j] > 0 => block'[j] > 0
          BY <1>0, <4>1, <4>2 DEF ScanInv
        <4>4. ASSUME NEW g \in Handlers, handler'[g].pc = "confirm"
              PROVE  block'[handler'[g].key] > 0
          <5>1. CASE g = h
            BY <1>0, <2>3, <4>2, <5>1
          <5>2. CASE g # h
            <6>1. handler[g].pc = "confirm" /\ handler'[g].key = handler[g].key
              BY <2>2, <4>4, <5>2 DEF Alone
            <6>2. PICK j \in Keys : j = handler[g].key /\ block[j] > 0
              BY <1>0, <1>c, <6>1 DEF ScanInv
            <6>3. block'[j] > 0
              BY <1>0, <4>1, <4>2, <6>2
            <6>4. QED
              BY <6>1, <6>2, <6>3
          <5>3. QED
            BY <5>1, <5>2
        <4>5. QED
          BY <4>3, <4>4 DEF CountsKept
      <3>3. Events' \subseteq Events \cup {height + 1}
        BY <1>0, <2>3, <2>4, <2>5 DEF Events, ListenerTypeOK, TypeOK
      <3>4. LoopKept
        BY <1>0, <1>l, <2>1, <2>5, <3>3
      <3>5. QED
        BY <3>1, <3>2, <3>4
    <2>6. CASE UNCHANGED <<counted, height, block>> /\ handler'[h].pc # "confirm"
      <3>1. ShapeKept /\ CountsKept /\ Events' = Events
        BY <1>0, <1>s, <2>1, <2>2, <2>6 DEF ListenerTypeOK, Alone
      <3>2. LoopKept
        BY <1>0, <1>l, <2>1, <2>6, <3>1
      <3>3. QED
        BY <3>1, <3>2
    <2>7. QED
      BY <1>2, <2>3, <2>5, <2>6 DEF RelayInBlock
  <1>3. ASSUME NEW h \in Handlers, ConfirmInLedger(h) PROVE ShapeKept /\ CountsKept /\ LoopKept
    <2>1. UNCHANGED <<height, block, counted, next, poller, lost>> /\ handler[h].pc = "confirm"
      BY <1>3 DEF ConfirmInLedger, Confirm, listener
    <2>2. handler[h].key \in Keys /\ block[handler[h].key] \in 1..height
      BY <1>0, <1>c, <2>1 DEF ScanInv, ListenerTypeOK
    <2>3. ledger' \in {ledger, ledger \cup {block[handler[h].key]}}
      BY <1>3 DEF ConfirmInLedger
    <2>4. Alone(h) /\ (handler'[h] = Idle \/ MovesTo(h, "mark"))
      BY <1>0, <1>3, DoneMoves, GotoMoves DEF ConfirmInLedger, Confirm, Answer, Points
    <2>5. ShapeKept /\ CountsKept /\ Events' = Events
      BY <1>0, <1>s, <2>1, <2>2, <2>3, <2>4 DEF ListenerTypeOK, Alone, MovesTo, Idle
    <2>6. QED
      BY <1>0, <1>l, <2>1, <2>3, <2>5
  <1>4. ASSUME UNCHANGED <<listenerVars, counted>>,
               \A h \in Handlers : handler'[h].pc = "confirm" =>
                   handler[h].pc = "confirm" /\ handler'[h].key = handler[h].key
        PROVE  ShapeKept /\ CountsKept /\ LoopKept
    <2>1. UNCHANGED <<height, block, ledger, next, poller, lost, counted>>
      BY <1>4 DEF listenerVars, listener
    <2>2. ShapeKept /\ CountsKept /\ Events' = Events
      BY <1>0, <1>s, <1>4, <2>1 DEF ListenerTypeOK
    <2>3. QED
      BY <1>0, <1>l, <2>1, <2>2
  <1>5. ASSUME NEW h \in Handlers, PlainStep(h), UNCHANGED listenerVars
        PROVE  ShapeKept /\ CountsKept /\ LoopKept
    <2>1. handler[h].key \in Keys
      BY <1>0, <1>5, BusyIsActive
      DEF PlainStep, InitiateCreate, InitiateCollect, InitiateFailed, PollCheck,
          WriteSuccess, WriteFailure, Record, MarkFailed
    <2>2. QED
      BY <1>0, <1>4, <1>5, <2>1, PlainRequests
  <1>6. ASSUME NEW h \in Handlers, NEW k \in Keys, Begin(h, k), UNCHANGED listenerVars
        PROVE  ShapeKept /\ CountsKept /\ LoopKept
    BY <1>0, <1>4, <1>6, PlainRequests
  <1>7. ASSUME NEW k \in Keys, Settle(k), UNCHANGED listenerVars
        PROVE  ShapeKept /\ CountsKept /\ LoopKept
    BY <1>4, <1>7 DEF Settle
  <1>8. CASE Poll
    <2>1. UNCHANGED <<vars, height, block, ledger, lost>> /\ ProceedFrom(next, height)
      BY <1>8 DEF Poll
    <2>2. UNCHANGED <<counted, handler>>
      BY <2>1 DEF vars
    <2>3. ShapeKept /\ CountsKept
      BY <1>0, <1>s, <2>1, <2>2 DEF ListenerTypeOK
    <2>4. \A e \in Events : e < next => e \in ledger' \cup lost'
      BY <1>0, <2>1 DEF ScanInv, EventsAreRecorded
    <2>5. LoopKept
      BY <1>0, <2>1, <2>2, <2>4, ProceedKeeps
    <2>6. QED
      BY <1>q, <2>3, <2>5
  <1>9. CASE PollSwallowed
    <2>1. /\ UNCHANGED <<counted, handler, height, block, ledger, poller>> /\ poller = Waiting
          /\ next' = height + 1 /\ lost' = lost \cup {e \in Events \ ledger : next <= e}
      BY <1>9 DEF PollSwallowed, vars
    <2>2. lost' \in SUBSET (1..height)
      BY <1>0, <1>e, <2>1 DEF ListenerTypeOK
    <2>3. ShapeKept /\ CountsKept /\ Events' = Events
      BY <1>0, <1>s, <2>1, <2>2 DEF ListenerTypeOK
    <2>4. EventsAreRecorded'
      BY <1>0, <1>e, <2>1, <2>3 DEF ScanInv, EventsAreRecorded
    <2>5. LoopKept
      BY <1>0, <2>1, <2>4 DEF Waiting, LoopKept
    <2>6. QED
      BY <1>q, <2>3, <2>5
  <1>10. CASE RecordEvent
    <2>0. poller.pc = "row" /\ UNCHANGED <<vars, height, block, lost>>
      BY <1>10 DEF RecordEvent
    <2>0a. ledger' = ledger \cup {poller.at}
      BY <1>10 DEF RecordEvent
    <2>0b. poller # Waiting
      BY <2>0 DEF Waiting
    <2>1. /\ poller.pc = "row" /\ poller # Waiting
          /\ UNCHANGED <<counted, handler, height, block, lost>>
          /\ ledger' = ledger \cup {poller.at}
      BY <2>0, <2>0a, <2>0b DEF vars
    <2>2. /\ poller \in Polling /\ poller.at \in Nat /\ poller.latest \in Nat
          /\ 1 <= poller.at /\ poller.at <= poller.latest /\ poller.latest <= height
          /\ \A e \in Events : e < poller.at => e \in ledger \cup lost
      BY <1>0, <2>1, PollerType DEF ScanInv
    <2>3. ShapeKept /\ CountsKept /\ Events' = Events
      <3>1. PICK at : at = poller.at /\ at \in Nat /\ 1 <= at /\ at <= height
        BY <1>0, <2>2
      <3>2. lost' \in SUBSET (1..height)
        BY <1>0, <2>1 DEF ListenerTypeOK
      <3>2a. ledger' = ledger \cup {at} /\ ledger \in SUBSET (1..height) /\ at \in 1..height
        BY <1>0, <2>1, <3>1 DEF ListenerTypeOK
      <3>3. QED
        BY <1>s, <2>1, <3>2, <3>2a
    <2>4. \A e \in Events : e < poller.at + 1 => e \in ledger' \cup lost'
      BY <1>0, <1>e, <2>1, <2>2
    <2>5. CASE ProceedFrom(poller.at + 1, poller.latest)
      <3>1. poller.at + 1 \in Nat
        BY <2>2
      <3>2. LoopKept
        BY <2>1, <2>2, <2>4, <2>5, <3>1, ProceedKeeps
      <3>3. QED
        BY <1>q, <2>3, <3>2
    <2>6. ASSUME NEW k \in Keys, UNCHANGED next,
                 poller' = [poller EXCEPT !.pc = "update", !.found = {k}]
          PROVE  LoopKept
      <3>1. poller' = [pc |-> "update", at |-> poller.at, latest |-> poller.latest, found |-> {k}]
        BY <2>2, <2>6 DEF Polling
      <3>2. poller' \in Polling /\ poller'.at = poller.at /\ poller'.latest = poller.latest
        BY <2>2, <3>1 DEF Polling
      <3>3. EventsAreRecorded'
        BY <1>0, <2>1, <2>3, <2>6 DEF ScanInv, EventsAreRecorded
      <3>4. \A e \in Events' : e < poller'.at => e \in ledger' \cup lost'
        BY <2>1, <2>2, <2>3, <3>2
      <3>5. next' \in Nat /\ next' <= height' + 1
        BY <1>0, <2>1, <2>6 DEF ScanInv
      <3>6. QED
        BY <2>1, <2>2, <3>2, <3>3, <3>4, <3>5 DEF LoopKept
    <2>7. QED
      BY <1>q, <1>10, <2>3, <2>5, <2>6 DEF RecordEvent
  <1>11. CASE UpdateContribution
    <2>1. /\ poller.pc = "update" /\ poller # Waiting
          /\ UNCHANGED <<counted, handler, height, block, ledger, lost>>
          /\ ProceedFrom(poller.at + 1, poller.latest)
      BY <1>11 DEF UpdateContribution, Waiting
    <2>2. /\ poller.at + 1 \in Nat /\ poller.latest \in Nat /\ poller.latest <= height
          /\ poller.at \in Nat /\ poller.at \in ledger
          /\ \A e \in Events : e < poller.at => e \in ledger \cup lost
      BY <1>0, <2>1, PollerType DEF ScanInv
    <2>3. ShapeKept /\ CountsKept
      BY <1>0, <1>s, <2>1 DEF ListenerTypeOK
    <2>4. \A e \in Events : e < poller.at + 1 => e \in ledger' \cup lost'
      BY <1>0, <1>e, <2>1, <2>2
    <2>5. LoopKept
      BY <2>1, <2>2, <2>4, ProceedKeeps
    <2>6. QED
      BY <1>q, <2>3, <2>5
  <1>12. CASE PollError
    <2>1. UNCHANGED <<counted, handler, height, block, ledger, next, lost>> /\ poller' = Waiting
      BY <1>12 DEF PollError, vars
    <2>2. ShapeKept /\ CountsKept /\ Events' = Events
      BY <1>0, <1>s, <2>1 DEF ListenerTypeOK
    <2>3. LoopKept
      BY <1>0, <2>1, <2>2 DEF ScanInv, EventsAreRecorded, Waiting, LoopKept
    <2>4. QED
      BY <1>q, <2>2, <2>3
  <1>13. CASE RestartListener
    <2> DEFINE start == IF ledger = {} THEN height ELSE Max(ledger) + 1
    <2>1. /\ UNCHANGED <<counted, height, block, ledger>> /\ poller' = Waiting
          /\ next' = start /\ lost' = lost \cup {e \in Events \ ledger : e < start}
          /\ handler' = [h \in Handlers |-> Idle]
      BY <1>13 DEF RestartListener, Restart
    <2>2. start \in Nat /\ start <= height + 1
      <3>1. CASE ledger = {}
        BY <1>0, <3>1
      <3>2. CASE ledger # {}
        <4>1. Max(ledger) \in 1..height
          BY <1>0, <3>2, MaxIsGreatest DEF ListenerTypeOK
        <4>2. QED
          BY <1>0, <3>2, <4>1
      <3>3. QED
        BY <3>1, <3>2
    <2> HIDE DEF start
    <2>3. lost' \in SUBSET (1..height)
      BY <1>0, <1>e, <2>1 DEF ListenerTypeOK
    <2>4. ShapeKept /\ CountsKept /\ Events' = Events
      BY <1>0, <1>s, <2>1, <2>3 DEF ListenerTypeOK, Idle
    <2>5. EventsAreRecorded'
      BY <2>1, <2>4 DEF EventsAreRecorded
    <2>6. LoopKept
      BY <2>1, <2>2, <2>5 DEF Waiting, LoopKept
    <2>7. QED
      BY <1>q, <2>4, <2>6
  <1>14. CASE UNCHANGED listenerState
    BY <1>q, <1>4, <1>14 DEF listenerState, vars
  <1>15. QED
    BY <1>q, <1>2, <1>3, <1>5, <1>6, <1>7, <1>8, <1>9, <1>10, <1>11, <1>12, <1>13, <1>14
    DEF ListenerNext, Requests

(* The requests and the listener together keep the whole of it. *)
LEMMA ListenerHolds == ListenerSpec => []ListenerInv
  <1>1. ListenerInv /\ [ListenerNext]_listenerState => ListenerInv'
    <2> SUFFICES ASSUME ListenerInv, [ListenerNext]_listenerState PROVE ListenerInv'
      OBVIOUS
    <2>1. ListenerTypeOK /\ TypeOK /\ CountInv /\ FoundInv
      BY DEF ListenerInv, ListenerTypeOK
    <2>2. [Next]_vars
      BY <2>1, StepRefines
    <2>3. CountInv'
      BY <2>1, <2>2, CountNext
    <2>4. QED
      BY <2>3, FoundNext, ScanNext DEF ListenerInv
  <1>2. QED
    BY <1>1, InitListener, PTL DEF ListenerSpec, listenerState

(* The listener's variables keep their types next to those of Payments: no row
   and no block that the loop is at is past the latest block. *)
THEOREM ListenerTypeCorrect == ListenerSpec => []ListenerTypeOK
  <1>1. ListenerInv => ListenerTypeOK
    BY DEF ListenerInv
  <1>2. QED
    BY <1>1, ListenerHolds, PTL

(* Behind the next block to scan every event has its ledger row, except where a
   query's error was swallowed or a restart began after a later row. *)
THEOREM EventsKeepRows == ListenerSpec => []EventsAreRecorded
  <1>1. ListenerInv => EventsAreRecorded
    BY DEF ListenerInv, ScanInv
  <1>2. QED
    BY <1>1, ListenerHolds, PTL

(* Seen from payments and contributions, the loop that reads, writes a row and
   later confirms what it found is the one step of Payments that confirms a
   contribution, or none. *)
THEOREM PaymentsAreImplemented == ListenerSpec => ImplementsPayments
  <1>1. ListenerInit => Init
    BY DEF ListenerInit
  <1>2. ListenerInv /\ [ListenerNext]_listenerState => [Next]_vars
    BY StepRefines DEF ListenerInv
  <1>3. QED
    BY <1>1, <1>2, ListenerHolds, PTL DEF ListenerSpec, listenerState, ImplementsPayments, Spec

(* With the real loop next to the requests, too, all comes down to the four
   things that happen to a contribution. *)
THEOREM ListenerKeepsCollections == ListenerSpec => ImplementsCollections
  BY PaymentsAreImplemented, CollectionsAreImplemented, PTL DEF ImplementsPayments

=============================================================================
