---------------------------- MODULE EventListener ----------------------------
(***************************************************************************)
(* EventListenerService polls the ContributionMade events of a vault, next *)
(* to the requests of Payments: it writes a ledger row for each event and  *)
(* confirms a contribution.  poller is the loop with its local variables;  *)
(* it yields at each query.  A relayed contribution is alone in its block. *)
(*                                                                         *)
(* The module refines Payments, where the listener is one step.            *)
(***************************************************************************)
EXTENDS Payments, FiniteSetsExt

VARIABLES
    height, \* the latest block
    block,  \* block of the transaction that was relayed for a contribution, or 0
    ledger, \* blocks of the LedgerEvent rows
    next,   \* nextBlockToScan
    poller,
    lost    \* events that no query will ask for any more

listener == <<next, poller, lost>>
listenerVars == <<height, block, ledger, next, poller, lost>>

Waiting == [pc |-> "waiting"]
Polling == [pc : {"row", "update"}, at : Nat, latest : Nat,
            found : SUBSET Keys]

ListenerTypeOK ==
    /\ TypeOK
    /\ height \in Nat
    /\ block \in [Keys -> 0..height]
    /\ ledger \in SUBSET (1..height)
    /\ next \in Nat
    /\ poller \in Polling \cup {Waiting}
    /\ lost \in SUBSET (1..height)

ListenerInit ==
    /\ Init
    /\ height = 0
    /\ block = [k \in Keys |-> 0]
    /\ ledger = {}
    /\ next = 0
    /\ poller = Waiting
    /\ lost = {}

Events == {block[k] : k \in {key \in Keys : counted[key] > 0}}

-----------------------------------------------------------------------------
(* The requests, with what they leave on the chain and in the ledger. *)

(* A transaction that the relayer saw mined has a block, with an event in it or
   not. *)
RelayInBlock(h) ==
    LET k == handler[h].key
    IN  /\ RelayContribution(h)
        /\ \/ /\ counted' # counted \/ handler'[h].pc = "confirm"
              /\ height' = height + 1
              /\ block' = [block EXCEPT ![k] = height + 1]
           \/ /\ counted' = counted /\ handler'[h].pc # "confirm"
              /\ UNCHANGED <<height, block>>
        /\ UNCHANGED <<ledger, listener>>

(* ContributionsService.create ends with a ledger row of its own, unless it
   fails before. *)
ConfirmInLedger(h) ==
    /\ Confirm(h)
    /\ \/ handler'[h] = Idle /\ ledger' = ledger \cup {block[handler[h].key]}
       \/ handler'[h] # Idle /\ UNCHANGED ledger
       \/ "dbError" \in Environment /\ UNCHANGED ledger
    /\ UNCHANGED <<height, block, listener>>

Requests ==
    \/ \E h \in Handlers : RelayInBlock(h) \/ ConfirmInLedger(h)
    \/ /\ \/ \E h \in Handlers : PlainStep(h) \/ \E k \in Keys : Begin(h, k)
          \/ \E k \in Keys : Settle(k)
       /\ UNCHANGED listenerVars

-----------------------------------------------------------------------------
(* The loop of pollEvent. *)

(* The round goes on at the next event, and only when there is none does the
   loop move on. *)
ProceedFrom(b, latest) ==
    LET ahead == {e \in Events : b <= e /\ e <= latest}
    IN  \/ /\ ahead # {}
           /\ poller' = [pc |-> "row", at |-> Min(ahead), latest |-> latest, found |-> {}]
           /\ UNCHANGED next
        \/ /\ ahead = {}
           /\ poller' = Waiting
           /\ next' = latest + 1

(* getLogs up to the latest block... *)
Poll ==
    /\ "listener" \in Environment
    /\ poller = Waiting
    /\ next <= height
    /\ ProceedFrom(next, height)
    /\ UNCHANGED <<vars, height, block, ledger, lost>>

(* ... or an error, which getEventLogsRobust answers with no logs. *)
PollSwallowed ==
    /\ {"listener", "queryError"} \subseteq Environment
    /\ poller = Waiting
    /\ next <= height
    /\ next' = height + 1
    /\ lost' = lost \cup {e \in Events \ ledger : next <= e}
    /\ UNCHANGED <<vars, height, block, ledger, poller>>

(* createLedgerEvent writes the row (an upsert) and looks for the newest
   contribution without a txHash; of equal amounts, so which one it is is left
   open.  Nothing but a restart reads the row, so the two are one step. *)
RecordEvent ==
    LET unhashed == {k \in Keys \ hashed : contribution[k] # "absent"}
    IN  /\ poller.pc = "row"
        /\ ledger' = ledger \cup {poller.at}
        /\ \/ unhashed = {} /\ ProceedFrom(poller.at + 1, poller.latest)
           \/ /\ \E k \in unhashed : poller' = [poller EXCEPT !.pc = "update", !.found = {k}]
              /\ UNCHANGED next
        /\ UNCHANGED <<vars, height, block, lost>>

(* Mutant of UpdateContribution: the balance is added to as well. *)
UpdateAndBook ==
    /\ poller.pc = "update"
    /\ contribution' = [k \in Keys |-> IF k \in poller.found THEN "CONFIRMED" ELSE contribution[k]]
    /\ hashed' = hashed \cup poller.found
    /\ balance' = balance + Amount
    /\ ProceedFrom(poller.at + 1, poller.latest)
    /\ UNCHANGED <<payment, counted, campay, acknowledged, handler,
                   height, block, ledger, lost>>

(* The contribution is confirmed, whatever a request has made of it since. *)
UpdateContribution ==
    /\ poller.pc = "update"
    /\ contribution' = [k \in Keys |-> IF k \in poller.found THEN "CONFIRMED" ELSE contribution[k]]
    /\ hashed' = hashed \cup poller.found
    /\ ProceedFrom(poller.at + 1, poller.latest)
    /\ UNCHANGED <<payment, balance, counted, campay, acknowledged, handler,
                   height, block, ledger, lost>>

(* Mutant of PollError: the range is left though its events are not recorded. *)
PollErrorSkips ==
    /\ "dbError" \in Environment
    /\ poller # Waiting
    /\ poller' = Waiting
    /\ next' = poller.latest + 1
    /\ UNCHANGED <<vars, height, block, ledger, lost>>

(* An error while an event is recorded ends the round; the next one asks for
   the same blocks again. *)
PollError ==
    /\ "dbError" \in Environment
    /\ poller # Waiting
    /\ poller' = Waiting
    /\ UNCHANGED <<vars, height, block, ledger, next, lost>>

(* getStartingBlock: the loop begins after the latest ledger row, even if that
   row is a request's and the events before it were not polled. *)
RestartListener ==
    LET start == IF ledger = {} THEN height ELSE Max(ledger) + 1
    IN  /\ Restart
        /\ next' = start
        /\ poller' = Waiting
        /\ lost' = lost \cup {e \in Events \ ledger : e < start}
        /\ UNCHANGED <<height, block, ledger>>

ListenerNext ==
    \/ Requests
    \/ Poll \/ PollSwallowed \/ RecordEvent \/ UpdateContribution \/ PollError
    \/ RestartListener

ListenerSpec == ListenerInit /\ [][ListenerNext]_<<vars, listenerVars>>

-----------------------------------------------------------------------------
(* The listener does to payments and contributions what Payments takes it to do
   in one step: it confirms a contribution that has no txHash once the vault has
   counted one, even when requests confirm or fail it between the reading and
   the update, and it books nothing. *)
ImplementsPayments == Spec

(* No event is passed over, while requests write rows of the same ledger and
   rounds end in errors: behind the next block to scan every event has its row,
   except where a query's error was swallowed, or where a restart began after a
   later row. *)
EventsAreRecorded == \A e \in Events : e < next => e \in ledger \cup lost
=============================================================================
