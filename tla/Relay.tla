------------------------------- MODULE Relay --------------------------------
(***************************************************************************)
(* Gasless calls: the backend signs a request with the member's key and    *)
(* has GasRelayer execute it on a vault (RelayerService, GasRelayer.sol,   *)
(* CooperativeVault.sol, CoopFactory.sol).                                 *)
(*                                                                         *)
(* relay[r] is one call of RelayerService: it reads the nonce of a member, *)
(* submits a transaction and waits for its receipt, while other calls do   *)
(* the same.  All transactions come from the relayer's account, and enter  *)
(* the chain in the order of submission.                                   *)
(***************************************************************************)
EXTENDS CooperativeVault, FiniteSetsExt

CONSTANTS
    Vaults,        \* one per cooperative
    Relays,        \* the calls of RelayerService
    Amounts,       \* amounts of contributions
    Lifetime,      \* time until the deadline of a request (300 s)
    MaxTries,      \* submissions of a request (maxAttempts of withRetry, 3)
    MaxProposals,  \* bound: proposals of a vault
    MaxTime        \* bound: the clock

ASSUME AmountsAssumption == Amounts \subseteq Nat
ASSUME LifetimeAssumption == Lifetime \in Nat
ASSUME TriesAssumption == MaxTries \in Nat \ {0}
ASSUME RelayBoundsAssumption == MaxProposals \in Nat /\ MaxTime \in Nat

VARIABLES
    now,         \* the clock, block.timestamp
    nonce,       \* GasRelayer._nonces
    whitelisted, \* GasRelayer.whitelistedTargets
    vault,       \* the vaults, by address
    events,      \* MetaTransactionExecuted events of each member
    released,    \* proposals with a FundsReleased event
    pool,        \* transactions of the relayer's account that wait for a block
    relay        \* where each call of RelayerService is

chain == <<nonce, whitelisted, vault, events, released>>
vars == <<now, nonce, whitelisted, vault, events, released, pool, relay>>

Call ==
    [op : {"contribute"}, amount : Amounts]
    \cup [op : {"createProposal"}]
    \cup [op : {"vote"}, id : Nat, choice : BOOLEAN]

ForwardRequest ==
    [from : Members, to : Vaults, nonce : Nat, deadline : Nat, call : Call]

Event == [req : ForwardRequest, success : BOOLEAN]
New == [pc |-> "new"]
Failed == [pc |-> "failed"]
Transaction == [req : ForwardRequest, by : Relays, try : 0..MaxTries]
BegunRelay == [pc : {"submit", "wait", "confirmed"}, req : ForwardRequest, tries : 0..MaxTries]

TypeOK ==
    /\ now \in Nat
    /\ nonce \in [Members -> Nat]
    /\ whitelisted \in SUBSET Vaults
    /\ vault \in [Vaults -> Vault]
    /\ events \in [Members -> Seq(Event)]
    /\ released \in [Vaults -> SUBSET Nat]
    /\ pool \in Seq(Transaction)
    /\ relay \in [Relays -> BegunRelay \cup {New, Failed}]

Init ==
    /\ now = 0
    /\ nonce = [m \in Members |-> 0]
    /\ whitelisted = {}
    /\ vault = [v \in Vaults |-> EmptyVault]
    /\ events = [m \in Members |-> <<>>]
    /\ released = [v \in Vaults |-> {}]
    /\ pool = <<>>
    /\ relay = [r \in Relays |-> New]

-----------------------------------------------------------------------------
(* What members ask for; a vote carries the id of a proposal that the vault
   had when the backend stored it. *)
Calls(v) ==
    [op : {"contribute"}, amount : Amounts]
    \cup (IF ProposalCount(vault[v]) < MaxProposals THEN [op : {"createProposal"}] ELSE {})
    \cup [op : {"vote"}, id : 1..ProposalCount(vault[v]), choice : BOOLEAN]

(* CoopFactory.deployCooperative: the vault is deployed and whitelisted. *)
DeployCooperative(v) ==
    /\ v \notin whitelisted
    /\ whitelisted' = whitelisted \cup {v}
    /\ UNCHANGED <<now, nonce, vault, events, released, pool, relay>>

(* buildForwardRequest: the nonce is read, the deadline set. *)
RelayBegin(r, m, v, call) ==
    /\ relay[r] = New
    /\ relay' = [relay EXCEPT ![r] =
                   [pc |-> "submit", tries |-> 0,
                    req |-> [from |-> m, to |-> v, nonce |-> nonce[m],
                             deadline |-> now + Lifetime, call |-> call]]]
    /\ UNCHANGED <<now, chain, pool>>

(* Mutant of Executable: the nonce is not compared. *)
ExecutableAgain(req) == req.to \in whitelisted /\ req.deadline >= now

(* What GasRelayer.execute requires; the signature is the member's own. *)
Executable(req) ==
    /\ req.to \in whitelisted
    /\ req.deadline >= now
    /\ req.nonce = nonce[req.from]

(* Mutant of RelaySubmit: the attempts are not limited. *)
RelaySubmitForever(r) ==
    LET try == relay[r].tries + 1
    IN  /\ relay[r].pc = "submit"
        /\ Executable(relay[r].req)
        /\ pool' = Append(pool, [req |-> relay[r].req, by |-> r, try |-> try])
        /\ \E point \in {"submit", "wait"} :
              relay' = [relay EXCEPT ![r].pc = point, ![r].tries = try]
        /\ UNCHANGED <<now, chain>>

(* signAndSubmit: the transaction is first simulated on the current state.
   After an error about fees or a replacement the request is submitted again,
   as another transaction, whether or not the first has reached the pool. *)
RelaySubmit(r) ==
    LET try == relay[r].tries + 1
    IN  /\ relay[r].pc = "submit"
        /\ try <= MaxTries
        /\ Executable(relay[r].req)
        /\ pool' = Append(pool, [req |-> relay[r].req, by |-> r, try |-> try])
        /\ \E point \in {"submit", "wait"} :
              relay' = [relay EXCEPT ![r].pc = point, ![r].tries = try]
        /\ UNCHANGED <<now, chain>>

(* The simulation reverts, or the network fails: the relay throws. *)
RelayError(r) ==
    /\ relay[r].pc \in {"submit", "wait"}
    /\ relay' = [relay EXCEPT ![r] = Failed]
    /\ UNCHANGED <<now, chain, pool>>

-----------------------------------------------------------------------------
(* The calls that a vault accepts, and the vault they leave. *)
Accepts(req) ==
    \/ req.call.op = "contribute" /\ req.call.amount # 0
    \/ req.call.op = "createProposal"
    \/ req.call.op = "vote" /\ CanVote(vault[req.to], req.from, req.call.id)

After(req) ==
    CASE req.call.op = "contribute" -> Contribute(vault[req.to], req.from, req.call.amount)
      [] req.call.op = "createProposal" -> CreateProposal(vault[req.to])
      [] req.call.op = "vote" -> Vote(vault[req.to], req.from, req.call.id, req.call.choice)

(* Mutant of Execute: the nonce is spent only by a call that succeeds. *)
ExecuteKeepingNonce(req) ==
    /\ nonce' = IF Accepts(req) THEN [nonce EXCEPT ![req.from] = @ + 1] ELSE nonce
    /\ vault' = IF Accepts(req) THEN [vault EXCEPT ![req.to] = After(req)] ELSE vault
    /\ events' = [events EXCEPT ![req.from] =
                    Append(@, [req |-> req, success |-> Accepts(req)])]

(* GasRelayer.execute.  The nonce is spent before the call; a call that
   reverts is reported in the event and reverts nothing else. *)
Execute(req) ==
    /\ nonce' = [nonce EXCEPT ![req.from] = @ + 1]
    /\ vault' = IF Accepts(req) THEN [vault EXCEPT ![req.to] = After(req)] ELSE vault
    /\ events' = [events EXCEPT ![req.from] =
                    Append(@, [req |-> req, success |-> Accepts(req)])]

(* The next transaction of the account enters a block.  Its sender, if it
   still waits, gets the receipt: the hash is returned whatever it says. *)
Mine ==
    LET tx == Head(pool)
        waiting == relay[tx.by] = [pc |-> "wait", req |-> tx.req, tries |-> tx.try]
    IN  /\ pool # <<>>
        /\ pool' = Tail(pool)
        /\ \/ Executable(tx.req) /\ Execute(tx.req)
           \/ ~Executable(tx.req) /\ UNCHANGED <<nonce, vault, events>>
        /\ relay' = IF waiting THEN [relay EXCEPT ![tx.by].pc = "confirmed"] ELSE relay
        /\ UNCHANGED <<now, whitelisted, released>>

(* VaultService.releaseFundsAsAdmin: sent by the admin, not relayed. *)
ReleaseFunds(v, id) ==
    /\ v \in whitelisted
    /\ CanRelease(vault[v], id)
    /\ released' = [released EXCEPT ![v] = @ \cup {id}]
    /\ UNCHANGED <<now, nonce, whitelisted, vault, events, pool, relay>>

Tick ==
    /\ now < MaxTime
    /\ now' = now + 1
    /\ UNCHANGED <<chain, pool, relay>>

Next ==
    \/ \E v \in Vaults : DeployCooperative(v)
    \/ \E r \in Relays :
        \/ \E m \in Members, v \in Vaults : \E call \in Calls(v) : RelayBegin(r, m, v, call)
        \/ RelaySubmit(r) \/ RelayError(r)
    \/ Mine
    \/ \E v \in Vaults : \E id \in 1..MaxProposals : ReleaseFunds(v, id)
    \/ Tick

Spec == Init /\ [][Next]_vars

-----------------------------------------------------------------------------
(* The requests whose relay returned a transaction hash. *)
Confirmed == {relay[r].req : r \in {q \in Relays : relay[q].pc = "confirmed"}}

(* The calls of a member that a vault accepted. *)
Accepted(m) == {i \in DOMAIN events[m] : events[m][i].success}

Contributions(m, v) ==
    {i \in Accepted(m) : events[m][i].req.to = v /\ events[m][i].req.call.op = "contribute"}

Ballots(m, v, id) ==
    {i \in Accepted(m) :
        /\ events[m][i].req.to = v
        /\ events[m][i].req.call.op = "vote"
        /\ events[m][i].req.call.id = id}

(* Nothing is relayed twice: no two executions of a member's requests spend
   the same nonce, so a request that is retried, or two that were signed on
   the same nonce, are executed once (buildForwardRequest, withRetry and the
   check of GasRelayer.execute). *)
ExecutedOnce ==
    \A m \in Members : \A i, j \in DOMAIN events[m] :
        events[m][i].req.nonce = events[m][j].req.nonce => i = j

(* A vault's accounts are the accepted contributions, no more and no less:
   of each member, and in total (contribute). *)
AccountsMatchEvents ==
    \A v \in Vaults :
        /\ vault[v].total = MapThenSumSet(LAMBDA m : vault[v].contributed[m], Members)
        /\ \A m \in Members :
              vault[v].contributed[m] =
                  MapThenSumSet(LAMBDA i : events[m][i].req.call.amount, Contributions(m, v))

(* The tallies of a proposal count its voters, and each voter cast exactly
   one ballot that was accepted (vote, behind the relayer). *)
TalliesAreVoters ==
    \A v \in Vaults : \A id \in 1..ProposalCount(vault[v]) :
        LET p == vault[v].proposals[id]
        IN  /\ p.yes + p.no = Cardinality(p.voters)
            /\ \A m \in Members : (m \in p.voters) = (Ballots(m, v, id) # {})
            /\ \A m \in Members : \A i, j \in Ballots(m, v, id) : i = j

(* Funds are released only for a proposal with more than BallotFloor voters,
   most of them in favour, and it stays so: no ballot counted before or after
   the release undoes the majority (releaseFunds, vote). *)
ReleasedByMajority ==
    \A v \in Vaults : \A id \in released[v] :
        /\ id \in 1..ProposalCount(vault[v])
        /\ Cardinality(vault[v].proposals[id].voters) > BallotFloor
        /\ vault[v].proposals[id].yes > vault[v].proposals[id].no

(* A relay that returned is over: its request was executed, or its nonce was
   taken by another, or its deadline passed; it cannot take effect later. *)
ConfirmedIsSettled ==
    \A req \in Confirmed : nonce[req.from] > req.nonce \/ req.deadline < now

(* The chain keeps the accounts and CamPay the money, always in sync (Addendum
   3.1): a request whose relay returned, which the backend records as confirmed,
   was accepted by the vault. *)
ConfirmedIsAccepted ==
    \A req \in Confirmed : \E i \in Accepted(req.from) : events[req.from][i].req = req
=============================================================================
