----------------------------- MODULE RelayProofs -----------------------------
(* What holds of Relay and its vaults for every value of the constants. *)
EXTENDS Relay, Induction, SequenceTheorems

-----------------------------------------------------------------------------
(* The contract: each function leaves a vault. *)

LEMMA EmptyVaultType == EmptyVault \in Vault
  BY EmptySeq DEF EmptyVault, Vault

LEMMA ContributeType ==
    ASSUME NEW box \in Vault, NEW m \in Members, NEW amount \in Nat
    PROVE  /\ Contribute(box, m, amount) \in Vault
           /\ Contribute(box, m, amount).proposals = box.proposals
  <1>1. PICK total \in Nat : total = box.total + amount
    BY DEF Vault
  <1>2. PICK sums \in [Members -> Nat] : sums = [box.contributed EXCEPT ![m] = @ + amount]
    <2>1. box.contributed \in [Members -> Nat] /\ box.contributed[m] + amount \in Nat
      BY DEF Vault
    <2>2. [box.contributed EXCEPT ![m] = box.contributed[m] + amount] \in [Members -> Nat]
      BY <2>1
    <2>3. QED
      BY <2>2
  <1>3. Contribute(box, m, amount) = [box EXCEPT !.total = total, !.contributed = sums]
    BY <1>1, <1>2 DEF Contribute, Vault
  <1>4. QED
    BY <1>3 DEF Vault

LEMMA NewProposalType == NewProposal \in Proposal
  BY DEF NewProposal, Proposal

LEMMA CreateProposalType ==
    ASSUME NEW box \in Vault
    PROVE  /\ CreateProposal(box) \in Vault
           /\ CreateProposal(box).proposals = Append(box.proposals, NewProposal)
  <1>1. Append(box.proposals, NewProposal) \in Seq(Proposal)
    BY NewProposalType, AppendProperties DEF Vault
  <1>2. CreateProposal(box) =
           [box EXCEPT !.proposals = Append(box.proposals, NewProposal)]
    BY DEF CreateProposal, Vault
  <1>3. QED
    BY <1>1, <1>2 DEF Vault

LEMMA CountedType ==
    ASSUME NEW p \in Proposal, NEW m \in Members, NEW choice \in BOOLEAN
    PROVE  Counted(p, m, choice) \in Proposal
  BY DEF Counted, Proposal, Resolves

LEMMA VoteType ==
    ASSUME NEW box \in Vault, NEW m \in Members, NEW id, NEW choice \in BOOLEAN,
           CanVote(box, m, id)
    PROVE  /\ Vote(box, m, id, choice) \in Vault
           /\ Vote(box, m, id, choice).proposals =
                 [box.proposals EXCEPT ![id] = Counted(@, m, choice)]
  <1>1. id \in 1..Len(box.proposals) /\ box.proposals \in Seq(Proposal)
    BY DEF CanVote, ProposalCount, Vault
  <1>2. Counted(box.proposals[id], m, choice) \in Proposal
    BY <1>1, CountedType, ElementOfSeq
  <1>3. [box.proposals EXCEPT ![id] = Counted(box.proposals[id], m, choice)] \in Seq(Proposal)
    BY <1>1, <1>2, ExceptSeq
  <1>4. QED
    BY <1>3 DEF Vote, Vault

-----------------------------------------------------------------------------
(* Requests. *)

LEMMA CallCases ==
    ASSUME NEW c \in Call
    PROVE  /\ c.op \in {"contribute", "createProposal", "vote"}
           /\ c.op = "contribute" => c.amount \in Nat
           /\ c.op = "vote" => c.id \in Nat /\ c.choice \in BOOLEAN
  BY AmountsAssumption DEF Call

LEMMA CallsType == ASSUME NEW v PROVE Calls(v) \subseteq Call
  BY DEF Calls, Call, ProposalCount

LEMMA AfterType ==
    ASSUME TypeOK, NEW req \in ForwardRequest, Accepts(req)
    PROVE  After(req) \in Vault
  <1>1. /\ req.from \in Members /\ req.to \in Vaults /\ req.call \in Call
        /\ vault[req.to] \in Vault
    BY DEF ForwardRequest, TypeOK
  <1>2. CASE req.call.op = "contribute"
    BY <1>1, <1>2, CallCases, ContributeType DEF After
  <1>3. CASE req.call.op = "createProposal"
    BY <1>1, <1>3, CreateProposalType DEF After
  <1>4. CASE req.call.op = "vote"
    BY <1>1, <1>4, CallCases, VoteType DEF After, Accepts
  <1>5. QED
    BY <1>1, <1>2, <1>3, <1>4, CallCases

(* A block takes the first transaction of the account, and executes it or not. *)
Executed(req) == Executable(req) /\ Execute(req)
Dropped(req) == ~Executable(req) /\ UNCHANGED <<nonce, vault, events>>
Waits(tx) == relay[tx.by] = [pc |-> "wait", req |-> tx.req, tries |-> tx.try]

LEMMA MineCases ==
    ASSUME TypeOK, Mine
    PROVE  \E tx \in Transaction :
              /\ pool # <<>> /\ tx = Head(pool) /\ pool' = Tail(pool)
              /\ Executed(tx.req) \/ Dropped(tx.req)
              /\ \/ UNCHANGED relay
                 \/ Waits(tx) /\ relay' = [relay EXCEPT ![tx.by].pc = "confirmed"]
              /\ UNCHANGED <<now, whitelisted, released>>
  <1>1. Head(pool) \in Transaction /\ pool # <<>>
    BY HeadTailProperties DEF TypeOK, Mine
  <1>2. QED
    BY <1>1 DEF Mine, Executed, Dropped, Waits

LEMMA ExecutedType ==
    ASSUME TypeOK, NEW req \in ForwardRequest, Executed(req)
    PROVE  /\ nonce' \in [Members -> Nat]
           /\ vault' \in [Vaults -> Vault]
           /\ events' \in [Members -> Seq(Event)]
  <1>1. req.from \in Members /\ req.to \in Vaults /\ nonce[req.from] + 1 \in Nat
    BY DEF ForwardRequest, TypeOK
  <1>2. nonce' \in [Members -> Nat]
    BY <1>1 DEF Executed, Execute, TypeOK
  <1>3. vault' \in [Vaults -> Vault]
    <2>1. CASE Accepts(req)
      BY <1>1, <2>1, AfterType DEF Executed, Execute, TypeOK
    <2>2. CASE ~Accepts(req)
      BY <2>2 DEF Executed, Execute, TypeOK
    <2>3. QED
      BY <2>1, <2>2
  <1>4. PICK success \in BOOLEAN : success = Accepts(req)
    BY DEF Accepts, CanVote
  <1>5. events' \in [Members -> Seq(Event)]
    <2>1. [req |-> req, success |-> success] \in Event
      BY DEF Event
    <2>2. Append(events[req.from], [req |-> req, success |-> success]) \in Seq(Event)
      BY <1>1, <2>1, AppendProperties DEF TypeOK
    <2>3. events' = [events EXCEPT ![req.from] =
                       Append(events[req.from], [req |-> req, success |-> success])]
      BY <1>4 DEF Executed, Execute
    <2>4. QED
      BY <2>2, <2>3 DEF TypeOK
  <1>6. QED
    BY <1>2, <1>3, <1>5

-----------------------------------------------------------------------------
LEMMA InitType == Init => TypeOK
  BY EmptyVaultType, EmptySeq DEF Init, TypeOK

LEMMA BegunIsTyped ==
    ASSUME TypeOK, NEW r \in Relays, relay[r].pc \in {"submit", "wait", "confirmed"}
    PROVE  relay[r] \in BegunRelay
  BY DEF TypeOK, New, Failed

(* Each action keeps the type of every variable. *)
LEMMA NextType == TypeOK /\ [Next]_vars => TypeOK'
  <1> SUFFICES ASSUME TypeOK, [Next]_vars PROVE TypeOK'
    OBVIOUS
  <1>1. ASSUME NEW v \in Vaults, DeployCooperative(v) PROVE TypeOK'
    BY <1>1 DEF DeployCooperative, TypeOK
  <1>2. ASSUME NEW r \in Relays, NEW m \in Members, NEW v \in Vaults, NEW call \in Calls(v),
               RelayBegin(r, m, v, call)
        PROVE  TypeOK'
    <2>1. call \in Call /\ nonce[m] \in Nat /\ now + Lifetime \in Nat
      BY CallsType, LifetimeAssumption DEF TypeOK
    <2>2. [from |-> m, to |-> v, nonce |-> nonce[m], deadline |-> now + Lifetime, call |-> call]
            \in ForwardRequest
      BY <2>1 DEF ForwardRequest
    <2>3. PICK begun \in BegunRelay : relay' = [relay EXCEPT ![r] = begun]
      <3> DEFINE req == [from |-> m, to |-> v, nonce |-> nonce[m],
                         deadline |-> now + Lifetime, call |-> call]
      <3>1. relay' = [relay EXCEPT ![r] = [pc |-> "submit", tries |-> 0, req |-> req]]
        BY <1>2 DEF RelayBegin
      <3>2. req \in ForwardRequest /\ 0 \in 0..MaxTries
        BY <2>2, TriesAssumption
      <3> HIDE DEF req
      <3>3. [pc |-> "submit", tries |-> 0, req |-> req] \in BegunRelay
        BY <3>2 DEF BegunRelay
      <3>4. QED
        BY <3>1, <3>3
    <2>4. QED
      BY <1>2, <2>3 DEF RelayBegin, TypeOK, chain
  <1>3. ASSUME NEW r \in Relays, RelaySubmit(r) PROVE TypeOK'
    <2>1. relay[r] \in BegunRelay
      BY <1>3, BegunIsTyped DEF RelaySubmit
    <2>2. PICK try \in 1..MaxTries : try = relay[r].tries + 1
      <3>1. relay[r].tries \in 0..MaxTries /\ relay[r].tries + 1 <= MaxTries
        BY <1>3, <2>1 DEF RelaySubmit, BegunRelay
      <3>2. QED
        BY <3>1, TriesAssumption
    <2>3. [req |-> relay[r].req, by |-> r, try |-> try] \in Transaction
      BY <2>1, <2>2 DEF BegunRelay, Transaction
    <2>4. pool' \in Seq(Transaction)
      <3>1. pool' = Append(pool, [req |-> relay[r].req, by |-> r, try |-> try])
        BY <1>3, <2>2 DEF RelaySubmit
      <3>2. QED
        BY <2>3, <3>1, AppendProperties DEF TypeOK
    <2>5. PICK point \in {"submit", "wait"} :
             relay' = [relay EXCEPT ![r].pc = point, ![r].tries = try]
      BY <1>3, <2>2 DEF RelaySubmit
    <2>6. [relay[r] EXCEPT !.pc = point, !.tries = try] \in BegunRelay
      <3>1. \A b \in BegunRelay, n \in 0..MaxTries :
               [b EXCEPT !.pc = point, !.tries = n] \in BegunRelay
        BY DEF BegunRelay
      <3>2. try \in 0..MaxTries
        BY TriesAssumption
      <3>3. QED
        BY <2>1, <3>1, <3>2
    <2>7. relay' \in [Relays -> BegunRelay \cup {New, Failed}]
      BY <2>5, <2>6 DEF TypeOK
    <2>8. QED
      BY <1>3, <2>4, <2>7 DEF RelaySubmit, TypeOK, chain
  <1>4. ASSUME NEW r \in Relays, RelayError(r) PROVE TypeOK'
    BY <1>4 DEF RelayError, TypeOK, chain
  <1>5. CASE Mine
    <2>1. PICK tx \in Transaction :
              /\ pool # <<>> /\ tx = Head(pool) /\ pool' = Tail(pool)
              /\ Executed(tx.req) \/ Dropped(tx.req)
              /\ \/ UNCHANGED relay
                 \/ Waits(tx) /\ relay' = [relay EXCEPT ![tx.by].pc = "confirmed"]
              /\ UNCHANGED <<now, whitelisted, released>>
      BY <1>5, MineCases
    <2>2. /\ nonce' \in [Members -> Nat]
          /\ vault' \in [Vaults -> Vault]
          /\ events' \in [Members -> Seq(Event)]
      <3>1. tx.req \in ForwardRequest
        BY DEF Transaction
      <3>2. QED
        BY <2>1, <3>1, ExecutedType DEF Dropped, TypeOK
    <2>3. pool' \in Seq(Transaction)
      BY <2>1, HeadTailProperties DEF TypeOK
    <2>4. relay' \in [Relays -> BegunRelay \cup {New, Failed}]
      <3>1. CASE UNCHANGED relay
        BY <3>1 DEF TypeOK
      <3>2. CASE Waits(tx) /\ relay' = [relay EXCEPT ![tx.by].pc = "confirmed"]
        <4>1. relay[tx.by] \in BegunRelay /\ tx.by \in Relays
          BY <3>2, BegunIsTyped DEF Waits, Transaction
        <4>2. [relay[tx.by] EXCEPT !.pc = "confirmed"] \in BegunRelay
          BY <4>1 DEF BegunRelay
        <4>3. QED
          BY <3>2, <4>2 DEF TypeOK
      <3>3. QED
        BY <2>1, <3>1, <3>2
    <2>5. QED
      BY <2>1, <2>2, <2>3, <2>4 DEF TypeOK
  <1>6. ASSUME NEW v \in Vaults, NEW id \in 1..MaxProposals, ReleaseFunds(v, id) PROVE TypeOK'
    BY <1>6, RelayBoundsAssumption DEF ReleaseFunds, TypeOK
  <1>7. CASE Tick
    BY <1>7 DEF Tick, TypeOK, chain
  <1>8. CASE UNCHANGED vars
    BY <1>8 DEF vars, TypeOK
  <1>9. QED
    BY <1>1, <1>2, <1>3, <1>4, <1>5, <1>6, <1>7, <1>8 DEF Next

(* Every variable keeps its type: in particular a vault is left a vault by each
   of its functions, called by whatever request the relayer executes. *)
THEOREM TypeCorrect == Spec => []TypeOK
  BY InitType, NextType, PTL DEF Spec

-----------------------------------------------------------------------------
(* What a step can do to the log: nothing, or one request is executed. *)
LEMMA StepCases ==
    ASSUME TypeOK, [Next]_vars
    PROVE  \/ UNCHANGED <<nonce, vault, events>>
           \/ /\ \E req \in ForwardRequest : Executed(req)
              /\ UNCHANGED <<now, whitelisted, released>>
  <1>1. CASE Mine
    <2>1. PICK tx \in Transaction :
              /\ Executed(tx.req) \/ Dropped(tx.req)
              /\ UNCHANGED <<now, whitelisted, released>>
      BY <1>1, MineCases
    <2>2. tx.req \in ForwardRequest
      BY DEF Transaction
    <2>3. QED
      BY <2>1, <2>2 DEF Dropped
  <1>2. CASE ~Mine
    BY <1>2 DEF Next, DeployCooperative, RelayBegin, RelaySubmit, RelayError, ReleaseFunds, Tick,
                chain, vars
  <1>3. QED
    BY <1>1, <1>2

(* The log of one member after a request of that member. *)
LEMMA LogGrows ==
    ASSUME TypeOK, NEW req \in ForwardRequest, Executed(req)
    PROVE  \E success \in BOOLEAN :
              /\ success = Accepts(req)
              /\ Len(events[req.from]) \in Nat
              /\ events'[req.from] = Append(events[req.from], [req |-> req, success |-> success])
              /\ Len(events'[req.from]) = Len(events[req.from]) + 1
              /\ \A i \in 1..Len(events[req.from]) : events'[req.from][i] = events[req.from][i]
              /\ events'[req.from][Len(events[req.from]) + 1] = [req |-> req, success |-> success]
              /\ \A m \in Members \ {req.from} : events'[m] = events[m]
  <1>1. req.from \in Members /\ events[req.from] \in Seq(Event)
    BY DEF ForwardRequest, TypeOK
  <1>2. PICK success \in BOOLEAN : success = Accepts(req)
    BY DEF Accepts, CanVote
  <1>3. events' = [events EXCEPT ![req.from] =
                     Append(events[req.from], [req |-> req, success |-> success])]
    BY <1>2 DEF Executed, Execute
  <1>4. [req |-> req, success |-> success] \in Event
    BY DEF Event
  <1>5. events'[req.from] = Append(events[req.from], [req |-> req, success |-> success])
    BY <1>1, <1>3 DEF TypeOK
  <1>6. \A m \in Members \ {req.from} : events'[m] = events[m]
    BY <1>3 DEF TypeOK
  <1>7. QED
    BY <1>1, <1>2, <1>4, <1>5, <1>6, AppendProperties, LenProperties

(* The i-th execution of a member's requests spent the nonce i - 1. *)
NonceInv ==
    \A m \in Members :
        /\ Len(events[m]) = nonce[m]
        /\ \A i \in 1..Len(events[m]) : events[m][i].req.nonce = i - 1

LEMMA NonceInit == Init => NonceInv
  BY EmptySeq DEF Init, NonceInv

LEMMA NonceNext == TypeOK /\ NonceInv /\ [Next]_vars => NonceInv'
  <1> SUFFICES ASSUME TypeOK, NonceInv, [Next]_vars PROVE NonceInv'
    OBVIOUS
  <1>1. CASE UNCHANGED <<nonce, vault, events>>
    BY <1>1 DEF NonceInv
  <1>2. ASSUME NEW req \in ForwardRequest, Executed(req) PROVE NonceInv'
    <2>1. PICK success \in BOOLEAN :
              /\ Len(events[req.from]) \in Nat
              /\ Len(events'[req.from]) = Len(events[req.from]) + 1
              /\ \A i \in 1..Len(events[req.from]) : events'[req.from][i] = events[req.from][i]
              /\ events'[req.from][Len(events[req.from]) + 1] = [req |-> req, success |-> success]
              /\ \A m \in Members \ {req.from} : events'[m] = events[m]
      BY <1>2, LogGrows
    <2>2. /\ req.from \in Members /\ req.nonce = nonce[req.from]
          /\ nonce' = [nonce EXCEPT ![req.from] = @ + 1]
      BY <1>2 DEF ForwardRequest, Executed, Executable, Execute
    <2>3. ASSUME NEW m \in Members \ {req.from}
          PROVE  /\ Len(events'[m]) = nonce'[m]
                 /\ \A i \in 1..Len(events'[m]) : events'[m][i].req.nonce = i - 1
      BY <2>1, <2>2, <2>3 DEF TypeOK, NonceInv
    <2>4. Len(events'[req.from]) = nonce'[req.from]
      BY <2>1, <2>2 DEF TypeOK, NonceInv
    <2>5. ASSUME NEW i \in 1..Len(events'[req.from])
          PROVE  events'[req.from][i].req.nonce = i - 1
      <3>1. CASE i \in 1..Len(events[req.from])
        <4>1. events'[req.from][i] = events[req.from][i]
          BY <2>1, <3>1
        <4>2. events[req.from][i].req.nonce = i - 1
          BY <2>2, <3>1 DEF NonceInv
        <4>3. QED
          BY <4>1, <4>2
      <3>2. CASE i = Len(events[req.from]) + 1
        BY <2>1, <2>2, <3>2 DEF NonceInv
      <3>3. QED
        BY <2>1, <2>5, <3>1, <3>2
    <2>6. QED
      BY <2>3, <2>4, <2>5 DEF NonceInv
  <1>3. QED
    BY <1>1, <1>2, StepCases

LEMMA NonceHolds == Spec => [](TypeOK /\ NonceInv)
  BY InitType, NextType, NonceInit, NonceNext, PTL DEF Spec

(* No two executions spend one nonce: a request that is submitted again, or two
   requests that were signed on the same nonce, are executed once (withRetry,
   buildForwardRequest and the check of GasRelayer.execute). *)
THEOREM RequestsExecuteOnce == Spec => []ExecutedOnce
  <1>1. TypeOK /\ NonceInv => ExecutedOnce
    <2> SUFFICES ASSUME TypeOK, NonceInv, NEW m \in Members,
                        NEW i \in DOMAIN events[m], NEW j \in DOMAIN events[m],
                        events[m][i].req.nonce = events[m][j].req.nonce
                 PROVE  i = j
      BY DEF ExecutedOnce
    <2>1. DOMAIN events[m] = 1..Len(events[m]) /\ Len(events[m]) \in Nat
      BY LenProperties DEF TypeOK
    <2>2. QED
      BY <2>1 DEF NonceInv
  <1>2. QED
    BY <1>1, NonceHolds, PTL

-----------------------------------------------------------------------------
(* Nonces are only spent, targets only added, and the clock only goes on. *)
LEMMA ChainGoesOn ==
    ASSUME TypeOK, [Next]_vars
    PROVE  /\ now' \in Nat /\ now <= now'
           /\ whitelisted \subseteq whitelisted'
           /\ \A m \in Members : nonce'[m] \in Nat /\ nonce[m] <= nonce'[m]
  <1>1. now' \in Nat /\ now <= now'
    <2>1. now' = now + 1 \/ now' = now
      BY DEF Next, DeployCooperative, RelayBegin, RelaySubmit, RelayError, Mine, ReleaseFunds,
             Tick, vars
    <2>2. \A t \in Nat : t + 1 \in Nat /\ t <= t + 1 /\ t <= t
      OBVIOUS
    <2>3. QED
      BY <2>1, <2>2 DEF TypeOK
  <1>2. whitelisted \subseteq whitelisted'
    BY DEF Next, DeployCooperative, RelayBegin, RelaySubmit, RelayError, Mine, ReleaseFunds,
           Tick, chain, vars
  <1>3. \A m \in Members : nonce'[m] \in Nat /\ nonce[m] <= nonce'[m]
    <2>1. CASE UNCHANGED <<nonce, vault, events>>
      BY <2>1 DEF TypeOK
    <2>2. ASSUME NEW req \in ForwardRequest, Executed(req)
          PROVE  \A m \in Members : nonce'[m] \in Nat /\ nonce[m] <= nonce'[m]
      BY <2>2 DEF Executed, Execute, TypeOK
    <2>3. QED
      BY <2>1, <2>2, StepCases
  <1>4. QED
    BY <1>1, <1>2, <1>3

(* What was true of each request when it was submitted, and is still. *)
Sent(req) == req.to \in whitelisted /\ req.nonce <= nonce[req.from]

Settled(req) == nonce[req.from] > req.nonce \/ req.deadline < now

Pooled == {pool[i].req : i \in 1..Len(pool)}

SentInv ==
    /\ \A req \in Pooled : Sent(req)
    /\ \A req \in Confirmed : Settled(req)

LEMMA SentIsKept ==
    ASSUME TypeOK, [Next]_vars, NEW req \in ForwardRequest
    PROVE  /\ Sent(req) => Sent(req)'
           /\ Settled(req) => Settled(req)'
  <1>1. /\ req.from \in Members /\ req.nonce \in Nat /\ req.deadline \in Nat
        /\ nonce[req.from] \in Nat /\ now \in Nat
    BY DEF ForwardRequest, TypeOK
  <1>2. PICK clock \in Nat : clock = now' /\ now <= clock
    BY ChainGoesOn
  <1>3. PICK spent \in Nat : spent = nonce'[req.from] /\ nonce[req.from] <= spent
    BY <1>1, ChainGoesOn
  <1>4. QED
    BY <1>1, <1>2, <1>3, ChainGoesOn DEF Sent, Settled

(* A mined request that was sent is executed, or it was settled already. *)
LEMMA MinedIsSettled ==
    ASSUME TypeOK, NEW req \in ForwardRequest, Sent(req), UNCHANGED now,
           Executed(req) \/ Dropped(req)
    PROVE  Settled(req)'
  <1>1. /\ req.from \in Members /\ req.nonce \in Nat /\ req.deadline \in Nat
        /\ nonce[req.from] \in Nat /\ now \in Nat
    BY DEF ForwardRequest, TypeOK
  <1>2. CASE Executed(req)
    <2>1. nonce'[req.from] = nonce[req.from] + 1 /\ req.nonce = nonce[req.from]
      BY <1>1, <1>2 DEF Executed, Execute, Executable, TypeOK
    <2>2. QED
      BY <1>1, <2>1 DEF Settled
  <1>3. CASE Dropped(req)
    BY <1>1, <1>3 DEF Dropped, Executable, Sent, Settled
  <1>4. QED
    BY <1>2, <1>3

LEMMA SentInit == Init => SentInv
  BY EmptySeq DEF Init, SentInv, Pooled, Confirmed, New

(* Requests get to the pool by being submitted, to Confirmed by being mined. *)
LEMMA RequestTypes ==
    ASSUME TypeOK
    PROVE  Pooled \subseteq ForwardRequest /\ Confirmed \subseteq ForwardRequest
  <1>1. \A i \in 1..Len(pool) : pool[i] \in Transaction
    BY ElementOfSeq DEF TypeOK
  <1>2. \A r \in Relays : relay[r].pc = "confirmed" => relay[r].req \in ForwardRequest
    BY BegunIsTyped DEF BegunRelay
  <1>3. QED
    BY <1>1, <1>2 DEF Pooled, Confirmed, Transaction

LEMMA SentNext == TypeOK /\ SentInv /\ [Next]_vars => SentInv'
  <1> SUFFICES ASSUME TypeOK, SentInv, [Next]_vars PROVE SentInv'
    OBVIOUS
  <1>a. \A req \in Pooled : Sent(req)'
    BY RequestTypes, SentIsKept DEF SentInv
  <1>b. \A req \in Confirmed : Settled(req)'
    BY RequestTypes, SentIsKept DEF SentInv
  <1>1. CASE UNCHANGED <<pool, relay>>
    <2>1. Pooled' = Pooled /\ Confirmed' = Confirmed
      BY <1>1 DEF Pooled, Confirmed
    <2>2. QED
      BY <1>a, <1>b, <2>1 DEF SentInv
  <1>2. ASSUME NEW r \in Relays, NEW m \in Members, NEW v \in Vaults, NEW call \in Calls(v),
               RelayBegin(r, m, v, call)
        PROVE  SentInv'
    <2>1. Pooled' = Pooled /\ Confirmed' \subseteq Confirmed
      BY <1>2 DEF RelayBegin, Pooled, Confirmed, TypeOK
    <2>2. QED
      BY <1>a, <1>b, <2>1 DEF SentInv
  <1>3. ASSUME NEW r \in Relays, RelayError(r) PROVE SentInv'
    <2>1. Pooled' = Pooled /\ Confirmed' \subseteq Confirmed
      BY <1>3 DEF RelayError, Failed, Pooled, Confirmed, TypeOK
    <2>2. QED
      BY <1>a, <1>b, <2>1 DEF SentInv
  <1>4. ASSUME NEW r \in Relays, RelaySubmit(r) PROVE SentInv'
    <2>1. PICK req \in ForwardRequest : req = relay[r].req
      BY <1>4, BegunIsTyped DEF RelaySubmit, BegunRelay
    <2>2. PICK tx \in Transaction : tx.req = req /\ pool' = Append(pool, tx)
      <3>1. relay[r] \in BegunRelay
        BY <1>4, BegunIsTyped DEF RelaySubmit
      <3>2. PICK try \in 0..MaxTries : try = relay[r].tries + 1
        BY <1>4, <3>1, TriesAssumption DEF RelaySubmit, BegunRelay
      <3>3. [req |-> req, by |-> r, try |-> try] \in Transaction
        BY DEF Transaction
      <3>4. QED
        BY <1>4, <2>1, <3>2, <3>3 DEF RelaySubmit
    <2>3. Pooled' \subseteq Pooled \cup {req}
      BY <2>2, AppendProperties DEF Pooled, TypeOK
    <2>4. Confirmed' \subseteq Confirmed
      BY <1>4 DEF RelaySubmit, Confirmed, TypeOK
    <2>5. Sent(req)
      <3>1. req.from \in Members /\ nonce[req.from] \in Nat
        BY DEF ForwardRequest, TypeOK
      <3>2. QED
        BY <1>4, <2>1, <3>1 DEF RelaySubmit, Executable, Sent
    <2>6. Sent(req)'
      BY <2>5, SentIsKept
    <2>7. QED
      BY <1>a, <1>b, <2>3, <2>4, <2>6 DEF SentInv
  <1>5. CASE Mine
    <2>1. PICK tx \in Transaction :
              /\ pool # <<>> /\ tx = Head(pool) /\ pool' = Tail(pool)
              /\ Executed(tx.req) \/ Dropped(tx.req)
              /\ \/ UNCHANGED relay
                 \/ Waits(tx) /\ relay' = [relay EXCEPT ![tx.by].pc = "confirmed"]
              /\ UNCHANGED <<now, whitelisted, released>>
      BY <1>5, MineCases
    <2>2. PICK req \in ForwardRequest : req = tx.req
      BY DEF Transaction
    <2>3. Pooled' \subseteq Pooled /\ req \in Pooled
      <3>1. /\ pool \in Seq(Transaction) /\ pool # <<>> /\ Len(pool) \in Nat /\ Len(pool) # 0
            /\ Head(pool) = pool[1]
        BY <2>1, EmptySeq, LenProperties DEF TypeOK
      <3>2. /\ Len(pool') = Len(pool) - 1
            /\ \A i \in 1..Len(pool') : pool'[i] = pool[i + 1]
        BY <2>1, <3>1, HeadTailProperties
      <3>3. \A i \in 1..Len(pool') : pool'[i].req \in Pooled
        <4>1. ASSUME NEW i \in 1..Len(pool') PROVE pool'[i].req \in Pooled
          <5>1. i + 1 \in 1..Len(pool) /\ pool'[i] = pool[i + 1]
            BY <3>1, <3>2
          <5>2. QED
            BY <5>1 DEF Pooled
        <4>2. QED
          BY <4>1
      <3>4. req \in Pooled
        <4>1. 1 \in 1..Len(pool) /\ pool[1].req = req
          BY <2>1, <2>2, <3>1
        <4>2. QED
          BY <4>1 DEF Pooled
      <3>5. QED
        BY <3>3, <3>4 DEF Pooled
    <2>4. Confirmed' \subseteq Confirmed \cup {req}
      <3>1. CASE UNCHANGED relay
        BY <3>1 DEF Confirmed
      <3>2. CASE Waits(tx) /\ relay' = [relay EXCEPT ![tx.by].pc = "confirmed"]
        <4>1. tx.by \in Relays /\ relay[tx.by].req = req
          BY <2>2, <3>2 DEF Waits, Transaction
        <4>2. \A r \in Relays : relay'[r].req = relay[r].req
          BY <3>2 DEF TypeOK
        <4>3. \A r \in Relays \ {tx.by} : relay'[r] = relay[r]
          BY <3>2 DEF TypeOK
        <4>4. QED
          BY <4>1, <4>2, <4>3 DEF Confirmed
      <3>3. QED
        BY <2>1, <3>1, <3>2
    <2>5. Settled(req)'
      BY <2>1, <2>2, <2>3, MinedIsSettled DEF SentInv
    <2>6. QED
      BY <1>a, <1>b, <2>3, <2>4, <2>5 DEF SentInv
  <1>6. QED
    BY <1>1, <1>2, <1>3, <1>4, <1>5
       DEF Next, DeployCooperative, ReleaseFunds, Tick, vars

(* A call of the relayer that has returned is over: its request was executed, or
   its nonce was taken by another, or its deadline passed.  This needs that a
   request was executable when it was submitted: it is dropped from the pool only
   for its nonce or its deadline, and neither is ever turned back. *)
THEOREM ConfirmationsAreFinal == Spec => []ConfirmedIsSettled
  <1>1. SentInv => ConfirmedIsSettled
    BY DEF SentInv, Settled, ConfirmedIsSettled
  <1>2. QED
    BY <1>1, InitType, NextType, SentInit, SentNext, PTL DEF Spec

-----------------------------------------------------------------------------
(* The tallies of one vault, through each function of the contract. *)

(* A tally counts the voters, and decides as it stands now. *)
Fair(p) ==
    /\ p.yes + p.no = Cardinality(p.voters)
    /\ p.resolved = Resolves(p.yes, p.no)
    /\ p.approved = (p.resolved /\ p.yes > p.no)

Tallied(box) == \A id \in 1..ProposalCount(box) : Fair(box.proposals[id])

(* Proposals stay, those that are resolved as they are. *)
Keeps(box, next) ==
    \A id \in 1..ProposalCount(box) :
        /\ id \in 1..ProposalCount(next)
        /\ box.proposals[id].resolved => next.proposals[id] = box.proposals[id]

HasVoted(box, m, id) ==
    id \in 1..ProposalCount(box) /\ m \in box.proposals[id].voters

(* A proposal takes a ballot of a member who has not voted while the two sides
   are even or few. *)
LEMMA CountedIsFair ==
    ASSUME NEW p \in Proposal, Fair(p), NEW m \in Members, m \notin p.voters, NEW choice \in BOOLEAN
    PROVE  Fair(Counted(p, m, choice))
  <1>1. /\ p.yes \in Nat /\ p.no \in Nat /\ p.voters \in SUBSET Members
        /\ Cardinality(p.voters) \in Nat
    BY VaultMembersAssumption, FS_Subset, FS_CardinalityType DEF Proposal
  <1>2. Cardinality(p.voters \cup {m}) = Cardinality(p.voters) + 1
    BY <1>1, VaultMembersAssumption, FS_Subset, FS_AddElement
  <1>3. PICK yes \in Nat : yes = p.yes + (IF choice THEN 1 ELSE 0)
    BY <1>1
  <1>4. PICK no \in Nat : no = p.no + (IF choice THEN 0 ELSE 1)
    BY <1>1
  <1>5. yes + no = Cardinality(p.voters) + 1
    BY <1>1, <1>3, <1>4 DEF Fair
  <1>6. Counted(p, m, choice) =
           [yes |-> yes, no |-> no, resolved |-> Resolves(yes, no),
            approved |-> Resolves(yes, no) /\ yes > no, voters |-> p.voters \cup {m}]
    BY <1>3, <1>4 DEF Counted
  <1>7. QED
    BY <1>2, <1>5, <1>6 DEF Fair

LEMMA ContributionKeepsTallies ==
    ASSUME NEW box \in Vault, Tallied(box), NEW m \in Members, NEW amount \in Nat
    PROVE  LET next == Contribute(box, m, amount)
           IN  /\ Tallied(next) /\ Keeps(box, next)
               /\ \A u, id : HasVoted(next, u, id) = HasVoted(box, u, id)
  BY ContributeType DEF Tallied, Keeps, HasVoted, ProposalCount

LEMMA CreationKeepsTallies ==
    ASSUME NEW box \in Vault, Tallied(box)
    PROVE  LET next == CreateProposal(box)
           IN  /\ Tallied(next) /\ Keeps(box, next)
               /\ \A u, id : HasVoted(next, u, id) = HasVoted(box, u, id)
  <1> DEFINE next == CreateProposal(box)
             count == Len(box.proposals)
  <1>1. /\ Len(next.proposals) = count + 1 /\ count \in Nat
        /\ \A id \in 1..count : next.proposals[id] = box.proposals[id]
        /\ next.proposals[count + 1] = NewProposal
    <2>1. next.proposals = Append(box.proposals, NewProposal) /\ box.proposals \in Seq(Proposal)
      BY CreateProposalType DEF Vault
    <2> HIDE DEF next
    <2>2. QED
      BY <2>1, NewProposalType, AppendProperties, LenProperties
  <1>2. Fair(NewProposal) /\ NewProposal.voters = {}
    <2>1. Cardinality({}) = 0
      BY FS_EmptySet
    <2>2. NewProposal.yes = 0 /\ NewProposal.no = 0
      BY DEF NewProposal
    <2>3. NewProposal.voters = {}
      BY DEF NewProposal
    <2>4. NewProposal.resolved = FALSE /\ NewProposal.approved = FALSE
      BY DEF NewProposal
    <2>5. Cardinality(NewProposal.voters) = 0
      BY <2>1, <2>3, Zenon
    <2>6. NewProposal.yes + NewProposal.no = Cardinality(NewProposal.voters)
      <3>1. 0 + 0 = 0
        OBVIOUS
      <3>2. QED
        BY <2>2, <2>5, <3>1, Zenon
    <2>7. NewProposal.resolved = Resolves(NewProposal.yes, NewProposal.no)
      BY <2>2, <2>4, Zenon DEF Resolves
    <2>8. NewProposal.approved = (NewProposal.resolved /\ NewProposal.yes > NewProposal.no)
      BY <2>4, Zenon
    <2>9. QED
      BY <2>3, <2>6, <2>7, <2>8 DEF Fair
  <1> HIDE DEF next
  <1>3. \A id \in 1..(count + 1) : id \in 1..count \/ id = count + 1
    BY <1>1
  <1>4. Tallied(next)
    BY <1>1, <1>2, <1>3 DEF Tallied, ProposalCount
  <1>5. Keeps(box, next)
    BY <1>1 DEF Keeps, ProposalCount
  <1>6. \A u, id : HasVoted(next, u, id) = HasVoted(box, u, id)
    BY <1>1, <1>2, <1>3 DEF HasVoted, ProposalCount
  <1>7. QED
    BY <1>4, <1>5, <1>6 DEF next

LEMMA VoteKeepsTallies ==
    ASSUME NEW box \in Vault, Tallied(box), NEW m \in Members, NEW at, NEW choice \in BOOLEAN,
           CanVote(box, m, at)
    PROVE  LET next == Vote(box, m, at, choice)
           IN  /\ Tallied(next) /\ Keeps(box, next)
               /\ \A u, id : HasVoted(next, u, id) =
                               (HasVoted(box, u, id) \/ (u = m /\ id = at))
  <1> DEFINE next == Vote(box, m, at, choice)
             voted == Counted(box.proposals[at], m, choice)
  <1>1. /\ box.proposals \in Seq(Proposal) /\ at \in 1..Len(box.proposals)
        /\ ~box.proposals[at].resolved /\ m \notin box.proposals[at].voters
    BY DEF Vault, CanVote, ProposalCount
  <1>2. box.proposals[at] \in Proposal /\ Fair(box.proposals[at])
    BY <1>1, ElementOfSeq DEF Tallied, ProposalCount
  <1>3. voted \in Proposal /\ Fair(voted) /\ voted.voters = box.proposals[at].voters \cup {m}
    BY <1>1, <1>2, CountedType, CountedIsFair DEF Counted
  <1>4. next.proposals = [box.proposals EXCEPT ![at] = voted]
    BY VoteType
  <1> HIDE DEF voted, next
  <1>5. /\ Len(next.proposals) = Len(box.proposals)
        /\ next.proposals[at] = voted
        /\ \A id \in 1..Len(box.proposals) : id # at => next.proposals[id] = box.proposals[id]
    BY <1>1, <1>3, <1>4, ExceptSeq
  <1>6. Tallied(next)
    BY <1>3, <1>5 DEF Tallied, ProposalCount
  <1>7. Keeps(box, next)
    BY <1>1, <1>5 DEF Keeps, ProposalCount
  <1>8. \A u, id : HasVoted(next, u, id) = (HasVoted(box, u, id) \/ (u = m /\ id = at))
    BY <1>1, <1>3, <1>5 DEF HasVoted, ProposalCount
  <1>9. QED
    BY <1>6, <1>7, <1>8 DEF next

-----------------------------------------------------------------------------
(* The tallies of all vaults, and the log. *)

VotesFor(req, m, v, id) ==
    req.call.op = "vote" /\ m = req.from /\ v = req.to /\ id = req.call.id

LEMMA AfterKeepsTallies ==
    ASSUME TypeOK, NEW req \in ForwardRequest, Accepts(req), Tallied(vault[req.to])
    PROVE  /\ Tallied(After(req)) /\ Keeps(vault[req.to], After(req))
           /\ \A m, id : HasVoted(After(req), m, id) =
                           (HasVoted(vault[req.to], m, id) \/ VotesFor(req, m, req.to, id))
  <1>1. /\ req.from \in Members /\ req.to \in Vaults /\ req.call \in Call
        /\ vault[req.to] \in Vault
    BY DEF ForwardRequest, TypeOK
  <1>2. CASE req.call.op = "contribute"
    <2>1. /\ Tallied(After(req)) /\ Keeps(vault[req.to], After(req))
          /\ \A m, id : HasVoted(After(req), m, id) = HasVoted(vault[req.to], m, id)
      BY <1>1, <1>2, CallCases, ContributionKeepsTallies DEF After
    <2>2. \A m, id : ~VotesFor(req, m, req.to, id)
      BY <1>2 DEF VotesFor
    <2>3. QED
      BY <2>1, <2>2 DEF HasVoted
  <1>3. CASE req.call.op = "createProposal"
    <2>1. /\ Tallied(After(req)) /\ Keeps(vault[req.to], After(req))
          /\ \A m, id : HasVoted(After(req), m, id) = HasVoted(vault[req.to], m, id)
      BY <1>1, <1>3, CreationKeepsTallies DEF After
    <2>2. \A m, id : ~VotesFor(req, m, req.to, id)
      BY <1>3 DEF VotesFor
    <2>3. QED
      BY <2>1, <2>2 DEF HasVoted
  <1>4. CASE req.call.op = "vote"
    BY <1>1, <1>4, CallCases, VoteKeepsTallies DEF After, Accepts, VotesFor
  <1>5. QED
    BY <1>1, <1>2, <1>3, <1>4, CallCases

TallyInv == \A v \in Vaults : Tallied(vault[v])

LEMMA TallyInit == Init => TallyInv
  <1>1. ProposalCount(EmptyVault) = 0
    BY EmptySeq DEF ProposalCount, EmptyVault
  <1>2. Tallied(EmptyVault)
    BY <1>1 DEF Tallied
  <1>3. QED
    BY <1>2 DEF Init, TallyInv

(* A step leaves every proposal that it does not resolve, and no voter is
   added without a ballot. *)
LEMMA VaultsGoOn ==
    ASSUME TypeOK, TallyInv, [Next]_vars, NEW v \in Vaults
    PROVE  Tallied(vault'[v]) /\ Keeps(vault[v], vault'[v])
  <1>1. CASE UNCHANGED <<nonce, vault, events>>
    BY <1>1 DEF TallyInv, Keeps
  <1>2. ASSUME NEW req \in ForwardRequest, Executed(req)
        PROVE  Tallied(vault'[v]) /\ Keeps(vault[v], vault'[v])
    <2>1. req.to \in Vaults /\ Tallied(vault[req.to])
      BY DEF ForwardRequest, TallyInv
    <2>2. CASE Accepts(req) /\ v = req.to
      <3>1. vault'[v] = After(req)
        BY <1>2, <2>1, <2>2 DEF Executed, Execute, TypeOK
      <3>2. QED
        BY <2>1, <2>2, <3>1, AfterKeepsTallies
    <2>3. CASE ~(Accepts(req) /\ v = req.to)
      <3>1. vault'[v] = vault[v]
        BY <1>2, <2>1, <2>3 DEF Executed, Execute, TypeOK
      <3>2. QED
        BY <3>1 DEF TallyInv, Keeps
    <2>4. QED
      BY <2>2, <2>3
  <1>3. QED
    BY <1>1, <1>2, StepCases

LEMMA TallyNext == TypeOK /\ TallyInv /\ [Next]_vars => TallyInv'
  BY VaultsGoOn DEF TallyInv

(* Funds are released for proposals that are approved, and these are closed. *)
ReleaseInv ==
    \A v \in Vaults : \A id \in released[v] :
        /\ id \in 1..ProposalCount(vault[v])
        /\ vault[v].proposals[id].approved

LEMMA ReleaseInit == Init => ReleaseInv
  BY DEF Init, ReleaseInv

LEMMA ReleaseNext == TypeOK /\ TallyInv /\ ReleaseInv /\ [Next]_vars => ReleaseInv'
  <1> SUFFICES ASSUME TypeOK, TallyInv, ReleaseInv, [Next]_vars,
                      NEW v \in Vaults, NEW id \in released'[v]
               PROVE  /\ id \in 1..ProposalCount(vault'[v])
                      /\ vault'[v].proposals[id].approved
    BY DEF ReleaseInv
  <1>1. CASE id \in released[v]
    <2>1. /\ id \in 1..ProposalCount(vault[v])
          /\ vault[v].proposals[id].approved /\ vault[v].proposals[id].resolved
      BY <1>1 DEF ReleaseInv, TallyInv, Tallied, Fair
    <2>2. QED
      BY <2>1, VaultsGoOn DEF Keeps
  <1>2. CASE id \notin released[v]
    <2>1. PICK u \in Vaults, at \in 1..MaxProposals : ReleaseFunds(u, at)
      BY <1>2, StepCases DEF Next, DeployCooperative, RelayBegin, RelaySubmit, RelayError, Mine,
                             Tick, chain, vars
    <2>2. u = v /\ at = id
      BY <1>2, <2>1 DEF ReleaseFunds, TypeOK
    <2>3. QED
      BY <2>1, <2>2 DEF ReleaseFunds, CanRelease
  <1>3. QED
    BY <1>1, <1>2

(* Funds are released only for a proposal with more than BallotFloor voters, most
   of them in favour, and no ballot before or after the release undoes it: a
   resolved proposal takes no more ballots (releaseFunds, vote). *)
THEOREM ReleasesHaveMajority == Spec => []ReleasedByMajority
  <1>1. TypeOK /\ TallyInv /\ ReleaseInv => ReleasedByMajority
    <2> SUFFICES ASSUME TypeOK, TallyInv, ReleaseInv, NEW v \in Vaults, NEW id \in released[v]
                 PROVE  /\ id \in 1..ProposalCount(vault[v])
                        /\ Cardinality(vault[v].proposals[id].voters) > BallotFloor
                        /\ vault[v].proposals[id].yes > vault[v].proposals[id].no
      BY DEF ReleasedByMajority
    <2>1. /\ id \in 1..ProposalCount(vault[v])
          /\ vault[v].proposals[id].approved /\ Fair(vault[v].proposals[id])
      BY DEF ReleaseInv, TallyInv, Tallied
    <2>2. QED
      BY <2>1 DEF Fair, Resolves
  <1>2. QED
    BY <1>1, InitType, NextType, TallyInit, TallyNext, ReleaseInit, ReleaseNext, PTL DEF Spec

(* Whoever is a voter of a proposal has one ballot for it in the log. *)
BallotInv ==
    \A m \in Members, v \in Vaults, id \in Nat :
        /\ (Ballots(m, v, id) # {}) = HasVoted(vault[v], m, id)
        /\ \A i, j \in Ballots(m, v, id) : i = j

LEMMA BallotInit == Init => BallotInv
  <1> SUFFICES ASSUME Init, NEW m \in Members, NEW v \in Vaults, NEW id \in Nat
               PROVE  Ballots(m, v, id) = {} /\ ~HasVoted(vault[v], m, id)
    BY DEF BallotInv, HasVoted
  <1>1. Len(events[m]) = 0 /\ DOMAIN events[m] = {}
    BY EmptySeq DEF Init
  <1>2. Ballots(m, v, id) = {}
    BY <1>1 DEF Ballots, Accepted
  <1>3. ProposalCount(vault[v]) = 0
    BY EmptySeq DEF Init, ProposalCount, EmptyVault
  <1>4. QED
    BY <1>2, <1>3 DEF HasVoted

(* The log gets one more ballot of its member, if the request is a vote that
   the vault accepts. *)
LEMMA BallotsGrow ==
    ASSUME TypeOK, NEW req \in ForwardRequest, Executed(req),
           NEW m \in Members, NEW v \in Vaults, NEW id \in Nat
    PROVE  LET cast == Accepts(req) /\ VotesFor(req, m, v, id)
               last == Len(events[m]) + 1
           IN  /\ ~cast => Ballots(m, v, id)' = Ballots(m, v, id)
               /\ cast => Ballots(m, v, id)' = Ballots(m, v, id) \cup {last}
  <1>1. CASE m # req.from
    <2>1. events'[m] = events[m]
      BY <1>1, LogGrows
    <2>2. QED
      BY <1>1, <2>1 DEF Ballots, Accepted, VotesFor
  <1>2. CASE m = req.from
    <2>1. PICK success \in BOOLEAN :
              /\ success = Accepts(req)
              /\ Len(events[req.from]) \in Nat
              /\ events'[req.from] = Append(events[req.from], [req |-> req, success |-> success])
              /\ Len(events'[req.from]) = Len(events[req.from]) + 1
              /\ \A i \in 1..Len(events[req.from]) : events'[req.from][i] = events[req.from][i]
              /\ events'[req.from][Len(events[req.from]) + 1] = [req |-> req, success |-> success]
      BY LogGrows
    <2>2. events[m] \in Seq(Event)
      BY DEF TypeOK
    <2>3. [req |-> req, success |-> success] \in Event
      BY DEF Event
    <2>4. DOMAIN events[m] = 1..Len(events[m])
      BY <2>2, LenProperties
    <2>5. DOMAIN events'[m] = 1..(Len(events[m]) + 1)
      BY <1>2, <2>1, <2>2, <2>3, AppendProperties, LenProperties
    <2>6. PICK last \in Nat : last = Len(events[m]) + 1
      BY <1>2, <2>1
    <2>7. DOMAIN events'[m] = DOMAIN events[m] \cup {last} /\ last \notin DOMAIN events[m]
      BY <1>2, <2>1, <2>4, <2>5, <2>6
    <2>8. \A i \in DOMAIN events[m] : events'[m][i] = events[m][i]
      BY <1>2, <2>1, <2>4
    <2>9. events'[m][last].req = req /\ events'[m][last].success = success
      BY <1>2, <2>1, <2>6
    <2>10. \A i \in DOMAIN events[m] : i \in Ballots(m, v, id)' <=> i \in Ballots(m, v, id)
      BY <2>7, <2>8 DEF Ballots, Accepted
    <2>11. last \in Ballots(m, v, id)' <=> Accepts(req) /\ VotesFor(req, m, v, id)
      BY <1>2, <2>1, <2>7, <2>9 DEF Ballots, Accepted, VotesFor
    <2>12. /\ Ballots(m, v, id) \subseteq DOMAIN events[m]
           /\ Ballots(m, v, id)' \subseteq DOMAIN events[m] \cup {last}
      BY <2>7 DEF Ballots, Accepted
    <2>13. QED
      BY <2>6, <2>10, <2>11, <2>12
  <1>3. QED
    BY <1>1, <1>2

LEMMA BallotNext == TypeOK /\ TallyInv /\ BallotInv /\ [Next]_vars => BallotInv'
  <1> SUFFICES ASSUME TypeOK, TallyInv, BallotInv, [Next]_vars,
                      NEW m \in Members, NEW v \in Vaults, NEW id \in Nat
               PROVE  /\ (Ballots(m, v, id)' # {}) = HasVoted(vault'[v], m, id)
                      /\ \A i, j \in Ballots(m, v, id)' : i = j
    BY DEF BallotInv
  <1>1. CASE UNCHANGED <<nonce, vault, events>>
    BY <1>1 DEF BallotInv, Ballots, Accepted
  <1>2. ASSUME NEW req \in ForwardRequest, Executed(req)
        PROVE  /\ (Ballots(m, v, id)' # {}) = HasVoted(vault'[v], m, id)
               /\ \A i, j \in Ballots(m, v, id)' : i = j
    <2>1. req.to \in Vaults /\ Tallied(vault[req.to])
      BY DEF ForwardRequest, TallyInv
    <2>2. CASE Accepts(req) /\ VotesFor(req, m, v, id)
      <3>1. vault'[v] = After(req)
        BY <1>2, <2>1, <2>2 DEF Executed, Execute, VotesFor, TypeOK
      <3>2. HasVoted(vault'[v], m, id)
        BY <2>1, <2>2, <3>1, AfterKeepsTallies DEF VotesFor
      <3>3. ~HasVoted(vault[v], m, id)
        BY <2>2 DEF Accepts, CanVote, VotesFor, HasVoted
      <3>4. Ballots(m, v, id) = {}
        BY <3>3 DEF BallotInv
      <3>5. Ballots(m, v, id)' = {Len(events[m]) + 1}
        BY <1>2, <2>2, <3>4, BallotsGrow
      <3>6. QED
        BY <3>2, <3>5 DEF HasVoted
    <2>3. CASE ~(Accepts(req) /\ VotesFor(req, m, v, id))
      <3>1. Ballots(m, v, id)' = Ballots(m, v, id)
        BY <1>2, <2>3, BallotsGrow
      <3>2. HasVoted(vault'[v], m, id) = HasVoted(vault[v], m, id)
        <4>1. CASE Accepts(req) /\ v = req.to
          <5>1. vault'[v] = After(req)
            BY <1>2, <2>1, <4>1 DEF Executed, Execute, TypeOK
          <5>2. QED
            BY <2>1, <2>3, <4>1, <5>1, AfterKeepsTallies DEF HasVoted
        <4>2. CASE ~(Accepts(req) /\ v = req.to)
          BY <1>2, <2>1, <4>2 DEF Executed, Execute, TypeOK
        <4>3. QED
          BY <4>1, <4>2
      <3>3. QED
        BY <3>1, <3>2 DEF BallotInv
    <2>4. QED
      BY <2>2, <2>3
  <1>3. QED
    BY <1>1, <1>2, StepCases

(* The tallies of a proposal count its voters, and each voter cast exactly one
   ballot that was accepted: though the relayer may submit a vote several times,
   and the same member may sign several (vote, behind the relayer). *)
THEOREM TalliesCountVoters == Spec => []TalliesAreVoters
  <1>1. TypeOK /\ TallyInv /\ BallotInv => TalliesAreVoters
    <2> SUFFICES ASSUME TypeOK, TallyInv, BallotInv,
                        NEW v \in Vaults, NEW id \in 1..ProposalCount(vault[v])
                 PROVE  LET p == vault[v].proposals[id]
                        IN  /\ p.yes + p.no = Cardinality(p.voters)
                            /\ \A m \in Members : (m \in p.voters) = (Ballots(m, v, id) # {})
                            /\ \A m \in Members : \A i, j \in Ballots(m, v, id) : i = j
      BY DEF TalliesAreVoters
    <2>1. Fair(vault[v].proposals[id])
      BY DEF TallyInv, Tallied
    <2>2. id \in Nat
      BY DEF ProposalCount
    <2>3. \A m \in Members :
             /\ (m \in vault[v].proposals[id].voters) = (Ballots(m, v, id) # {})
             /\ \A i, j \in Ballots(m, v, id) : i = j
      BY <2>2 DEF BallotInv, HasVoted
    <2>4. QED
      BY <2>1, <2>3 DEF Fair
  <1>2. QED
    BY <1>1, InitType, NextType, TallyInit, TallyNext, BallotInit, BallotNext, PTL DEF Spec

-----------------------------------------------------------------------------
(* Both sums of AccountsMatchEvents. *)
LEMMA SumOfAccounts ==
    ASSUME NEW box, NEW S
    PROVE  MapThenSumSet(LAMBDA m : box.contributed[m], S) = SumOf(box.contributed, S)
  BY DEF MapThenSumSet, MapThenFoldSet, SumOf, Summing, Pick

AmountsOf(log) == [i \in DOMAIN log |-> log[i].req.call.amount]

LEMMA SumOfAmounts ==
    ASSUME NEW log, NEW S \in SUBSET DOMAIN log, IsFiniteSet(S)
    PROVE  MapThenSumSet(LAMBDA i : log[i].req.call.amount, S) = SumOf(AmountsOf(log), S)
  <1> DEFINE Recursion(g) ==
               g = [s \in SUBSET S |-> IF s = {} THEN 0
                                       ELSE log[Pick(s)].req.call.amount + g[s \ {Pick(s)}]]
             f == CHOOSE g : Recursion(g)
             h == CHOOSE g : Summing(g, AmountsOf(log), S)
  <1>1. MapThenSumSet(LAMBDA i : log[i].req.call.amount, S) = f[S]
    BY DEF MapThenSumSet, MapThenFoldSet, Pick
  <1>2. \A s \in SUBSET S : s # {} => AmountsOf(log)[Pick(s)] = log[Pick(s)].req.call.amount
    BY PickIsIn DEF AmountsOf
  <1>3. ASSUME NEW g PROVE Recursion(g) <=> Summing(g, AmountsOf(log), S)
    <2>1. [s \in SUBSET S |-> IF s = {} THEN 0
                              ELSE log[Pick(s)].req.call.amount + g[s \ {Pick(s)}]]
            = [s \in SUBSET S |-> IF s = {} THEN 0
                              ELSE AmountsOf(log)[Pick(s)] + g[s \ {Pick(s)}]]
      BY <1>2
    <2>2. QED
      BY <2>1 DEF Summing
  <1> HIDE DEF Recursion
  <1>4. Summing(h, AmountsOf(log), S)
    BY SummingExists
  <1>5. Summing(f, AmountsOf(log), S)
    BY <1>3, <1>4
  <1> HIDE DEF f, h
  <1>6. h[S] = f[S]
    BY <1>4, <1>5, SummingUnique
  <1>7. QED
    BY <1>1, <1>6 DEF h, SumOf

(* What a log says that a vault has received. *)
Gift(event, v) == event.success /\ event.req.to = v /\ event.req.call.op = "contribute"
Gifts(log, v) == {i \in DOMAIN log : Gift(log[i], v)}
Given(log, v) == SumOf(AmountsOf(log), Gifts(log, v))

LEMMA GiftsAreNumbers ==
    ASSUME NEW log \in Seq(Event), NEW v
    PROVE  /\ Gifts(log, v) \in SUBSET (1..Len(log)) /\ IsFiniteSet(Gifts(log, v))
           /\ \A i \in Gifts(log, v) : AmountsOf(log)[i] \in Nat
  <1>1. Gifts(log, v) \in SUBSET (1..Len(log)) /\ DOMAIN log = 1..Len(log) /\ Len(log) \in Nat
    BY DEF Gifts
  <1>2. IsFiniteSet(Gifts(log, v))
    <2>1. IsFiniteSet(1..Len(log))
      BY <1>1, FS_Interval
    <2>2. QED
      BY <1>1, <2>1, FS_Subset
  <1>3. ASSUME NEW i \in Gifts(log, v) PROVE AmountsOf(log)[i] \in Nat
    <2>1. i \in 1..Len(log) /\ log[i] \in Event /\ log[i].req.call.op = "contribute"
      BY <1>1 DEF Gifts, Gift
    <2>2. log[i].req.call \in Call
      BY <2>1 DEF Event, ForwardRequest
    <2>3. log[i].req.call.amount \in Nat
      BY <2>1, <2>2, CallCases
    <2>4. QED
      BY <1>1, <2>1, <2>3 DEF AmountsOf
  <1>4. QED
    BY <1>1, <1>2, <1>3

LEMMA LogGives ==
    ASSUME NEW log \in Seq(Event), NEW event \in Event, NEW v
    PROVE  /\ Given(log, v) \in Nat
           /\ Given(Append(log, event), v) =
                Given(log, v) + (IF Gift(event, v) THEN event.req.call.amount ELSE 0)
  <1> DEFINE next == Append(log, event)
             n == Len(log) + 1
  <1>1. /\ next \in Seq(Event) /\ Len(next) = n /\ Len(log) \in Nat
        /\ next[n] = event /\ \A i \in 1..Len(log) : next[i] = log[i]
    BY AppendProperties, LenProperties
  <1>2. DOMAIN log = 1..Len(log) /\ DOMAIN next = 1..n
    BY <1>1, LenProperties
  <1> HIDE DEF next
  <1>3. /\ Given(log, v) \in Nat
        /\ IsFiniteSet(Gifts(log, v)) /\ Gifts(log, v) \in SUBSET (1..Len(log))
    BY GiftsAreNumbers, SumType DEF Given
  <1>4. \A i \in Gifts(log, v) : AmountsOf(next)[i] = AmountsOf(log)[i]
    BY <1>1, <1>2, <1>3 DEF AmountsOf
  <1>5. SumOf(AmountsOf(next), Gifts(log, v)) = Given(log, v)
    BY <1>3, <1>4, SumSame DEF Given
  <1>6. CASE Gift(event, v)
    <2>1. Gifts(next, v) = Gifts(log, v) \cup {n}
      BY <1>1, <1>2, <1>6 DEF Gifts
    <2>2. n \notin Gifts(log, v)
      BY <1>1, <1>3
    <2>3. \A i \in Gifts(next, v) : AmountsOf(next)[i] \in Nat
      BY <1>1, GiftsAreNumbers
    <2>4. SumOf(AmountsOf(next), Gifts(next, v))
            = SumOf(AmountsOf(next), Gifts(log, v)) + AmountsOf(next)[n]
      BY <1>3, <2>1, <2>2, <2>3, SumAdd
    <2>5. AmountsOf(next)[n] = event.req.call.amount
      BY <1>1, <1>2 DEF AmountsOf
    <2>6. QED
      BY <1>3, <1>5, <1>6, <2>4, <2>5 DEF Given, next
  <1>7. CASE ~Gift(event, v)
    <2>1. Gifts(next, v) = Gifts(log, v)
      BY <1>1, <1>2, <1>7 DEF Gifts
    <2>2. QED
      BY <1>3, <1>5, <1>7, <2>1 DEF Given, next
  <1>8. QED
    BY <1>6, <1>7

(* The accounts of a vault: its total is the sum of its members' accounts, and
   each account is what the log of the member says. *)
AccountInv ==
    \A v \in Vaults :
        /\ vault[v].total = SumOf(vault[v].contributed, Members)
        /\ \A m \in Members : vault[v].contributed[m] = Given(events[m], v)

LEMMA AccountInit == Init => AccountInv
  <1> SUFFICES ASSUME Init, NEW v \in Vaults
               PROVE  /\ EmptyVault.total = SumOf(EmptyVault.contributed, Members)
                      /\ \A m \in Members : EmptyVault.contributed[m] = Given(events[m], v)
    BY DEF Init, AccountInv
  <1>1. \A m \in Members : Given(events[m], v) = 0
    <2>1. Gifts(<<>>, v) = {}
      BY DEF Gifts
    <2>2. IsFiniteSet({})
      BY FS_EmptySet
    <2>3. SumOf(AmountsOf(<<>>), {}) = 0
      BY <2>2, SumStep
    <2>4. QED
      BY <2>1, <2>3 DEF Init, Given
  <1>2. SumOf(EmptyVault.contributed, Members) = 0
    BY VaultMembersAssumption, SumZero DEF EmptyVault
  <1>3. QED
    BY <1>1, <1>2 DEF EmptyVault

LEMMA AfterAccounts ==
    ASSUME TypeOK, NEW req \in ForwardRequest, Accepts(req)
    PROVE  LET box == vault[req.to]
               next == After(req)
           IN  \/ /\ req.call.op = "contribute" /\ req.call.amount \in Nat
                  /\ next.total = box.total + req.call.amount
                  /\ next.contributed = [box.contributed EXCEPT ![req.from] = @ + req.call.amount]
               \/ /\ req.call.op # "contribute"
                  /\ next.total = box.total /\ next.contributed = box.contributed
  <1>1. /\ req.from \in Members /\ req.to \in Vaults /\ req.call \in Call
        /\ vault[req.to] \in Vault
    BY DEF ForwardRequest, TypeOK
  <1>2. CASE req.call.op = "contribute"
    BY <1>1, <1>2, CallCases DEF After, Contribute, Vault
  <1>3. CASE req.call.op = "createProposal"
    BY <1>1, <1>3 DEF After, CreateProposal, Vault
  <1>4. CASE req.call.op = "vote"
    BY <1>1, <1>4 DEF After, Vote, Vault
  <1>5. QED
    BY <1>1, <1>2, <1>3, <1>4, CallCases

LEMMA AccountNext == TypeOK /\ AccountInv /\ [Next]_vars => AccountInv'
  <1> SUFFICES ASSUME TypeOK, AccountInv, [Next]_vars, NEW v \in Vaults
               PROVE  /\ vault'[v].total = SumOf(vault'[v].contributed, Members)
                      /\ \A m \in Members : vault'[v].contributed[m] = Given(events'[m], v)
    BY DEF AccountInv
  <1>1. CASE UNCHANGED <<nonce, vault, events>>
    BY <1>1 DEF AccountInv
  <1>2. ASSUME NEW req \in ForwardRequest, Executed(req)
        PROVE  /\ vault'[v].total = SumOf(vault'[v].contributed, Members)
               /\ \A m \in Members : vault'[v].contributed[m] = Given(events'[m], v)
    <2>1. PICK success \in BOOLEAN :
             /\ success = Accepts(req)
             /\ events'[req.from] = Append(events[req.from], [req |-> req, success |-> success])
             /\ \A m \in Members \ {req.from} : events'[m] = events[m]
      BY <1>2, LogGrows
    <2> DEFINE event == [req |-> req, success |-> success]
    <2>2. /\ event \in Event /\ event.req = req /\ event.success = success
          /\ req.from \in Members /\ req.to \in Vaults
          /\ \A m \in Members : events[m] \in Seq(Event)
      BY DEF Event, ForwardRequest, TypeOK
    <2>3. Given(events'[req.from], v) =
            Given(events[req.from], v) + (IF Gift(event, v) THEN req.call.amount ELSE 0)
      BY <2>1, <2>2, LogGives
    <2>4. /\ vault[v].total = SumOf(vault[v].contributed, Members)
          /\ \A m \in Members : vault[v].contributed[m] = Given(events[m], v)
          /\ vault[v].contributed \in [Members -> Nat]
      BY DEF AccountInv, TypeOK, Vault
    <2>5. CASE Gift(event, v)
      <3>1. Accepts(req) /\ v = req.to /\ req.call.op = "contribute"
        BY <2>1, <2>2, <2>5 DEF Gift
      <3>2. vault'[v] = After(req)
        BY <1>2, <2>2, <3>1 DEF Executed, Execute, TypeOK
      <3>3. /\ req.call.amount \in Nat
            /\ vault'[v].total = vault[v].total + req.call.amount
            /\ vault'[v].contributed = [vault[v].contributed EXCEPT ![req.from] = @ + req.call.amount]
        BY <3>1, <3>2, AfterAccounts
      <3>4. SumOf(vault'[v].contributed, Members)
              = SumOf(vault[v].contributed, Members) + req.call.amount
        BY <2>2, <2>4, <3>3, VaultMembersAssumption, SumChange
      <3>5. \A m \in Members : vault'[v].contributed[m] = Given(events'[m], v)
        BY <2>1, <2>2, <2>3, <2>4, <2>5, <3>3
      <3>6. QED
        BY <2>4, <3>3, <3>4, <3>5
    <2>6. CASE ~Gift(event, v)
      <3>1. ~(Accepts(req) /\ v = req.to /\ req.call.op = "contribute")
        BY <2>1, <2>2, <2>6 DEF Gift
      <3>2. vault'[v].total = vault[v].total /\ vault'[v].contributed = vault[v].contributed
        <4>1. CASE Accepts(req) /\ v = req.to
          <5>1. vault'[v] = After(req)
            BY <1>2, <2>2, <4>1 DEF Executed, Execute, TypeOK
          <5>2. QED
            BY <3>1, <4>1, <5>1, AfterAccounts
        <4>2. CASE ~(Accepts(req) /\ v = req.to)
          BY <1>2, <2>2, <4>2 DEF Executed, Execute, TypeOK
        <4>3. QED
          BY <4>1, <4>2
      <3>3. Given(events'[req.from], v) = Given(events[req.from], v)
        <4>1. Given(events[req.from], v) \in Nat
          BY <2>2, LogGives
        <4>2. QED
          BY <2>3, <2>6, <4>1
      <3>4. QED
        BY <2>1, <2>4, <3>2, <3>3
    <2>7. QED
      BY <2>5, <2>6
  <1>3. QED
    BY <1>1, <1>2, StepCases

(* A vault's accounts are the contributions that it accepted, no more and no
   less, of each member and in total, although a request can be submitted more
   than once and a call can fail after its nonce is spent (contribute). *)
THEOREM AccountsAreEvents == Spec => []AccountsMatchEvents
  <1>1. TypeOK /\ AccountInv => AccountsMatchEvents
    <2> SUFFICES ASSUME TypeOK, AccountInv, NEW v \in Vaults
                 PROVE  /\ vault[v].total = MapThenSumSet(LAMBDA m : vault[v].contributed[m], Members)
                        /\ \A m \in Members :
                              vault[v].contributed[m] =
                                  MapThenSumSet(LAMBDA i : events[m][i].req.call.amount,
                                                Contributions(m, v))
      BY DEF AccountsMatchEvents
    <2>1. vault[v].total = MapThenSumSet(LAMBDA m : vault[v].contributed[m], Members)
      BY SumOfAccounts DEF AccountInv
    <2>2. ASSUME NEW m \in Members
          PROVE  vault[v].contributed[m] =
                   MapThenSumSet(LAMBDA i : events[m][i].req.call.amount, Contributions(m, v))
      <3>1. Contributions(m, v) = Gifts(events[m], v)
        BY DEF Contributions, Accepted, Gifts, Gift
      <3>2. events[m] \in Seq(Event)
        BY DEF TypeOK
      <3>3. IsFiniteSet(Gifts(events[m], v)) /\ Gifts(events[m], v) \in SUBSET DOMAIN events[m]
        BY <3>2, GiftsAreNumbers DEF Gifts
      <3>4. MapThenSumSet(LAMBDA i : events[m][i].req.call.amount, Gifts(events[m], v))
              = Given(events[m], v)
        BY <3>3, SumOfAmounts DEF Given
      <3>5. QED
        BY <3>1, <3>4 DEF AccountInv
    <2>3. QED
      BY <2>1, <2>2
  <1>2. QED
    BY <1>1, InitType, NextType, AccountInit, AccountNext, PTL DEF Spec

=============================================================================
