---------------------------- MODULE ChainEmulator ----------------------------
(***************************************************************************)
(* FullStateEmulator: the HOPR contracts as the test client runs them.     *)
(*                                                                         *)
(* update_state is a function from a chain state and a signed transaction  *)
(* to a result: Ok or Err, and the state it leaves, which on an Err keeps  *)
(* whatever was written before the check that failed.  Key ids, packet     *)
(* keys and multiaddresses are left out: an account is its node's name and *)
(* its safe, a channel is named by its ends.                               *)
(***************************************************************************)
EXTENDS Naturals, FiniteSets

CONSTANTS
    Nodes,
    Owned,       \* the deployed safe each node owns, or NoSafe
    NoSafe,
    Genesis,     \* the states a BlokliTestStateBuilder may have built
    Intercepted  \* whether the client was built with a transaction interceptor

VARIABLE chain

EmulatedTxPrice == 1
ChannelIds == {id \in Nodes \X Nodes : id[1] # id[2]}
Safes == {Owned[n] : n \in Nodes} \ {NoSafe}

\* A channel, and the states of the chain: purses by address, accounts with their
\* safes, the nodes registered with each safe, channels by their ends.
Entry == [status : {"Open", "PendingToClose", "Closed"}, balance : Nat, index : Nat,
          epoch : Nat \ {0}, closure : Nat]
AreEntries(f) == DOMAIN f \subseteq ChannelIds /\ \A id \in DOMAIN f : f[id] \in Entry
IsPurse(f, addresses) == DOMAIN f \subseteq addresses /\ \A a \in DOMAIN f : f[a] \in Nat

IsChain(c) ==
    /\ DOMAIN c = {"native", "token", "allowance", "account", "registered", "channels",
                    "redeemed", "txCounts"}
    /\ IsPurse(c.native, Nodes \cup Safes)
    /\ IsPurse(c.token, Nodes \cup Safes)
    /\ IsPurse(c.allowance, Safes)
    /\ IsPurse(c.redeemed, Safes)
    /\ AreEntries(c.channels)
    /\ c.txCounts \in [Nodes -> Nat]
    /\ \A n \in DOMAIN c.account : n \in Nodes /\ c.account[n] \in Safes \cup {NoSafe}
    /\ \A safe \in DOMAIN c.registered : safe \in Safes /\ c.registered[safe] \subseteq Nodes

\* The signed transactions the client parses.  Nobody opens a channel to itself.
Txs ==
    [action : {"RegisterSafe"}, sender : Nodes, safe : Safes]
    \cup [action : {"Announce"}, sender : Nodes, emptyAddress : BOOLEAN]
    \cup [action : {"Withdraw"}, sender : Nodes, purse : {"native", "token"},
          payer : {"Eoa", "Safe"}, destination : Nodes \cup Safes, amount : Nat]
    \cup [action : {"Approve"}, sender : Nodes, payer : {"Eoa", "Safe"}, toChannels : BOOLEAN,
          amount : Nat]
    \cup {tx \in [action : {"FundChannel"}, sender : Nodes, destination : Nodes, stake : Nat] :
            tx.sender # tx.destination}
    \cup [action : {"InitializeChannelClosure", "FinalizeChannelClosure", "IncomingChannelClosure"},
          sender : Nodes, id : ChannelIds, closure : Nat]
    \cup [action : {"RedeemTicket"}, sender : Nodes, id : ChannelIds, index : Nat, amount : Nat]

ASSUME EmulatorAssumption ==
    /\ IsFiniteSet(Nodes)
    /\ NoSafe \notin Nodes
    /\ \A c \in Genesis : IsChain(c)
Opposite(id) == <<id[2], id[1]>>

Ok(c) == [ok |-> TRUE, chain |-> c]
Err(c) == [ok |-> FALSE, chain |-> c]

\* get_account_safe_..._mut of the client's state: the safe of the sender's account.
SafeOf(c, n) == IF n \in DOMAIN c.account THEN c.account[n] ELSE NoSafe

\* The map f with e under x, new or in place of what was there.
Put(f, x, e) == [y \in DOMAIN f \cup {x} |-> IF y = x THEN e ELSE f[y]]

Holds(purse, a, amount) == a \in DOMAIN purse /\ purse[a] >= amount
Debit(purse, a, amount) == [purse EXCEPT ![a] = @ - amount]
Credit(purse, a, amount) == Put(purse, a, (IF a \in DOMAIN purse THEN purse[a] ELSE 0) + amount)

RegisterSafe(c, tx) ==
    IF tx.safe \notin DOMAIN c.registered \/ tx.sender \in c.registered[tx.safe]
    THEN Err(c)
    ELSE Ok([c EXCEPT
            !.registered[tx.safe] = @ \cup {tx.sender},
            !.account = [n \in DOMAIN @ |-> IF n = tx.sender THEN tx.safe ELSE @[n]]])

\* A known account is only described anew, an unknown one is created.
Announce(c, tx) ==
    IF tx.sender \in DOMAIN c.account
    THEN IF tx.emptyAddress THEN Err(c) ELSE Ok(c)
    ELSE Ok([c EXCEPT !.account = Put(@, tx.sender, Owned[tx.sender])])

\* WithdrawNative and WithdrawToken; tx.purse is "native" or "token".
Withdraw(c, tx) ==
    LET payer == IF tx.payer = "Eoa" THEN tx.sender ELSE SafeOf(c, tx.sender)
    IN  IF Holds(c[tx.purse], payer, tx.amount)
        THEN Ok([c EXCEPT ![tx.purse] =
                Credit(Debit(@, payer, tx.amount), tx.destination, tx.amount)])
        ELSE Err(c)

Approve(c, tx) ==
    IF tx.payer # "Safe" \/ ~tx.toChannels THEN Ok(c)
    ELSE IF SafeOf(c, tx.sender) \notin DOMAIN c.allowance THEN Err(c)
    ELSE Ok([c EXCEPT !.allowance[SafeOf(c, tx.sender)] = tx.amount])

NewChannel == [status |-> "Open", balance |-> 0, index |-> 0, epoch |-> 1, closure |-> 0]

\* Mutant: a reopened channel stays in its epoch.
FundedSameEpoch(channel, stake) ==
    [channel EXCEPT !.balance = @ + stake, !.status = IF @ = "Closed" THEN "Open" ELSE @,
                    !.index = IF channel.status = "Closed" THEN 0 ELSE @]
\* Mutant: a reopened channel starts empty, whatever it still held.
FundedAfresh(channel, stake) ==
    IF channel.status = "Closed"
    THEN [NewChannel EXCEPT !.balance = stake, !.epoch = channel.epoch + 1]
    ELSE [channel EXCEPT !.balance = @ + stake]
\* A closed channel is reopened in a new epoch, with what it still held.
Funded(channel, stake) ==
    LET reopened == [channel EXCEPT !.status = "Open", !.index = 0,
                                    !.closure = 0, !.epoch = @ + 1]
        open == IF channel.status = "Closed" THEN reopened ELSE channel
    IN  [open EXCEPT !.balance = @ + stake]

\* The safe is debited before its allowance is looked at.
FundChannel(c, tx) ==
    LET safe == SafeOf(c, tx.sender)
        id == <<tx.sender, tx.destination>>
        channel == IF id \in DOMAIN c.channels THEN c.channels[id] ELSE NewChannel
        debited == [c EXCEPT !.token = Debit(@, safe, tx.stake)]
    IN  IF \/ ~({tx.sender, tx.destination} \subseteq DOMAIN c.account)
           \/ tx.stake = 0
           \/ ~Holds(c.token, safe, tx.stake)
        THEN Err(c)
        ELSE IF ~Holds(c.allowance, safe, tx.stake) THEN Err(debited)
        ELSE Ok([debited EXCEPT
                !.allowance = Debit(@, safe, tx.stake),
                !.channels = Put(@, id, Funded(channel, tx.stake))])

\* tx.closure stands for the time of the call plus the grace period.
InitializeChannelClosure(c, tx) ==
    IF tx.id \notin DOMAIN c.channels THEN Err(c)
    ELSE Ok([c EXCEPT !.channels[tx.id].status = "PendingToClose",
                      !.channels[tx.id].closure = tx.closure])

FinalizeChannelClosure(c, tx) ==
    IF tx.id \notin DOMAIN c.channels THEN Err(c)
    ELSE IF c.channels[tx.id].status # "PendingToClose" THEN Err(c)
    ELSE Ok([c EXCEPT !.channels[tx.id].status = "Closed"])

IncomingChannelClosure(c, tx) ==
    IF tx.id \notin DOMAIN c.channels THEN Err(c)
    ELSE Ok([c EXCEPT !.channels[tx.id].status = "Closed"])

\* The channel a ticket was redeemed on: its debit and its next index.
Redeemed(channel, tx) ==
    [channel EXCEPT !.index = tx.index + 1, !.balance = @ - tx.amount]

\* Where the value of a ticket goes: the channel back, whatever its status, else
\* the safe of the destination with its statistics, else nowhere.
PaidOut(c, tx) ==
    LET safe == SafeOf(c, tx.id[2])
    IN  IF Opposite(tx.id) \in DOMAIN c.channels
        THEN [c EXCEPT !.channels[Opposite(tx.id)].balance = @ + tx.amount]
        ELSE IF safe \in DOMAIN c.token
        THEN [c EXCEPT !.token[safe] = @ + tx.amount,
                       !.redeemed = Credit(@, safe, tx.amount)]
        ELSE c

RedeemTicket(c, tx) ==
    IF tx.id \notin DOMAIN c.channels THEN Err(c)
    ELSE IF \/ c.channels[tx.id].status = "Closed"
            \/ c.channels[tx.id].index > tx.index
            \/ c.channels[tx.id].balance < tx.amount
    THEN Err(c)
    ELSE Ok(PaidOut([c EXCEPT !.channels[tx.id] = Redeemed(@, tx)], tx))

Effect(c, tx) ==
    CASE tx.action = "RegisterSafe" -> RegisterSafe(c, tx)
      [] tx.action = "Announce" -> Announce(c, tx)
      [] tx.action = "Withdraw" -> Withdraw(c, tx)
      [] tx.action = "Approve" -> Approve(c, tx)
      [] tx.action = "FundChannel" -> FundChannel(c, tx)
      [] tx.action = "InitializeChannelClosure" -> InitializeChannelClosure(c, tx)
      [] tx.action = "FinalizeChannelClosure" -> FinalizeChannelClosure(c, tx)
      [] tx.action = "IncomingChannelClosure" -> IncomingChannelClosure(c, tx)
      [] tx.action = "RedeemTicket" -> RedeemTicket(c, tx)

\* The transaction is counted, then its fee is charged to the signer.
Charged(c, sender) ==
    LET counted == [c EXCEPT !.txCounts[sender] = @ + 1]
    IN  IF Holds(c.native, sender, EmulatedTxPrice)
        THEN Ok([counted EXCEPT !.native = Debit(@, sender, EmulatedTxPrice)])
        ELSE Err(counted)

\* The outcomes of a transaction.  A send to a dropped interceptor fails last.
UpdateState(c, tx) ==
    LET effect == Effect(c, tx)
        charged == IF effect.ok THEN Charged(effect.chain, tx.sender) ELSE effect
    IN  {charged} \cup (IF charged.ok /\ Intercepted THEN {Err(charged.chain)} ELSE {})

\* The client's view of an outcome: nothing in the repository says whether it
\* keeps or discards what a failed transaction wrote.
Committed(c, tx) ==
    UNION {IF r.ok THEN {r} ELSE {r, Err(c)} : r \in UpdateState(c, tx)}

EmulatorInit == chain \in Genesis

------------------------------------------------------------------------------
\* The sum of what a map has for its keys: one by one, each unit named by its key and a
\* number.
Total(purse) == Cardinality(UNION {{a} \X (1 .. purse[a]) : a \in DOMAIN purse})
Balances(c) == [id \in DOMAIN c.channels |-> c.channels[id].balance]
TokenSupply(c) == Total(c.token) + Total(Balances(c))

\* The two ways tokens are lost from c to d: a funding that fails at the allowance leaves
\* its debit behind; a ticket is redeemed to a node with no channel back and no purse of
\* its safe.
RefusedFunding(c, d) ==
    /\ d.channels = c.channels /\ d.allowance = c.allowance
    /\ \E safe \in DOMAIN c.token :
         LET stake == c.token[safe] - d.token[safe]
         IN  d.token = Debit(c.token, safe, stake) /\ ~Holds(c.allowance, safe, stake)
UnclaimedTicket(c, d) ==
    /\ d.token = c.token
    /\ \E id \in DOMAIN c.channels :
         /\ d.channels = Put(c.channels, id, d.channels[id])
         /\ d.channels[id].index > c.channels[id].index
         /\ Opposite(id) \notin DOMAIN c.channels /\ SafeOf(c, id[2]) \notin DOMAIN c.token
Conserves(c, d) ==
    \/ TokenSupply(d) = TokenSupply(c)
    \/ TokenSupply(d) < TokenSupply(c) /\ (RefusedFunding(c, d) \/ UnclaimedTicket(c, d))

==============================================================================
