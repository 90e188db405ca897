-------------------------- MODULE MCChainConnector --------------------------
(***************************************************************************)
(* Instances of ChainConnector for TLC: the connector's node "a" and one   *)
(* counterparty "b", whose account exists in one of the test states.       *)
(***************************************************************************)
EXTENDS ChainConnector, TLC

TwoNodes == {"a", "b"}
WriteOps == {"OpenChannel", "FundChannel", "CloseChannel"}
SafePerNode == [n \in TwoNodes |-> IF n = "a" THEN "safeA" ELSE "safeB"]

\* The counterparty's safe is deployed, and nothing was ever paid to it.
Unannounced ==
    [native |-> [x \in TwoNodes |-> 2],
     token |-> [x \in {"safeA"} |-> 1],
     allowance |-> [x \in {"safeA"} |-> 1],
     account |-> [n \in {"a"} |-> "safeA"],
     registered |-> [x \in {"safeA", "safeB"} |-> {}],
     channels |-> <<>>,
     redeemed |-> <<>>,
     txCounts |-> [n \in TwoNodes |-> 0]]

Out == <<"a", "b">>
Back == <<"b", "a">>

\* The counterparty is announced and has redeemed a ticket of the channel to it.
Opened ==
    [Unannounced EXCEPT
        !.account = SafePerNode,
        !.token = [x \in {"safeA", "safeB"} |-> 2],
        !.allowance = [x \in {"safeA", "safeB"} |-> 1],
        !.channels = Out :> [NewChannel EXCEPT !.balance = 2, !.index = 1],
        !.txCounts["b"] = 1]

Ticket(sender, id, i) ==
    [action |-> "RedeemTicket", sender |-> sender, id |-> id, index |-> i, amount |-> 1]

\* What the counterparty sends.
CounterpartyTxs ==
    {[action |-> "Announce", sender |-> "b", emptyAddress |-> FALSE],
     [action |-> "Announce", sender |-> "b", emptyAddress |-> TRUE],
     [action |-> "Approve", sender |-> "b", payer |-> "Safe", toChannels |-> TRUE, amount |-> 0],
     [action |-> "Withdraw", sender |-> "b", purse |-> "native", payer |-> "Eoa",
      destination |-> "safeB", amount |-> 2],
     [action |-> "FundChannel", sender |-> "b", destination |-> "a", stake |-> 1],
     [action |-> "InitializeChannelClosure", sender |-> "b", id |-> Back, closure |-> 1],
     [action |-> "FinalizeChannelClosure", sender |-> "b", id |-> Back, closure |-> 0],
     [action |-> "IncomingChannelClosure", sender |-> "b", id |-> Out, closure |-> 0],
     Ticket("b", Out, 0),
     Ticket("b", Out, 1)}

\* What the connector's node sends untracked.
UntrackedTxs ==
    {Ticket("a", Back, 0),
     [action |-> "RegisterSafe", sender |-> "a", safe |-> "safeA"],
     [action |-> "Withdraw", sender |-> "a", purse |-> "token", payer |-> "Safe",
      destination |-> "b", amount |-> 1]}

CallSymmetry == Permutations(Calls)
FundableTwice == {[Opened EXCEPT !.allowance["safeA"] = 2]}
TestStates == {Unannounced, Opened}

\* A snapshot and an activation commute with everything but Ingest and Broadcast, so they
\* are taken only when one of these can follow; and, to keep the instance small, while no
\* call is under way.  Broadcast commutes with everything but these two, so only they come
\* between it and Ingest.
Subscribing == passed' # passed \/ active' # active
Subscribable == (feed # <<>> \/ unsent # {}) /\ \A k \in Calls : at[k] = "idle"
MCNext ==
    /\ Next
    /\ Subscribing => Subscribable
    /\ unsent # {} => Subscribing \/ unsent' # unsent
MCSpec == ConnectorInit /\ [][MCNext]_vars
=============================================================================
