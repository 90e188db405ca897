--------------------------- MODULE ChainConnector ---------------------------
(***************************************************************************)
(* TestChainConnector: a node's connector over the emulated chain.         *)
(*                                                                         *)
(* connect loads a snapshot of the channels and spawns the task that       *)
(* ingests the graph feed; the write operations read that cache, submit a  *)
(* transaction and wait for the cache to show its result.  Several calls   *)
(* run at once, other nodes transact on the same chain, and every await is *)
(* a point where the others may act or the caller drops the future.        *)
(*                                                                         *)
(* The faults a test injects are changed at any time, so the fault a call  *)
(* reads is any of them.  A delay of five seconds may end at any time.     *)
(***************************************************************************)
EXTENDS ChainEmulator, InFlight, Sequences, SequencesExt

CONSTANTS
    Me,          \* the connector's node
    Stakes,      \* amounts
    ClosureTimes,
    MaxCalls,    \* bound on the calls of the connector's operations
    MaxPeerTxs,  \* bound on the transactions other nodes get counted
    PeerTxs,     \* the transactions they may send
    OwnTxs       \* the transactions this node sends without tracking them

\* The calls under way together are finitely many; the writes that are counted in
\* flight are among the operations.
ASSUME CallsAssumption ==
    /\ IsFiniteSet(Calls)
    /\ {"OpenChannel", "FundChannel", "CloseChannel"} \subseteq Ops

ASSUME TxsAssumption ==
    /\ Me \in Nodes
    /\ Stakes \subseteq Nat
    /\ ClosureTimes \subseteq Nat
    /\ PeerTxs \cup OwnTxs \subseteq Txs

VARIABLES
    phase,     \* of connect: "new", "accounts", "loaded", "streaming" or "failed"
    known,     \* the nodes in the accounts cache
    view,      \* the channels cache
    feed,      \* updates of subscribe_graph the task has not ingested
    unsent,    \* the event of the update the task has cached and not yet broadcast, if any
    \* A subscriber: what the last event it received said of each channel, the channels
    \* its snapshot has passed, whether its receiver is active, and (ghost) the channels
    \* of which an event with news was sent after the snapshot passed them and before that.
    events, passed, active, missed,
    nonce, calls,
    submits,   \* calls without a gate, counted for the bound only
    at, call   \* the write operations under way

connectVars == <<phase, known, view>>
eventVars == <<unsent, events, passed, active, missed>>
callVars == <<nonce, calls, submits, at, call>>
vars == <<chain, connectVars, feed, eventVars, callVars, inFlightVars>>

\* behind is a ghost: how many updates are in the feed up to the call's own.
NoCall == [op |-> NoGuard, id |-> <<Me, Me>>, tx |-> <<>>, goal |-> 0, behind |-> 0, late |-> FALSE]

ConnectorInit ==
    /\ EmulatorInit
    /\ InFlightInit
    /\ phase = "new"
    /\ known = {}
    /\ view = <<>>
    /\ feed = <<>>
    /\ unsent = {}
    /\ events = <<>>
    /\ passed = {}
    /\ active = FALSE
    /\ missed = {}
    /\ nonce = 0
    /\ submits = 0
    /\ calls = [op \in Ops |-> 0]
    /\ at = [k \in Calls |-> "idle"]
    /\ call = [k \in Calls |-> NoCall]

------------------------------------------------------------------------------
\* A pending channel carries its closure time, any other status drops it.
ConvertChannelModel(channel) ==
    [channel EXCEPT !.closure = IF channel.status = "PendingToClose" THEN @ ELSE 0]

Status(entry) == <<entry.status, entry.closure>>

\* What a subscriber can read off an event about the channel.
Told(entry) == <<Status(entry), entry.balance>>

\* connect queries the accounts, then the channels: two awaits.
QueryAccounts ==
    /\ phase = "new"
    /\ phase' = "accounts"
    /\ known' = DOMAIN chain.account
    /\ UNCHANGED <<chain, view, feed, eventVars, callVars, inFlightVars>>

QueryChannels ==
    /\ phase = "accounts"
    /\ IF \A id \in DOMAIN chain.channels : {id[1], id[2]} \subseteq known
       THEN /\ phase' = "loaded"
            /\ view' = [id \in DOMAIN chain.channels |-> ConvertChannelModel(chain.channels[id])]
       ELSE /\ phase' = "failed"
            /\ UNCHANGED view
    /\ UNCHANGED <<chain, known, feed, eventVars, callVars, inFlightVars>>

\* One update per channel that a change of the chain touched, in either order.
Updates(old, new) ==
    LET changed == {id \in DOMAIN new : id \notin DOMAIN old \/ new[id] # old[id]}
    IN  {[i \in DOMAIN s |-> [id |-> s[i], entry |-> new[s[i]]]] : s \in SetToSeqs(changed)}

\* Mutant: a subscription without the initial snapshot.
SubscribeLiveOnly ==
    /\ phase = "loaded"
    /\ phase' = "streaming"
    /\ UNCHANGED <<chain, known, view, feed, eventVars, callVars, inFlightVars>>
\* The spawned task subscribes: an initial snapshot, then the live updates.
SubscribeGraph ==
    /\ phase = "loaded"
    /\ phase' = "streaming"
    /\ feed' \in Updates(<<>>, chain.channels)
    /\ UNCHANGED <<chain, known, view, eventVars, callVars, inFlightVars>>

StatusEvent == [Open |-> "Opened", PendingToClose |-> "ClosureInitiated", Closed |-> "Closed"]

\* Mutant: only changes of status are told.
StatusEventOf(id, entry) ==
    IF id \in DOMAIN view /\ Status(entry) = Status(view[id]) THEN "none"
    ELSE StatusEvent[entry.status]
\* The event of an update, or "none": a change of status outweighs one of balance.
EventOf(id, entry) ==
    IF id \notin DOMAIN view
    THEN IF entry.status = "Open" THEN "Opened" ELSE "none"
    ELSE LET old == view[id]
         IN  CASE Status(entry) = Status(old) /\ entry.balance = old.balance -> "none"
               [] Status(entry) # Status(old) -> StatusEvent[entry.status]
               [] Status(entry) = Status(old) /\ entry.balance > old.balance -> "BalanceIncreased"
               [] OTHER -> IF entry.index > old.index THEN "TicketRedeemed" ELSE "BalanceDecreased"

\* Ghost: an update is ingested, so every call has one less to wait for its own.
CatchUp == call' = [k \in Calls |-> [call[k] EXCEPT !.behind = IF @ = 0 THEN 0 ELSE @ - 1]]

\* The task caches an update and derives its event from what the cache had.
Ingest ==
    /\ feed # <<>> /\ unsent = {}
    /\ LET id == Head(feed).id
           entry == ConvertChannelModel(Head(feed).entry)
       IN  /\ known' = known \cup {id[1], id[2]}
           /\ view' = Put(view, id, entry)
           /\ unsent' = IF EventOf(id, entry) = "none" THEN {} ELSE {[id |-> id, told |-> Told(entry)]}
    /\ feed' = Tail(feed)
    /\ CatchUp
    /\ UNCHANGED <<chain, phase, events, passed, active, missed, nonce, calls, submits, at, inFlightVars>>

Heard(event) == event.id \in DOMAIN events /\ events[event.id] = event.told

\* It broadcasts the event; without an active receiver the event is dropped.
Broadcast ==
    \E event \in unsent :
        /\ unsent' = unsent \ {event}
        /\ events' = IF active THEN Put(events, event.id, event.told) ELSE events
        /\ missed' = IF active THEN missed \ {event.id}
                     ELSE IF Heard(event) THEN missed ELSE missed \cup ({event.id} \cap passed)
        /\ UNCHANGED <<chain, connectVars, feed, passed, active, callVars, inFlightVars>>

\* subscribe_with_state_sync walks over the cache, whose entries the task may replace
\* meanwhile, and then activates a receiver of the broadcast.
SnapshotEvents(id) ==
    IF id \in DOMAIN view /\ view[id].status # "Closed"
    THEN Put(events, id, Told(view[id])) ELSE events

Snapshot(id) ==
    /\ phase \in {"loaded", "streaming"}
    /\ id \notin passed
    /\ passed' = passed \cup {id}
    /\ events' = SnapshotEvents(id)
    /\ UNCHANGED <<chain, connectVars, feed, unsent, active, missed, callVars, inFlightVars>>

Activate ==
    /\ passed = ChannelIds
    /\ ~active
    /\ active' = TRUE
    /\ UNCHANGED <<chain, connectVars, feed, unsent, events, passed, missed, callVars, inFlightVars>>

------------------------------------------------------------------------------
\* A transaction reaches the chain, which publishes what changed; outcome is TRUE
\* when the client reports success.
Commit(tx, outcome) ==
    \E r \in Committed(chain, tx) :
        /\ r.ok = outcome
        /\ chain' = r.chain
        /\ IF phase = "streaming"
           THEN \E u \in Updates(chain.channels, chain'.channels) : feed' = feed \o u
           ELSE UNCHANGED feed

PeerTx ==
    \E tx \in PeerTxs, outcome \in BOOLEAN :
        /\ chain.txCounts[tx.sender] < MaxPeerTxs
        /\ Commit(tx, outcome)
        /\ UNCHANGED <<connectVars, eventVars, callVars, inFlightVars>>

Ready(k) ==
    /\ phase \in {"loaded", "streaming"}
    /\ at[k] = "idle"
    /\ Total(calls) + submits < MaxCalls

\* gate: the call is counted, then its submission fault applies.
Gate(k, op, fault, next, record) ==
    /\ Ready(k)
    /\ calls' = [calls EXCEPT ![op] = @ + 1]
    /\ at' = [at EXCEPT ![k] = CASE fault = "None" -> next
                                 [] fault = "Fail" -> "idle"
                                 [] fault = "Hang" -> "hung"]
    /\ call' = [call EXCEPT ![k] = IF fault = "None" /\ next = "sending" THEN record ELSE NoCall]
    /\ UNCHANGED <<chain, connectVars, feed, eventVars, nonce, submits, inFlightVars>>

Faults == {"None", "Fail", "Hang"}

Outgoing == {id \in ChannelIds : id[1] = Me}

FundTx(dst, amount) ==
    [action |-> "FundChannel", sender |-> Me, destination |-> dst, stake |-> amount]

OpenChannel(k) ==
    \E dst \in Nodes \ {Me}, amount \in Stakes, fault \in Faults :
        Gate(k, "OpenChannel", fault, "sending",
             [NoCall EXCEPT !.op = "OpenChannel", !.id = <<Me, dst>>, !.tx = FundTx(dst, amount)])

\* The balance to wait for is the cached one plus the amount.
FundedTo(id, amount) == view[id].balance + amount

FundKnownChannel(k) ==
    \E id \in Outgoing, amount \in Stakes, fault \in Faults :
        Gate(k, "FundChannel", fault, IF id \in DOMAIN view THEN "sending" ELSE "idle",
             [NoCall EXCEPT !.op = "FundChannel", !.id = id, !.tx = FundTx(id[2], amount),
                            !.goal = FundedTo(id, amount)])

\* The cached status says which of the two closing transactions to send.
CloseTx(id, closure) ==
    [action |-> IF view[id].status = "Open" THEN "InitializeChannelClosure"
                ELSE "FinalizeChannelClosure",
     sender |-> Me, id |-> id, closure |-> closure]

Closable(id) == id \in DOMAIN view /\ view[id].status # "Closed"

CloseChannel(k) ==
    \E id \in Outgoing, closure \in ClosureTimes, fault \in Faults :
        Gate(k, "CloseChannel", fault, IF Closable(id) THEN "sending" ELSE "idle",
             [NoCall EXCEPT !.op = "CloseChannel", !.id = id, !.tx = CloseTx(id, closure),
                            !.goal = Status(view[id])])

\* redeem_ticket and withdraw submit without a gate and without tracking, and so
\* does register_safe once its checks found the node unregistered.
Submit(k) ==
    /\ Ready(k)
    /\ submits' = submits + 1
    /\ \E tx \in OwnTxs :
        /\ tx.action = "RegisterSafe" =>
                /\ \A safe \in DOMAIN chain.registered : Me \notin chain.registered[safe]
                /\ tx.safe \in DOMAIN chain.registered
        /\ call' = [call EXCEPT ![k].tx = tx]
    /\ at' = [at EXCEPT ![k] = "sending"]
    /\ UNCHANGED <<chain, connectVars, feed, eventVars, nonce, calls, inFlightVars>>

\* send_tx; a failed submission ends the call, a successful one may be tracked.
Tracked(k) == call[k].id # NoCall.id

SendTx(k) ==
    /\ at[k] = "sending"
    /\ nonce' = nonce + 1
    /\ \E outcome \in BOOLEAN :
        /\ Commit(call[k].tx, outcome)
        /\ at' = [at EXCEPT ![k] = IF outcome /\ Tracked(k) THEN "tracked" ELSE "idle"]
        /\ call' = [call EXCEPT ![k] =
                IF outcome /\ Tracked(k) THEN [@ EXCEPT !.behind = Len(feed'), !.tx = <<>>] ELSE NoCall]
    /\ UNCHANGED <<connectVars, eventVars, calls, submits, inFlightVars>>

EnterInFlight(k) ==
    /\ at[k] = "tracked"
    /\ \/ Enter(k, call[k].op)
       \/ Entering(k)
    /\ at' = [at EXCEPT ![k] = IF guard'[k] = "held" THEN "waiting" ELSE @]
    /\ UNCHANGED <<chain, connectVars, feed, eventVars, nonce, calls, submits, call>>

\* The predicate of each operation on the connector's own view.
Shows(k) ==
    LET c == call[k]
    IN  /\ c.id \in DOMAIN view
        /\ CASE c.op = "OpenChannel" -> view[c.id].status = "Open"
             [] c.op = "FundChannel" -> view[c.id].balance >= c.goal
             [] c.op = "CloseChannel" -> Status(view[c.id]) # c.goal

AwaitOwnView(k, late) ==
    /\ at[k] = "waiting"
    /\ late \/ Shows(k)
    /\ at' = [at EXCEPT ![k] = "confirming"]
    /\ call' = [call EXCEPT ![k].late = late]
    /\ UNCHANGED <<chain, connectVars, feed, eventVars, nonce, calls, submits, inFlightVars>>

\* The confirmation fault; the future then ends, or hangs for good.
Confirm(k) ==
    /\ at[k] = "confirming"
    /\ \E fault \in Faults :
        at' = [at EXCEPT ![k] = IF fault = "Hang" THEN "stuck" ELSE "ending"]
    /\ call' = [call EXCEPT ![k] = NoCall]
    /\ UNCHANGED <<chain, connectVars, feed, eventVars, nonce, calls, submits, inFlightVars>>

\* The caller drops the future of the call, or of its confirmation, at an await.
DropFuture(k) ==
    /\ \/ at[k] \in {"hung", "sending"} /\ at' = [at EXCEPT ![k] = "idle"]
       \/ at[k] \in {"waiting", "confirming", "stuck"} /\ at' = [at EXCEPT ![k] = "ending"]
    /\ call' = [call EXCEPT ![k] = NoCall]
    /\ UNCHANGED <<chain, connectVars, feed, eventVars, nonce, calls, submits, inFlightVars>>

\* The guard is dropped with the future.
DropGuard(k) ==
    /\ at[k] = "ending"
    /\ Leave(k) \/ LeaveTotal(k)
    /\ at' = [at EXCEPT ![k] = IF guard'[k] = "out" THEN "idle" ELSE @]
    /\ UNCHANGED <<chain, connectVars, feed, eventVars, nonce, calls, submits, call>>

Connect == QueryAccounts \/ QueryChannels \/ SubscribeGraph

CallStep(k) ==
    \/ SendTx(k) \/ EnterInFlight(k) \/ AwaitOwnView(k, FALSE) \/ AwaitOwnView(k, TRUE)
    \/ Confirm(k) \/ DropGuard(k)

Next ==
    \/ Connect \/ Ingest \/ Broadcast \/ Activate \/ PeerTx
    \/ \E id \in ChannelIds : Snapshot(id)
    \/ \E k \in Calls :
        OpenChannel(k) \/ FundKnownChannel(k) \/ CloseChannel(k) \/ Submit(k)
        \/ CallStep(k) \/ DropFuture(k)

Spec == ConnectorInit /\ [][Next]_vars

------------------------------------------------------------------------------
\* The chain, the caches and the calls keep their types; a cached channel's ends
\* are cached accounts.
ConnectorTypeOK ==
    /\ InFlightTypeOK
    /\ IsChain(chain)
    /\ AreEntries(view)
    /\ \A id \in DOMAIN view : {id[1], id[2]} \subseteq known
    /\ at \in [Calls -> {"idle", "hung", "sending", "tracked", "waiting", "confirming",
                          "stuck", "ending"}]
    /\ nonce \in Nat
    /\ \A k \in Calls : call[k].behind <= Len(feed)

\* No transaction, failed half-way or reverted, creates tokens, and over all balances and
\* channels together none are lost but in two cases: the debit left by a funding that its
\* allowance refused, and a ticket whose redeemer has neither a channel back nor a purse.
TokensConserved == [][Conserves(chain, chain')]_vars

\* A ticket is redeemed at most once per epoch: value leaves a channel only with its
\* index, which grows within an epoch and restarts only with the next one, whatever
\* closing and funding interleave.
EpochsOrderTickets ==
    [][\A id \in DOMAIN chain.channels :
        LET old == chain.channels[id]  new == chain'.channels[id]
        IN  \/ new.epoch > old.epoch
            \/ /\ new.epoch = old.epoch
               /\ new.index >= old.index
               /\ new.balance < old.balance => new.index > old.index]_vars

\* No change goes by an active subscriber without an event, except those told between
\* its snapshot and its activation: of every other channel it has heard, if it is open,
\* and what it heard last is what the connector's cache says of status and balance, but
\* for the channel whose event the task is about to send.
LastEventIsCurrent ==
    \A id \in (DOMAIN view \cup DOMAIN events) \ (missed \cup {event.id : event \in unsent}) :
        /\ id \in DOMAIN events => id \in DOMAIN view /\ events[id] = Told(view[id])
        /\ active /\ view[id].status = "Open" => id \in DOMAIN events

Mirror == [id \in DOMAIN chain.channels |-> ConvertChannelModel(chain.channels[id])]

\* A drained feed leaves the cache equal to the chain, although transactions ran
\* between the snapshot of connect and the subscription, and between any two updates;
\* and all along the ends of a cached channel are cached accounts.
DrainedFeedMirrorsChain ==
    /\ ConnectorTypeOK
    /\ phase = "streaming" /\ feed = <<>> => view = Mirror

\* The confirmation of a funding resolves only after the caller can read the result:
\* when the wait ends by what the view shows, and not by the time limit, the view has
\* ingested the call's own transaction.
FundingIsVisible ==
    \A k \in Calls :
        at[k] = "confirming" /\ call[k].op = "FundChannel" /\ ~call[k].late
            => call[k].behind = 0
==============================================================================
