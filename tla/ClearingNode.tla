------------------------------ MODULE ClearingNode ------------------------------
(***************************************************************************)
(* The node of one clearing bank beside the chain (node/src/transaction/    *)
(* offchain): the ledger acknowledges payments over RPC, the packer submits *)
(* them in batches and the listener applies the chain's events to the       *)
(* ledger.  The customers' calls and the other banks' batches go on         *)
(* meanwhile; a batch waits in the transaction pool until a block includes  *)
(* it, and events wait until they are handled.  A step of the node that     *)
(* looks at the chain finds complete blocks (Idle).                         *)
(***************************************************************************)
EXTENDS ClearingPallet

CONSTANTS
    MyBank,           \* the bank this node serves
    Leaving,          \* the banks whose nodes are unregistered and registered again
    Validity,         \* blocks a signed payment stays valid
    PackBlocks,       \* PACK_BLOCK_THRESHOLD
    PackTx,           \* PACK_TX_THRESHOLD
    InitDeposit,      \* deposit of every customer at the start
    MaxSeq,           \* bound on the batches the packer makes
    MaxInbox,         \* bound on the events not handled yet
    MaxFaults         \* bound on failing submissions, events lost and restarts

ASSUME NodeAssumption ==
    /\ MyBank \in Bank /\ Leaving \subseteq Bank /\ Bank \subseteq Peer /\ Bank \subseteq Endpoint
    /\ {Validity, PackBlocks, PackTx, InitDeposit, MaxSeq, MaxInbox,
        MaxFaults} \subseteq Nat

VARIABLES
    accounts,           \* ledger: customer -> L3AccountState, zeros when absent
    pending,            \* ledger: acknowledged payments in the order of acceptance
    batch_seq_counter,  \* packer: number of the last batch it made
    last_pack_block,    \* packer: block of the last successful submission
    packing,            \* packer: the batch pack_and_submit is working on, or NoRound
    pool,               \* batches of this bank in the transaction pool
    inbox,              \* events the listener has not handled yet
    acknowledged,       \* history: ids acknowledged since the start, not taken back
    missed,             \* history: an event has passed the ledger by
    faults              \* failures and restarts so far

packerVars == <<batch_seq_counter, last_pack_block, packing>>
historyVars == <<acknowledged, missed, faults>>
nodeVars == <<accounts, pending, packerVars, pool, inbox, historyVars>>
allVars == <<vars, nodeVars>>

NoRound == [seq |-> 0]

NoState == [confirmed |-> 0, pending_debit |-> 0, cached_nonce |-> 0]

\* The network in operation: nodes declared, some customers bound with a deposit, and a
\* ledger that has followed the chain since its first block.
NodeInit ==
    /\ now = 1
    /\ L2FeeRateBp = [b \in Bank |-> InitRate]
    /\ L2FeeRateProposed = EmptyMap
    /\ MaxL2FeeRateBp = 0
    /\ announcedAt = [b \in Bank |-> 0]
    /\ \E S \in SUBSET User : UserBank \in [S -> Bank]
    /\ LastClearingBatchSeq = [b \in Bank |-> 0]
    /\ ClearingBankNodes = [b \in Bank |-> [peer |-> b, endpoint |-> b]]
    /\ NodePeerToInstitution = [b \in Bank |-> b]
    /\ wallet = [u \in User |-> InitWallet]
    /\ LET held(b) == {u \in DOMAIN UserBank : UserBank[u] = b}
       IN books = [DepositBalance |-> [b \in Bank |-> [u \in User |->
                                          IF u \in held(b) THEN InitDeposit ELSE 0]],
                   BankTotalDeposits |-> [b \in Bank |-> InitDeposit * Cardinality(held(b))],
                   L3PaymentNonce |-> [u \in User |-> 0],
                   ProcessedOffchainTx |-> {},
                   clearing |-> [b \in Bank |-> InitReserve
                                                + InitDeposit * Cardinality(held(b))],
                   feeAccount |-> [b \in Bank |-> InitFees]]
    /\ txn = NoBatch
    /\ accounts = [u \in User |-> [NoState EXCEPT !.confirmed =
                                      books.DepositBalance[MyBank][u]]]
    /\ pending = <<>>
    /\ batch_seq_counter = 0
    /\ last_pack_block = 0
    /\ packing = NoRound
    /\ pool = {}
    /\ inbox = <<>>
    /\ acknowledged = {}
    /\ missed = FALSE
    /\ faults = 0

-------------------------------------------------------------------------------
(* The ledger (ledger.rs) and its RPC (rpc.rs).                              *)

Total(p) == p.amount + p.fee
PendingOf(u) == {i \in DOMAIN pending : pending[i].payer = u}
LargestNonce(u) == SX!Max({0} \cup {pending[i].nonce : i \in PendingOf(u)})
TotalPending(u) == SumFunctionOnSet([i \in DOMAIN pending |-> Total(pending[i])], PendingOf(u))

\* query_next_nonce: what the payer's application signs with.
QueryNextNonce(u) ==
    Larger(books.L3PaymentNonce[u],
           Larger(accounts[u].cached_nonce, LargestNonce(u))) + 1

\* accept_payment_with_chain_state for a payer of this bank, from the local ledger, and
\* for a payer of another bank, from the chain and what is pending here.
ExpectedNonce(p) ==
    IF SameBank(p) THEN accounts[p.payer].cached_nonce + 1
    ELSE Larger(books.L3PaymentNonce[p.payer], LargestNonce(p.payer)) + 1
Available(p) ==
    IF SameBank(p) THEN Less(accounts[p.payer].confirmed, accounts[p.payer].pending_debit)
    ELSE Less(books.DepositBalance[p.payerBank][p.payer], TotalPending(p.payer))

\* submit_payment: a payment the payer signed with the nonce this node told him.
SubmitPayment(payer, recipient, amount, tx) ==
    LET p == [tx |-> tx, payer |-> payer, payerBank |-> UserBank[payer],
              recipient |-> recipient, recipientBank |-> UserBank[recipient],
              amount |-> amount, fee |-> CalcFee(amount, L2FeeRateBp[MyBank]),
              nonce |-> QueryNextNonce(payer), expires |-> now + Validity]
    IN  /\ Idle
        /\ {payer, recipient} \subseteq DOMAIN UserBank
        /\ UserBank[recipient] = MyBank
        /\ L2FeeRateBp[MyBank] > 0
        /\ \A i \in DOMAIN pending : pending[i].tx # tx
        /\ p.nonce = ExpectedNonce(p)
        /\ Available(p) >= Total(p)
        /\ pending' = Append(pending, p)
        /\ accounts' = IF SameBank(p)
                       THEN [accounts EXCEPT ![payer].pending_debit = @ + Total(p),
                                             ![payer].cached_nonce = p.nonce]
                       ELSE accounts
        /\ acknowledged' = acknowledged \cup {tx}
        /\ UNCHANGED <<vars, packerVars, pool, inbox, missed, faults>>

\* Mutant: both sides are brought up to date, wherever they bank.
SettleBothSides(acc, p) ==
    [u \in User |->
        IF u = p.payer
        THEN [acc[u] EXCEPT !.pending_debit = Less(@, Total(p)),
                            !.confirmed = Less(@, Total(p))]
        ELSE IF u = p.recipient THEN [acc[u] EXCEPT !.confirmed = @ + p.amount]
        ELSE acc[u]]

\* on_payment_settled: each side that banks here is brought up to date.
Settle(acc, p) ==
    [u \in User |->
        IF u = p.payer /\ p.payerBank = MyBank
        THEN [acc[u] EXCEPT !.pending_debit = Less(@, Total(p)),
                            !.confirmed = Less(@, Total(p))]
        ELSE IF u = p.recipient /\ p.recipientBank = MyBank
        THEN [acc[u] EXCEPT !.confirmed = @ + p.amount]
        ELSE acc[u]]

\* The payments between customers of which one banks here.
Concerns(ev) ==
    ev.kind = "PaymentSettled" /\ MyBank \in {ev.item.payerBank, ev.item.recipientBank}

\* handle: on_deposited, on_withdrawn and on_payment_settled, for this bank's events.
Applied(acc, ev) ==
    CASE ev.kind = "Deposited" /\ ev.bank = MyBank ->
            [acc EXCEPT ![ev.user].confirmed = @ + ev.amount]
      [] ev.kind = "Withdrawn" /\ ev.bank = MyBank ->
            [acc EXCEPT ![ev.user].confirmed = Less(@, ev.amount)]
      [] Concerns(ev) -> Settle(acc, ev.item)
      [] OTHER -> acc

\* retain of on_payment_settled: every pending payment but the settled one.
Retain(kept, p) == IF p.tx = Head(inbox).item.tx THEN kept ELSE Append(kept, p)

\* The listener handles the next event.
HandleEvent ==
    /\ inbox # <<>>
    /\ accounts' = Applied(accounts, Head(inbox))
    /\ pending' = IF Concerns(Head(inbox))
                  THEN SX!FoldLeft(Retain, <<>>, pending)
                  ELSE pending
    /\ inbox' = Tail(inbox)
    /\ UNCHANGED <<vars, packerVars, pool, historyVars>>

\* process_block fails to read or decode a block's events, which run only logs: they
\* are lost, here one by one.
LoseEvent ==
    /\ inbox # <<>>
    /\ faults < MaxFaults
    /\ faults' = faults + 1
    /\ missed' = TRUE
    /\ inbox' = Tail(inbox)
    /\ UNCHANGED <<vars, accounts, pending, packerVars, pool, acknowledged>>

-------------------------------------------------------------------------------
(* The packer (packer.rs, submitter.rs).                                     *)

ToPack == SubSeq(pending, 1, IF Len(pending) =< PackTx THEN Len(pending) ELSE PackTx)

ShouldPack ==
    /\ pending # <<>>
    /\ batch_seq_counter < MaxSeq
    /\ \/ Len(pending) >= PackTx
       \/ Less(now, last_pack_block) >= PackBlocks

\* next_batch_seq
NextBatchSeq == batch_seq_counter + 1

\* pack_and_submit up to its first await: the payments are copied and numbered.  While
\* it signs and submits, payments are acknowledged and events handled.
PackBegins ==
    /\ Idle
    /\ packing = NoRound
    /\ ShouldPack
    /\ batch_seq_counter' = NextBatchSeq
    /\ packing' = [seq |-> NextBatchSeq, items |-> ToPack, block |-> now]
    /\ UNCHANGED <<vars, accounts, pending, last_pack_block, pool, inbox, historyVars>>

\* Mutant: what is submitted is no longer pending.
PendingDropsSubmitted ==
    SelectSeq(pending, LAMBDA p : ~SX!Contains(packing.items, p))

\* The payments stay pending until their events arrive.
PendingOnceSubmitted == pending

\* The rest with success: a batch still in the pool has the same account nonce and is
\* replaced.
PackSubmits ==
    /\ Idle
    /\ packing # NoRound
    /\ pool' = {[seq |-> packing.seq, items |-> packing.items]}
    /\ last_pack_block' = packing.block
    /\ packing' = NoRound
    /\ pending' = PendingOnceSubmitted
    /\ UNCHANGED <<vars, accounts, batch_seq_counter, inbox, historyVars>>

\* The payer's account without payment p: had_local_debit of reject_pending.
Rejected(acc, p) ==
    IF acc[p.payer].pending_debit < Total(p) THEN acc
    ELSE [acc EXCEPT ![p.payer].pending_debit = @ - Total(p),
                     ![p.payer].cached_nonce = IF @ = p.nonce THEN @ - 1 ELSE @]

\* reject_pending of an item of the batch: nothing when its event has come meanwhile.
RejectPending(ledger, item) ==
    LET found == {i \in DOMAIN ledger.pending : ledger.pending[i].tx = item.tx}
        pos == CHOOSE i \in found : \A j \in found : i =< j
    IN  IF found = {} THEN ledger
        ELSE [accounts |-> Rejected(ledger.accounts, ledger.pending[pos]),
              pending |-> SX!RemoveAt(ledger.pending, pos)]

\* rollback: the items are rejected one by one, in their order.
RolledBack == SX!FoldLeft(RejectPending, [accounts |-> accounts, pending |-> pending],
                          packing.items)

\* The rest without success: signing fails, or the pool refuses the extrinsic, for one
\* because a batch with the same account nonce waits in it.  The number is not given back.
PackFails ==
    /\ Idle
    /\ packing # NoRound
    /\ faults < MaxFaults
    /\ faults' = faults + 1
    /\ accounts' = RolledBack.accounts
    /\ pending' = RolledBack.pending
    /\ acknowledged' = acknowledged \ {packing.items[i].tx : i \in DOMAIN packing.items}
    /\ packing' = NoRound
    /\ UNCHANGED <<vars, batch_seq_counter, last_pack_block, pool, inbox, missed>>

\* Mutant: the numbers start over.
SeqFromZero == 0

\* new_with_initial_seq with the chain's number of the last settled batch.
InitialSeq == LastClearingBatchSeq[MyBank]

\* start_clearing_bank_components: no ledger file was ever written, so the ledger starts
\* empty; events of the blocks missed are lost.
Restart ==
    /\ Idle
    /\ faults < MaxFaults
    /\ faults' = faults + 1
    /\ missed' = TRUE
    /\ accounts' = [u \in User |-> NoState]
    /\ pending' = <<>>
    /\ acknowledged' = {}
    /\ batch_seq_counter' = InitialSeq
    /\ last_pack_block' = 0
    /\ packing' = NoRound
    /\ inbox' = <<>>
    /\ UNCHANGED <<vars, pool>>

-------------------------------------------------------------------------------
(* The chain.                                                                *)

Emit(events) == Len(inbox) < MaxInbox /\ inbox' = inbox \o events
Quiet == UNCHANGED <<accounts, pending, packerVars, pool, historyVars>>

DepositCall(u, a) ==
    /\ Deposit(u, a)
    /\ Emit(<<[kind |-> "Deposited", user |-> u, bank |-> UserBank[u], amount |-> a]>>)
    /\ Quiet /\ UNCHANGED <<now, rateVars>>

WithdrawCall(u, a) ==
    /\ Withdraw(u, a)
    /\ Emit(<<[kind |-> "Withdrawn", user |-> u, bank |-> UserBank[u], amount |-> a]>>)
    /\ Quiet /\ UNCHANGED <<now, rateVars>>

SwitchCall(u, b) ==
    /\ SwitchBank(u, b)
    /\ Quiet /\ UNCHANGED <<inbox, now, rateVars>>

\* Another bank settles a payment to one of its customers, signed with the next nonce.
OtherBankBatch(b, p) ==
    /\ p.nonce = books.L3PaymentNonce[p.payer] + 1
    /\ BatchBegin(b, LastClearingBatchSeq[b] + 1, <<p>>)
    /\ Quiet /\ UNCHANGED <<inbox, now, rateVars>>

\* A block includes a batch of this bank; one that is not admitted leaves no trace.
IncludeBatch(e) ==
    /\ Idle
    /\ e \in pool
    /\ pool' = pool \ {e}
    /\ IF BatchAdmitted(MyBank, e.seq, e.items) THEN BatchBegin(MyBank, e.seq, e.items)
       ELSE UNCHANGED palletVars
    /\ UNCHANGED <<accounts, pending, packerVars, inbox, historyVars, now, rateVars>>

\* PaymentSettled of every item, once the batch is committed.
SettledEvents == [i \in DOMAIN txn.done |-> [kind |-> "PaymentSettled", item |-> txn.done[i]]]

BatchStep ==
    /\ \/ BatchItem /\ UNCHANGED inbox
       \/ BatchCommit /\ Emit(SettledEvents)
       \/ BatchRollback /\ UNCHANGED inbox
    /\ Quiet /\ UNCHANGED <<now, rateVars>>

\* Customers are bound, and banks' nodes unregistered and registered again.  (A node's
\* endpoint is nothing this node or a batch looks at.)
NodeCall ==
    /\ \/ \E u \in User, b \in Bank : BindBank(u, b)
       \/ \E b \in Leaving : UnregisterNode(b) \/ RegisterNode(b, b, b)
    /\ Quiet /\ UNCHANGED <<inbox, now, rateVars>>

ChainStep ==
    \/ \E u \in User, a \in Amount : DepositCall(u, a)
    \/ \E u \in DOMAIN UserBank :
          \E a \in Amount \cup {books.DepositBalance[UserBank[u]][u]} : WithdrawCall(u, a)
    \/ \E u \in User, b \in Bank : SwitchCall(u, b)
    \/ NodeCall
    \/ \E b \in Bank \ {MyBank} : \E p \in Items(b) : OtherBankBatch(b, p)
    \/ \E e \in pool : IncludeBatch(e)
    \/ BatchStep
    \/ RateStep /\ UNCHANGED nodeVars

NodeStep ==
    \/ \E u, v \in User, a \in Amount, t \in TxId : SubmitPayment(u, v, a, t)
    \/ HandleEvent
    \/ LoseEvent
    \/ PackBegins
    \/ PackSubmits
    \/ PackFails
    \/ Restart

NodeNext == ChainStep \/ NodeStep

NodeSpec == NodeInit /\ [][NodeNext]_allVars

-------------------------------------------------------------------------------
(* Properties.                                                               *)

\* The chain as it was before the batch being executed.
Committed == IF Idle THEN books ELSE txn.saved

\* What reserve.rs says of a listener at work: once the events under way are handled, the
\* ledger's confirmed balance of every customer is his deposit on chain, through payments
\* within the bank, in and out of it, switching, rollbacks and failed submissions.
LedgerFollowsChain ==
    ~missed =>
        LET acc == SX!FoldLeft(Applied, accounts, inbox)
        IN \A u \in User : acc[u].confirmed = Committed.DepositBalance[MyBank][u]

\* The node keeps what it has acknowledged (pack_and_submit's note that a submitted
\* payment stays pending until its event arrives): a payment it did not take back after
\* a failed submission is pending until its id is settled on chain, though its batch be
\* refused, replaced in the pool or rolled back and its event late or lost.
AcknowledgedIsKept ==
    \A t \in acknowledged :
        \/ \E i \in DOMAIN pending : pending[i].tx = t
        \/ \E b \in Bank : <<Province[b], t>> \in Committed.ProcessedOffchainTx

\* The numbers of a restarted node continue the chain's (the field's comment in
\* packer.rs): with a batch from before the restart still in the pool and submissions
\* that fail, the node is behind the chain by one number at most, so that one batch at
\* most is refused because its number is taken.
NumbersContinue == LastClearingBatchSeq[MyBank] =< batch_seq_counter + 1
===============================================================================
