----------------------------- MODULE ClearingPallet -----------------------------
(***************************************************************************)
(* The off-chain clearing pallet (runtime/transaction/offchain): customers  *)
(* bind to a clearing bank, deposit into its clearing account and withdraw  *)
(* from it; the bank of the recipients settles signed payments in numbered  *)
(* batches.  A batch runs inside one storage transaction, here step by      *)
(* step: Begin after the checks on the whole batch, one step per item, and  *)
(* Commit, or Rollback at the first item that fails.                        *)
(***************************************************************************)
EXTENDS ClearingRates, Sequences, Functions

SX == INSTANCE SequencesExt

CONSTANTS
    User,          \* customers (L3 accounts)
    Peer,          \* PeerIds of clearing nodes
    Endpoint,      \* RPC endpoints of clearing nodes
    Province,      \* bank -> the two bytes of its CID that name its province
    TxId,          \* payment ids
    Amount,        \* amounts deposited, withdrawn and paid
    InitRate,      \* the rate in force at the start
    InitWallet,    \* a customer's own balance at the start
    InitReserve,   \* a clearing account's balance at the start
    InitFees,      \* a fee account's balance at the start
    ED,            \* existential deposit
    MaxBatch       \* bound on the items of a batch

ASSUME PalletAssumption ==
    /\ {InitRate, InitWallet, InitReserve, InitFees, ED, MaxBatch} \subseteq Nat
    /\ Amount \subseteq Nat
    /\ DOMAIN Province = Bank
    /\ IsFiniteSet(User)

VARIABLES
    UserBank,               \* customer -> the bank he is bound to
    LastClearingBatchSeq,   \* bank -> number of its last settled batch
    ClearingBankNodes,      \* bank -> PeerId and endpoint of its clearing node
    NodePeerToInstitution,  \* PeerId -> bank
    wallet,                 \* customer -> own balance on chain
    books,                  \* what a batch writes: deposits, nonces, marks, balances
    txn                     \* the batch being executed, or NoBatch

palletVars == <<UserBank, LastClearingBatchSeq, ClearingBankNodes,
                NodePeerToInstitution, wallet, books, txn>>
vars == <<now, rateVars, palletVars>>

Payment == [tx : TxId, payer : User, payerBank : Bank, recipient : User,
            recipientBank : Bank, amount : Nat, fee : Nat, nonce : Nat, expires : Nat]

Books == [DepositBalance : [Bank -> [User -> Nat]], BankTotalDeposits : [Bank -> Nat],
          L3PaymentNonce : [User -> Nat],
          ProcessedOffchainTx : SUBSET ((UNION {{Province[b]} : b \in Bank}) \X TxId),
          clearing : [Bank -> Nat], feeAccount : [Bank -> Nat]]

NoBatch == [bank |-> "none"]
Batch == [bank : Bank, seq : Nat, todo : Seq(Payment), done : Seq(Payment), fees : Nat,
          saved : Books]

TypeOK ==
    /\ RatesTypeOK
    /\ IsMap(UserBank, User, Bank)
    /\ LastClearingBatchSeq \in [Bank -> Nat]
    /\ IsMap(ClearingBankNodes, Bank, [peer : Peer, endpoint : Endpoint])
    /\ IsMap(NodePeerToInstitution, Peer, Bank)
    /\ wallet \in [User -> Nat]
    /\ books \in Books
    /\ txn = NoBatch \/ txn \in Batch

\* Banks that have declared a node and set a rate; customers come later.
Init ==
    /\ now = 1
    /\ L2FeeRateBp = [b \in Bank |-> InitRate]
    /\ L2FeeRateProposed = EmptyMap
    /\ MaxL2FeeRateBp = 0
    /\ announcedAt = [b \in Bank |-> 0]
    /\ UserBank = EmptyMap
    /\ LastClearingBatchSeq = [b \in Bank |-> 0]
    /\ \E peer \in [Bank -> Peer], e \in Endpoint :
          /\ \A b, c \in Bank : b # c => peer[b] # peer[c]
          /\ ClearingBankNodes = [b \in Bank |-> [peer |-> peer[b], endpoint |-> e]]
          /\ NodePeerToInstitution =
                [p \in {peer[b] : b \in Bank} |-> CHOOSE b \in Bank : peer[b] = p]
    /\ wallet = [u \in User |-> InitWallet]
    /\ books = [DepositBalance |-> [b \in Bank |-> [u \in User |-> 0]],
                BankTotalDeposits |-> [b \in Bank |-> 0],
                L3PaymentNonce |-> [u \in User |-> 0],
                ProcessedOffchainTx |-> {},
                clearing |-> [b \in Bank |-> InitReserve],
                feeAccount |-> [b \in Bank |-> InitFees]]
    /\ txn = NoBatch

Idle == txn = NoBatch

-------------------------------------------------------------------------------
(* Clearing nodes (lib.rs).                                                  *)

RegisterNode(b, p, e) ==
    /\ Idle
    /\ b \notin DOMAIN ClearingBankNodes
    /\ p \notin DOMAIN NodePeerToInstitution
    /\ ClearingBankNodes' = Insert(ClearingBankNodes, b, [peer |-> p, endpoint |-> e])
    /\ NodePeerToInstitution' = Insert(NodePeerToInstitution, p, b)
    /\ UNCHANGED <<UserBank, LastClearingBatchSeq, wallet, books, txn>>

UpdateEndpoint(b, e) ==
    /\ Idle
    /\ b \in DOMAIN ClearingBankNodes
    /\ ClearingBankNodes' = [ClearingBankNodes EXCEPT ![b].endpoint = e]
    /\ UNCHANGED <<UserBank, LastClearingBatchSeq, NodePeerToInstitution,
                   wallet, books, txn>>

\* The index by PeerId without the entry of bank b's node.
PeersWithout(b) == Remove(NodePeerToInstitution, ClearingBankNodes[b].peer)

UnregisterNode(b) ==
    /\ Idle
    /\ b \in DOMAIN ClearingBankNodes
    /\ ClearingBankNodes' = Remove(ClearingBankNodes, b)
    /\ NodePeerToInstitution' = PeersWithout(b)
    /\ UNCHANGED <<UserBank, LastClearingBatchSeq, wallet, books, txn>>

\* ensure_can_be_bound, for a registered private institution with a clearing account.
CanBeBound(b) == b \in DOMAIN ClearingBankNodes

-------------------------------------------------------------------------------
(* Binding, deposits and withdrawals (deposit.rs).                           *)

\* Mutant: the sender's balance is not looked at.
TransferUnchecked(from, to, amount) == to + amount >= ED

\* Currency::transfer with KeepAlive: neither side may end below the existential deposit.
CanTransfer(from, to, amount) == from - amount >= ED /\ to + amount >= ED

BindBank(u, b) ==
    /\ Idle
    /\ u \notin DOMAIN UserBank
    /\ CanBeBound(b)
    /\ UserBank' = Insert(UserBank, u, b)
    /\ books' = [books EXCEPT !.DepositBalance[b][u] = 0]
    /\ UNCHANGED <<LastClearingBatchSeq, ClearingBankNodes, NodePeerToInstitution,
                   wallet, txn>>

Deposit(u, amount) ==
    /\ Idle
    /\ amount > 0
    /\ u \in DOMAIN UserBank
    /\ CanTransfer(wallet[u], books.clearing[UserBank[u]], amount)
    /\ wallet' = [wallet EXCEPT ![u] = @ - amount]
    /\ books' = [books EXCEPT !.clearing[UserBank[u]] = @ + amount,
                              !.DepositBalance[UserBank[u]][u] = @ + amount,
                              !.BankTotalDeposits[UserBank[u]] = @ + amount]
    /\ UNCHANGED <<UserBank, LastClearingBatchSeq, ClearingBankNodes,
                   NodePeerToInstitution, txn>>

\* saturating_sub
Less(a, b) == IF a >= b THEN a - b ELSE 0

\* The conditions of do_withdraw.
CanWithdraw(u, amount) ==
    /\ amount > 0
    /\ u \in DOMAIN UserBank
    /\ books.DepositBalance[UserBank[u]][u] >= amount
    /\ CanTransfer(books.clearing[UserBank[u]], wallet[u], amount)

Withdraw(u, amount) ==
    /\ Idle
    /\ CanWithdraw(u, amount)
    /\ wallet' = [wallet EXCEPT ![u] = @ + amount]
    /\ books' = [books EXCEPT !.clearing[UserBank[u]] = @ - amount,
                              !.DepositBalance[UserBank[u]][u] = Less(@, amount),
                              !.BankTotalDeposits[UserBank[u]] = Less(@, amount)]
    /\ UNCHANGED <<UserBank, LastClearingBatchSeq, ClearingBankNodes,
                   NodePeerToInstitution, txn>>

\* Mutant: a customer may switch with money left at his bank.
MaySwitchAnyTime(u, b) == UserBank[u] # b /\ CanBeBound(b)

\* do_switch_bank lets a customer go only when his deposit is zero.
MaySwitch(u, b) ==
    /\ UserBank[u] # b
    /\ books.DepositBalance[UserBank[u]][u] = 0
    /\ CanBeBound(b)

SwitchBank(u, b) ==
    /\ Idle
    /\ u \in DOMAIN UserBank
    /\ MaySwitch(u, b)
    /\ UserBank' = Insert(UserBank, u, b)
    /\ books' = [books EXCEPT !.DepositBalance[b][u] = 0]
    /\ UNCHANGED <<LastClearingBatchSeq, ClearingBankNodes, NodePeerToInstitution,
                   wallet, txn>>

-------------------------------------------------------------------------------
(* Batches (settlement.rs, nonce.rs, solvency.rs, submit_offchain_batch).    *)

Larger(a, b) == IF a >= b THEN a ELSE b

\* calc_fee: rounded half up, one fen at least.
CalcFee(amount, rate) == Larger((amount * rate + 5000) \div 10000, 1)

\* calculate_onchain_fee on the fees of a batch: a tenth of a percent, ten fen at least.
OnchainFee(basis) == Larger((basis + 500) \div 1000, 10)

SameBank(p) == p.payerBank = p.recipientBank

\* What item p takes out of the payer's bank's clearing account.
Debit(p) == IF SameBank(p) THEN p.fee ELSE p.amount + p.fee

ProjectedDebit(items, b) ==
    SX!FoldLeft(LAMBDA sum, p : IF p.payerBank = b THEN sum + Debit(p) ELSE sum, 0, items)

\* ensure_can_debit: the reserve after the debit against the deposits before it.
CanDebit(b, debit) == books.clearing[b] - debit >= books.BankTotalDeposits[b]

\* The checks of execute_clearing_bank_batch on one item of a batch of bank b.
ItemAdmitted(p, b) ==
    /\ p.recipientBank = b
    /\ p.amount > 0
    /\ p.payer # p.recipient
    /\ now =< p.expires
    /\ p.payer \in DOMAIN UserBank /\ UserBank[p.payer] = p.payerBank
    /\ p.recipient \in DOMAIN UserBank /\ UserBank[p.recipient] = p.recipientBank
    /\ SameBank(p) \/ CanBeBound(p.payerBank)
    /\ L2FeeRateBp[b] > 0
    /\ p.fee = CalcFee(p.amount, L2FeeRateBp[b])

BatchAdmitted(b, seq, items) ==
    /\ items # <<>>
    /\ seq = LastClearingBatchSeq[b] + 1
    /\ \A i \in DOMAIN items : ItemAdmitted(items[i], b)
    /\ \A c \in {items[i].payerBank : i \in DOMAIN items} :
          CanDebit(c, ProjectedDebit(items, c))

BatchBegin(b, seq, items) ==
    /\ Idle
    /\ BatchAdmitted(b, seq, items)
    /\ txn' = [bank |-> b, seq |-> seq, todo |-> items, done |-> <<>>, fees |-> 0,
               saved |-> books]
    /\ UNCHANGED <<UserBank, LastClearingBatchSeq, ClearingBankNodes,
                   NodePeerToInstitution, wallet, books>>

\* consume_nonce, ProcessedOffchainTx and the balance checks of execute_single_item; the
\* payer's signature on every item of a batch is taken to be valid.
CanExecute(p) ==
    /\ p.nonce = books.L3PaymentNonce[p.payer] + 1
    /\ <<Province[p.payerBank], p.tx>> \notin books.ProcessedOffchainTx
    /\ books.DepositBalance[p.payerBank][p.payer] >= p.amount + p.fee
    /\ \/ /\ SameBank(p)
          /\ CanTransfer(books.clearing[p.payerBank], books.feeAccount[p.payerBank], p.fee)
       \/ /\ ~SameBank(p)
          /\ CanTransfer(books.clearing[p.payerBank], books.clearing[p.recipientBank],
                         p.amount)
          /\ CanTransfer(books.clearing[p.payerBank] - p.amount,
                         books.feeAccount[p.recipientBank], p.fee)

\* The deposits after item p: the payer pays amount and fee, the recipient gets the amount.
Paid(bal, p) ==
    [b \in Bank |-> [u \in User |->
        IF b = p.payerBank /\ u = p.payer THEN Less(bal[b][u], p.amount + p.fee)
        ELSE IF b = p.recipientBank /\ u = p.recipient THEN bal[b][u] + p.amount
        ELSE bal[b][u]]]

\* Mutant: the totals of the two banks are swapped.
TotalsSwapped(total, p) ==
    [b \in Bank |->
        IF b = p.recipientBank THEN Less(total[b], Debit(p))
        ELSE IF b = p.payerBank THEN total[b] + p.amount
        ELSE total[b]]

\* The total deposits after item p: only the fee leaves a bank that pays to itself.
TotalsAfter(total, p) ==
    [b \in Bank |->
        IF b = p.payerBank THEN Less(total[b], Debit(p))
        ELSE IF b = p.recipientBank THEN total[b] + p.amount
        ELSE total[b]]

\* The clearing accounts after item p.
ClearingAfter(clearing, p) ==
    [b \in Bank |->
        IF b = p.payerBank THEN clearing[b] - Debit(p)
        ELSE IF b = p.recipientBank THEN clearing[b] + p.amount
        ELSE clearing[b]]

\* The marks against replay after item p.
MarksAfter(marks, p) == marks \cup {<<Province[p.payerBank], p.tx>>}

\* execute_single_item
BooksAfter(p) ==
    [DepositBalance |-> Paid(books.DepositBalance, p),
     BankTotalDeposits |-> TotalsAfter(books.BankTotalDeposits, p),
     L3PaymentNonce |-> [books.L3PaymentNonce EXCEPT ![p.payer] = p.nonce],
     ProcessedOffchainTx |-> MarksAfter(books.ProcessedOffchainTx, p),
     clearing |-> ClearingAfter(books.clearing, p),
     feeAccount |-> [books.feeAccount EXCEPT ![p.recipientBank] = @ + p.fee]]

BatchItem ==
    /\ ~Idle
    /\ txn.todo # <<>>
    /\ CanExecute(Head(txn.todo))
    /\ books' = BooksAfter(Head(txn.todo))
    /\ txn' = [txn EXCEPT !.todo = Tail(@), !.done = Append(@, Head(txn.todo)),
                          !.fees = @ + Head(txn.todo).fee]
    /\ UNCHANGED <<UserBank, LastClearingBatchSeq, ClearingBankNodes,
                   NodePeerToInstitution, wallet>>

\* OnchainFeeCharger::charge on the bank's fee account, KeepAlive.
CanCharge == books.feeAccount[txn.bank] - OnchainFee(txn.fees) >= ED

BatchCommit ==
    /\ ~Idle
    /\ txn.todo = <<>>
    /\ CanCharge
    /\ books' = [books EXCEPT !.feeAccount[txn.bank] = @ - OnchainFee(txn.fees)]
    /\ LastClearingBatchSeq' = [LastClearingBatchSeq EXCEPT ![txn.bank] = txn.seq]
    /\ txn' = NoBatch
    /\ UNCHANGED <<UserBank, ClearingBankNodes, NodePeerToInstitution, wallet>>

\* Mutant: nonces are consumed outside the storage transaction.
RestoredButNonces == [txn.saved EXCEPT !.L3PaymentNonce = books.L3PaymentNonce]

\* TransactionOutcome::Rollback: everything the batch wrote is undone.
Restored == txn.saved

BatchRollback ==
    /\ ~Idle
    /\ \/ txn.todo # <<>> /\ ~CanExecute(Head(txn.todo))
       \/ txn.todo = <<>> /\ ~CanCharge
    /\ books' = Restored
    /\ txn' = NoBatch
    /\ UNCHANGED <<UserBank, LastClearingBatchSeq, ClearingBankNodes,
                   NodePeerToInstitution, wallet>>

-------------------------------------------------------------------------------

\* Items tried in a batch of bank b: signed by the payer with the nonce he or the node
\* believes is next, for a fee at the rate in force.
Items(b) ==
    {p \in [tx : TxId, payer : User, payerBank : Bank, recipient : User,
            recipientBank : {b}, amount : Amount,
            fee : {CalcFee(a, L2FeeRateBp[b]) : a \in Amount},
            nonce : 1..Cardinality(TxId), expires : {MaxBlock}] :
        /\ ItemAdmitted(p, b)
        /\ p.nonce > books.L3PaymentNonce[p.payer]}

\* propose_l2_fee_rate, set_max_l2_fee_rate and the hook of the next block.
RateStep ==
    /\ Idle
    /\ \/ \E b \in Bank, rate \in RateChoice :
             CanBeBound(b) /\ ProposeRate(b, rate) /\ UNCHANGED now
       \/ \E max \in RateChoice : SetMaxRate(max) /\ UNCHANGED now
       \/ now < MaxBlock /\ ActivateRates
    /\ UNCHANGED palletVars

PalletStep ==
    /\ \/ \E b \in Bank, p \in Peer, e \in Endpoint : RegisterNode(b, p, e)
       \/ \E b \in Bank, e \in Endpoint : UpdateEndpoint(b, e)
       \/ \E b \in Bank : UnregisterNode(b)
       \/ \E u \in User, b \in Bank : BindBank(u, b)
       \/ \E u \in User, a \in Amount : Deposit(u, a)
       \/ \E u \in DOMAIN UserBank :
             \E a \in Amount \cup {books.DepositBalance[UserBank[u]][u]} : Withdraw(u, a)
       \/ \E u \in User, b \in Bank : SwitchBank(u, b)
       \/ \E b \in Bank : \E items \in SX!BoundedSeq(Items(b), MaxBatch) :
             BatchBegin(b, LastClearingBatchSeq[b] + 1, items)
       \/ BatchItem
       \/ BatchCommit
       \/ BatchRollback
    /\ UNCHANGED <<now, rateVars>>

Next == RateStep \/ PalletStep

Spec == Init /\ [][Next]_vars

-------------------------------------------------------------------------------
(* Properties.                                                               *)

\* The invariant of solvency.rs: a bank's clearing account covers the deposits of its
\* customers at every point, in the middle of a batch too.
Solvent ==
    \A b \in Bank : books.clearing[b] >= books.BankTotalDeposits[b]

\* Sharper: no operation of the pallet changes the amount by which a bank's clearing
\* account exceeds its deposits, so no sequence of payments between banks, rollbacks and
\* saturating subtractions creates or loses money of the customers.
SurplusKept ==
    \A b \in Bank : books.clearing[b] = books.BankTotalDeposits[b] + InitReserve

\* The invariant reserve.rs relies on: a bank's total is the sum of its customers'
\* deposits after every payment, within a bank and between banks.
DepositsAddUp ==
    \A b \in Bank :
        books.BankTotalDeposits[b] =
            FoldFunction(+, 0, books.DepositBalance[b])

\* Every settled payment consumed exactly one nonce and left exactly one mark against
\* replay, and a batch that failed at a later item left neither (nonce.rs and
\* ProcessedOffchainTx under with_transaction).
PaymentsAccounted ==
    FoldFunction(+, 0, books.L3PaymentNonce) = Cardinality(books.ProcessedOffchainTx)

\* The books balance: no sequence of deposits, withdrawals, payments within and between
\* banks and batches that fail halfway creates or loses money, drops a nonce or settles a
\* payment twice.
BooksBalance == SurplusKept /\ DepositsAddUp /\ PaymentsAccounted

\* A customer has money only at the bank he is bound to: switching, unregistering a bank's
\* node and payments to a customer who has switched strand no deposit at another bank.
DepositAtOwnBank ==
    \A b \in Bank, u \in User :
        books.DepositBalance[b][u] > 0 => u \in DOMAIN UserBank /\ UserBank[u] = b
===============================================================================
