---------------------------- MODULE ClearingSolvency ----------------------------
(***************************************************************************)
(* Proofs about clearing, for any banks, customers, payments, amounts and   *)
(* rates.  Of the pallet: a bank's reserve covers its customers' deposits   *)
(* at every point of every batch, the books balance, a deposit stays at its *)
(* customer's bank, and every change of a rate was announced in time.  Of   *)
(* the node beside the chain: the ledger with the events still to be        *)
(* handled agrees with the chain, what was acknowledged stays pending until *)
(* it is settled, and the batch numbers keep up with the chain's.           *)
(***************************************************************************)
EXTENDS ClearingNode, DataLemmas

-------------------------------------------------------------------------------
(* Arithmetic of the pallet.                                                 *)

\* saturating_sub stays a natural number and never exceeds its first argument.
LEMMA LessNat == ASSUME NEW a \in Nat, NEW b \in Nat
                 PROVE  Less(a, b) \in Nat /\ Less(a, b) =< a
  BY DEF Less

\* calc_fee yields a natural number.
LEMMA CalcFeeNat == ASSUME NEW a \in Nat, NEW r \in Nat PROVE CalcFee(a, r) \in Nat
  <1>1. a * r \in Nat
    OBVIOUS
  <1>2. ASSUME NEW x \in Nat PROVE (x + 5000) \div 10000 \in Nat
    OBVIOUS
  <1> QED BY <1>1, <1>2 DEF CalcFee, Larger

\* The on-chain fee is a natural number.
LEMMA OnchainFeeNat == ASSUME NEW x \in Nat PROVE OnchainFee(x) \in Nat
  BY DEF OnchainFee, Larger

\* A payment takes a natural number from the payer's bank.
LEMMA DebitNat == ASSUME NEW p \in Payment PROVE Debit(p) \in Nat
  BY DEF Debit, Payment

-------------------------------------------------------------------------------
(* Books that are well typed and solvent.                                    *)

SolventBooks(bk) == \A b \in Bank : bk.clearing[b] >= bk.BankTotalDeposits[b]

GoodBooks(bk) == bk \in Books /\ SolventBooks(bk)

\* What the fields of well-typed books are.
LEMMA BooksFields ==
    ASSUME NEW bk \in Books
    PROVE  /\ bk = [DepositBalance |-> bk.DepositBalance,
                    BankTotalDeposits |-> bk.BankTotalDeposits,
                    L3PaymentNonce |-> bk.L3PaymentNonce,
                    ProcessedOffchainTx |-> bk.ProcessedOffchainTx,
                    clearing |-> bk.clearing, feeAccount |-> bk.feeAccount]
           /\ bk.DepositBalance \in [Bank -> [User -> Nat]]
           /\ bk.BankTotalDeposits \in [Bank -> Nat]
           /\ bk.L3PaymentNonce \in [User -> Nat]
           /\ bk.clearing \in [Bank -> Nat]
           /\ bk.feeAccount \in [Bank -> Nat]
  BY DEF Books

\* Writing the deposits, totals and reserves of good books.
LEMMA GoodUpdate ==
    ASSUME GoodBooks(books),
           NEW D \in [Bank -> [User -> Nat]], NEW T \in [Bank -> Nat], NEW C \in [Bank -> Nat],
           \A b \in Bank : C[b] >= T[b]
    PROVE  GoodBooks([books EXCEPT !.clearing = C, !.DepositBalance = D,
                                   !.BankTotalDeposits = T])
  <1> DEFINE new == [books EXCEPT !.clearing = C, !.DepositBalance = D,
                                  !.BankTotalDeposits = T]
  <1>1. new \in Books
    BY DEF GoodBooks, Books
  <1>2. new.clearing = C /\ new.BankTotalDeposits = T
    BY DEF GoodBooks, Books
  <1> QED BY <1>1, <1>2 DEF GoodBooks, SolventBooks

\* A customer's deposit raises reserve and total alike.
LEMMA DepositGood ==
    ASSUME GoodBooks(books), NEW u \in User, NEW b \in Bank, NEW a \in Nat
    PROVE  GoodBooks([books EXCEPT !.clearing[b] = @ + a,
                                   !.DepositBalance[b][u] = @ + a,
                                   !.BankTotalDeposits[b] = @ + a])
  <1> DEFINE C == [books.clearing EXCEPT ![b] = @ + a]
             D == [books.DepositBalance EXCEPT ![b][u] = @ + a]
             T == [books.BankTotalDeposits EXCEPT ![b] = @ + a]
  <1>1. books \in Books
    BY DEF GoodBooks
  <1>2. C \in [Bank -> Nat] /\ D \in [Bank -> [User -> Nat]] /\ T \in [Bank -> Nat]
    BY <1>1, BooksFields
  <1>3. \A c \in Bank : C[c] >= T[c]
    BY <1>1, BooksFields DEF GoodBooks, SolventBooks
  <1>4. GoodBooks([books EXCEPT !.clearing = C, !.DepositBalance = D,
                                !.BankTotalDeposits = T])
    <2> HIDE DEF C, D, T
    <2> QED BY <1>2, <1>3, GoodUpdate
  <1> QED BY <1>4

\* A withdrawal the reserve can pay lowers the total at least as far as the reserve allows.
LEMMA WithdrawGood ==
    ASSUME GoodBooks(books), NEW u \in User, NEW b \in Bank, NEW a \in Nat,
           books.clearing[b] - a >= 0
    PROVE  GoodBooks([books EXCEPT !.clearing[b] = @ - a,
                                   !.DepositBalance[b][u] = Less(@, a),
                                   !.BankTotalDeposits[b] = Less(@, a)])
  <1> DEFINE C == [books.clearing EXCEPT ![b] = @ - a]
             D == [books.DepositBalance EXCEPT ![b][u] = Less(@, a)]
             T == [books.BankTotalDeposits EXCEPT ![b] = Less(@, a)]
  <1>1. books \in Books
    BY DEF GoodBooks
  <1>2. C \in [Bank -> Nat] /\ D \in [Bank -> [User -> Nat]] /\ T \in [Bank -> Nat]
    BY <1>1, BooksFields, LessNat
  <1>3. \A c \in Bank : C[c] >= T[c]
    BY <1>1, BooksFields DEF GoodBooks, SolventBooks, Less
  <1>4. GoodBooks([books EXCEPT !.clearing = C, !.DepositBalance = D,
                                !.BankTotalDeposits = T])
    <2> HIDE DEF C, D, T
    <2> QED BY <1>2, <1>3, GoodUpdate
  <1> QED BY <1>4

\* Binding to a bank writes a zero deposit.
LEMMA BindGood ==
    ASSUME GoodBooks(books), NEW u \in User, NEW b \in Bank
    PROVE  GoodBooks([books EXCEPT !.DepositBalance[b][u] = 0])
  <1> DEFINE D == [books.DepositBalance EXCEPT ![b][u] = 0]
             new == [books EXCEPT !.DepositBalance = D]
  <1>1. books \in Books
    BY DEF GoodBooks
  <1>2. D \in [Bank -> [User -> Nat]]
    BY <1>1, BooksFields
  <1>3. new \in Books /\ new.clearing = books.clearing
        /\ new.BankTotalDeposits = books.BankTotalDeposits
    <2> HIDE DEF D
    <2> QED BY <1>1, <1>2 DEF Books
  <1>4. GoodBooks(new)
    <2> HIDE DEF new
    <2> QED BY <1>3 DEF GoodBooks, SolventBooks
  <1> QED BY <1>4

\* execute_single_item: the payer's bank can pay, so its total falls at least as far as its
\* reserve, and the recipient's bank receives what its total grows by.
LEMMA ItemGood ==
    ASSUME GoodBooks(books), NEW p \in Payment, CanExecute(p)
    PROVE  GoodBooks(BooksAfter(p))
  <1> DEFINE D == Paid(books.DepositBalance, p)
             T == TotalsAfter(books.BankTotalDeposits, p)
             C == ClearingAfter(books.clearing, p)
             N == [books.L3PaymentNonce EXCEPT ![p.payer] = p.nonce]
             M == MarksAfter(books.ProcessedOffchainTx, p)
             F == [books.feeAccount EXCEPT ![p.recipientBank] = @ + p.fee]
  <1>1. books \in Books
    BY DEF GoodBooks
  <1>2. /\ p.payer \in User /\ p.payerBank \in Bank /\ p.recipientBank \in Bank
        /\ p.amount \in Nat /\ p.fee \in Nat /\ p.nonce \in Nat /\ p.tx \in TxId
        /\ Debit(p) \in Nat
    BY DebitNat DEF Payment
  <1>3. books.clearing[p.payerBank] - Debit(p) >= 0
    BY <1>1, <1>2, BooksFields, PalletAssumption DEF CanExecute, CanTransfer, Debit, SameBank
  <1>4. C \in [Bank -> Nat]
    BY <1>1, <1>2, <1>3, BooksFields DEF ClearingAfter
  <1>5. T \in [Bank -> Nat]
    BY <1>1, <1>2, BooksFields, LessNat DEF TotalsAfter
  <1>6. D \in [Bank -> [User -> Nat]]
    BY <1>1, <1>2, BooksFields, LessNat DEF Paid
  <1>7. N \in [User -> Nat] /\ F \in [Bank -> Nat]
    BY <1>1, <1>2, BooksFields
  <1>8. M \in SUBSET ((UNION {{Province[b]} : b \in Bank}) \X TxId)
    BY <1>1, <1>2 DEF Books, MarksAfter
  <1>9. \A b \in Bank : C[b] >= T[b]
    <2>1. SUFFICES ASSUME NEW b \in Bank PROVE C[b] >= T[b]
      OBVIOUS
    <2>2. books.clearing[b] >= books.BankTotalDeposits[b]
          /\ books.clearing[b] \in Nat /\ books.BankTotalDeposits[b] \in Nat
      BY <1>1, BooksFields DEF GoodBooks, SolventBooks
    <2>3. CASE b = p.payerBank
      BY <2>2, <2>3, <1>2, <1>3 DEF ClearingAfter, TotalsAfter, Less
    <2>4. CASE b # p.payerBank
      BY <2>2, <2>4, <1>2 DEF ClearingAfter, TotalsAfter
    <2> QED BY <2>3, <2>4
  <1>10. BooksAfter(p) = [DepositBalance |-> D, BankTotalDeposits |-> T, L3PaymentNonce |-> N,
                          ProcessedOffchainTx |-> M, clearing |-> C, feeAccount |-> F]
    BY DEF BooksAfter
  <1> HIDE DEF C, D, T, N, M, F
  <1>11. BooksAfter(p) \in Books
    BY <1>4, <1>5, <1>6, <1>7, <1>8, <1>10 DEF Books
  <1>12. BooksAfter(p).clearing = C /\ BooksAfter(p).BankTotalDeposits = T
    BY <1>10
  <1> QED BY <1>9, <1>11, <1>12 DEF GoodBooks, SolventBooks

\* The on-chain fee comes out of the fee account, which is no customer's money.
LEMMA ChargeGood ==
    ASSUME GoodBooks(books), txn \in Batch, CanCharge
    PROVE  GoodBooks([books EXCEPT !.feeAccount[txn.bank] = @ - OnchainFee(txn.fees)])
  <1> DEFINE F == [books.feeAccount EXCEPT ![txn.bank] = @ - OnchainFee(txn.fees)]
             new == [books EXCEPT !.feeAccount = F]
  <1>1. books \in Books
    BY DEF GoodBooks
  <1>2. txn.bank \in Bank /\ OnchainFee(txn.fees) \in Nat
    BY OnchainFeeNat DEF Batch
  <1>3. F \in [Bank -> Nat]
    BY <1>1, <1>2, BooksFields, PalletAssumption DEF CanCharge
  <1>4. new \in Books /\ new.clearing = books.clearing
        /\ new.BankTotalDeposits = books.BankTotalDeposits
    <2> HIDE DEF F
    <2> QED BY <1>1, <1>3 DEF Books
  <1>5. GoodBooks(new)
    <2> HIDE DEF new
    <2> QED BY <1>4 DEF GoodBooks, SolventBooks
  <1> QED BY <1>5

-------------------------------------------------------------------------------
(* Rates.                                                                    *)

\* Announcements stay announcements of naturals when one is added or some are served.
LEMMA RateTypes ==
    ASSUME RatesTypeOK
    PROVE  /\ \A b \in Bank, rate \in RateChoice :
                 ProposeRate(b, rate) /\ UNCHANGED now => RatesTypeOK'
           /\ \A max \in RateChoice : SetMaxRate(max) /\ UNCHANGED now => RatesTypeOK'
           /\ ActivateRates => RatesTypeOK'
  <1> USE RatesAssumption
  <1>1. ASSUME NEW b \in Bank, NEW rate \in RateChoice, ProposeRate(b, rate), UNCHANGED now
        PROVE  RatesTypeOK'
    <2>1. IsMap(L2FeeRateProposed, Bank, [rate : Nat, effective_at : Nat])'
      BY <1>1 DEF RatesTypeOK, ProposeRate, Announcement, IsMap, Insert
    <2> QED BY <1>1, <2>1 DEF RatesTypeOK, ProposeRate
  <1>2. ASSUME NEW max \in RateChoice, SetMaxRate(max), UNCHANGED now PROVE RatesTypeOK'
    BY <1>2 DEF RatesTypeOK, SetMaxRate
  <1>3. ASSUME ActivateRates PROVE RatesTypeOK'
    <2>1. PICK S \in SUBSET Due(now') :
             /\ L2FeeRateBp' = [b \in Bank |-> IF b \in S THEN L2FeeRateProposed[b].rate
                                               ELSE L2FeeRateBp[b]]
             /\ L2FeeRateProposed' = ProposalsLeft(S)
      BY <1>3 DEF ActivateRates, Collectable
    <2>2. L2FeeRateBp' \in [Bank -> Nat]
      BY <2>1 DEF RatesTypeOK, IsMap, Due
    <2>3. IsMap(L2FeeRateProposed, Bank, [rate : Nat, effective_at : Nat])'
      BY <2>1 DEF RatesTypeOK, IsMap, ProposalsLeft
    <2> QED BY <1>3, <2>2, <2>3 DEF RatesTypeOK, ActivateRates
  <1> QED BY <1>1, <1>2, <1>3

-------------------------------------------------------------------------------
(* The inductive invariant: the books are good, and so are those a rollback   *)
(* would bring back.                                                          *)

PalletInv ==
    /\ TypeOK
    /\ Solvent
    /\ ~Idle => SolventBooks(txn.saved)

\* The current books are typed and solvent.
LEMMA InvBooks == ASSUME PalletInv PROVE GoodBooks(books)
  BY DEF PalletInv, TypeOK, Solvent, GoodBooks, SolventBooks

\* During a batch so are the books saved for its rollback.
LEMMA InvSaved == ASSUME PalletInv, ~Idle PROVE txn \in Batch /\ GoodBooks(txn.saved)
  <1>1. txn \in Batch
    BY DEF PalletInv, TypeOK, Idle
  <1>2. txn.saved \in Books
    BY <1>1 DEF Batch
  <1> QED BY <1>1, <1>2 DEF PalletInv, GoodBooks

\* The invariant after a step, from its parts.
LEMMA InvAgain ==
    ASSUME RatesTypeOK', IsMap(UserBank, User, Bank)', LastClearingBatchSeq' \in [Bank -> Nat],
           IsMap(ClearingBankNodes, Bank, [peer : Peer, endpoint : Endpoint])',
           IsMap(NodePeerToInstitution, Peer, Bank)', wallet' \in [User -> Nat],
           GoodBooks(books)', (txn = NoBatch \/ (txn \in Batch /\ GoodBooks(txn.saved)))'
    PROVE  PalletInv'
  BY DEF PalletInv, TypeOK, Solvent, GoodBooks, SolventBooks, Idle

\* Init
LEMMA InitInv == Init => PalletInv
  <1> SUFFICES ASSUME Init PROVE PalletInv
    OBVIOUS
  <1> USE PalletAssumption
  <1>1. PICK peer \in [Bank -> Peer], e \in Endpoint :
          /\ \A b, c \in Bank : b # c => peer[b] # peer[c]
          /\ ClearingBankNodes = [b \in Bank |-> [peer |-> peer[b], endpoint |-> e]]
          /\ NodePeerToInstitution =
                [p \in {peer[b] : b \in Bank} |-> CHOOSE b \in Bank : peer[b] = p]
    BY Zenon DEF Init
  <1>2. IsMap(ClearingBankNodes, Bank, [peer : Peer, endpoint : Endpoint])
    BY <1>1 DEF IsMap
  <1>3. IsMap(NodePeerToInstitution, Peer, Bank)
    <2>1. \A p \in {peer[b] : b \in Bank} : (CHOOSE b \in Bank : peer[b] = p) \in Bank
      OBVIOUS
    <2> QED BY <1>1, <2>1 DEF IsMap
  <1>4. RatesTypeOK
    BY DEF Init, RatesTypeOK, IsMap, EmptyMap
  <1>5. books \in Books
    BY DEF Init, Books
  <1>6. Solvent
    BY DEF Init, Solvent
  <1>7. IsMap(UserBank, User, Bank)
    BY DEF Init, IsMap, EmptyMap
  <1>8. LastClearingBatchSeq \in [Bank -> Nat] /\ wallet \in [User -> Nat] /\ txn = NoBatch
    BY DEF Init
  <1> QED BY <1>2, <1>3, <1>4, <1>5, <1>6, <1>7, <1>8 DEF PalletInv, TypeOK, Idle

\* The items tried in a batch are payments.
LEMMA ItemsArePayments ==
    ASSUME TypeOK, NEW b \in Bank, NEW p \in Items(b)
    PROVE  p \in Payment
  <1>1. \A a \in Amount : CalcFee(a, L2FeeRateBp[b]) \in Nat
    BY CalcFeeNat, PalletAssumption DEF TypeOK, RatesTypeOK
  <1>2. Amount \subseteq Nat /\ MaxBlock \in Nat /\ 1..Cardinality(TxId) \subseteq Nat
    BY PalletAssumption, RatesAssumption
  <1>3. p \in [tx : TxId, payer : User, payerBank : Bank, recipient : User,
               recipientBank : {b}, amount : Amount,
               fee : {CalcFee(a, L2FeeRateBp[b]) : a \in Amount},
               nonce : 1..Cardinality(TxId), expires : {MaxBlock}]
    BY DEF Items
  <1>4. p.fee \in Nat
    BY <1>1, <1>3
  <1>5. p.amount \in Nat /\ p.nonce \in Nat /\ p.expires \in Nat /\ p.recipientBank \in Bank
    BY <1>2, <1>3
  <1> QED BY <1>3, <1>4, <1>5 DEF Payment

\* Every step of the rates keeps the invariant.
LEMMA RateStepInv == ASSUME PalletInv, RateStep PROVE PalletInv'
  <1>1. RatesTypeOK'
    BY RateTypes DEF RateStep, PalletInv, TypeOK
  <1>2. UNCHANGED palletVars
    BY DEF RateStep
  <1> QED BY <1>1, <1>2 DEF PalletInv, TypeOK, Solvent, Idle, SolventBooks, palletVars

\* The calls to the pallet and the steps of a batch, with any amounts and any payments.
PalletMove ==
    \/ \E b \in Bank, p \in Peer, e \in Endpoint : RegisterNode(b, p, e)
    \/ \E b \in Bank, e \in Endpoint : UpdateEndpoint(b, e)
    \/ \E b \in Bank : UnregisterNode(b)
    \/ \E u \in User, b \in Bank : BindBank(u, b) \/ SwitchBank(u, b)
    \/ \E u \in User, a \in Nat : Deposit(u, a) \/ Withdraw(u, a)
    \/ \E b \in Bank, seq \in Nat, items \in Seq(Payment) : BatchBegin(b, seq, items)
    \/ BatchItem
    \/ BatchCommit
    \/ BatchRollback

\* The pallet's own steps are such.
LEMMA PalletStepMoves ==
    ASSUME PalletInv, PalletStep
    PROVE  PalletMove /\ UNCHANGED <<now, rateVars>>
  <1> SUFFICES PalletMove
    BY DEF PalletStep
  <1>0. TypeOK /\ books.DepositBalance \in [Bank -> [User -> Nat]]
    BY InvBooks, BooksFields DEF PalletInv, GoodBooks
  <1>1. ASSUME NEW u \in DOMAIN UserBank,
               NEW a \in Amount \cup {books.DepositBalance[UserBank[u]][u]}, Withdraw(u, a)
        PROVE  PalletMove
    <2>1. u \in User /\ UserBank[u] \in Bank
      BY <1>0 DEF IsMap, TypeOK
    <2>2. a \in Nat
      BY <1>0, <2>1, PalletAssumption
    <2> QED BY <1>1, <2>1, <2>2 DEF PalletMove
  <1>2. ASSUME NEW u \in User, NEW a \in Amount, Deposit(u, a) PROVE PalletMove
    BY <1>2, PalletAssumption DEF PalletMove
  <1>3. ASSUME NEW b \in Bank, NEW items \in SX!BoundedSeq(Items(b), MaxBatch),
               BatchBegin(b, LastClearingBatchSeq[b] + 1, items)
        PROVE  PalletMove
    <2>1. items \in Seq(Payment)
      <3>1. PICK m \in 0..MaxBatch : items \in [1..m -> Items(b)]
        BY DEF SX!BoundedSeq, SX!SeqOf
      <3>2. items \in [1..m -> Payment]
        BY <1>0, <3>1, ItemsArePayments
      <3> QED BY <3>2, PalletAssumption
    <2>2. LastClearingBatchSeq[b] + 1 \in Nat
      BY <1>0 DEF TypeOK
    <2> QED BY <1>3, <2>1, <2>2 DEF PalletMove
  <1>4. CASE \/ \E b \in Bank, p \in Peer, e \in Endpoint : RegisterNode(b, p, e)
             \/ \E b \in Bank, e \in Endpoint : UpdateEndpoint(b, e)
             \/ \E b \in Bank : UnregisterNode(b)
             \/ \E u \in User, b \in Bank : BindBank(u, b) \/ SwitchBank(u, b)
             \/ BatchItem \/ BatchCommit \/ BatchRollback
    BY <1>4 DEF PalletMove
  <1> QED BY <1>1, <1>2, <1>3, <1>4 DEF PalletStep

\* Every call to the pallet and every step of a batch keeps the invariant.
LEMMA PalletMoveInv == ASSUME PalletInv, PalletMove, RatesTypeOK' PROVE PalletInv'
  <1> USE DEF PalletInv, TypeOK
  <1>0. RatesTypeOK' /\ GoodBooks(books)
    BY InvBooks
  <1>00. UNCHANGED books => GoodBooks(books)'
    BY <1>0 DEF GoodBooks, SolventBooks
  <1>1. ASSUME NEW b \in Bank, NEW p \in Peer, NEW e \in Endpoint, RegisterNode(b, p, e)
        PROVE  PalletInv'
    <2>1. IsMap(ClearingBankNodes, Bank, [peer : Peer, endpoint : Endpoint])'
          /\ IsMap(NodePeerToInstitution, Peer, Bank)'
      BY <1>1 DEF RegisterNode, IsMap, Insert
    <2> QED BY <1>0, <1>00, <1>1, <2>1, InvAgain DEF RegisterNode, Idle
  <1>2. ASSUME NEW b \in Bank, NEW e \in Endpoint, UpdateEndpoint(b, e) PROVE PalletInv'
    <2>1. IsMap(ClearingBankNodes, Bank, [peer : Peer, endpoint : Endpoint])'
      BY <1>2 DEF UpdateEndpoint, IsMap
    <2> QED BY <1>0, <1>00, <1>2, <2>1, InvAgain DEF UpdateEndpoint, Idle
  <1>3. ASSUME NEW b \in Bank, UnregisterNode(b) PROVE PalletInv'
    <2>1. IsMap(ClearingBankNodes, Bank, [peer : Peer, endpoint : Endpoint])'
          /\ IsMap(NodePeerToInstitution, Peer, Bank)'
      BY <1>3 DEF UnregisterNode, PeersWithout, IsMap, Remove
    <2> QED BY <1>0, <1>00, <1>3, <2>1, InvAgain DEF UnregisterNode, Idle
  <1>4. ASSUME NEW u \in User, NEW b \in Bank, BindBank(u, b) PROVE PalletInv'
    <2>1. IsMap(UserBank, User, Bank)'
      BY <1>4 DEF BindBank, IsMap, Insert
    <2>2. GoodBooks(books)'
      BY <1>0, <1>4, BindGood DEF BindBank
    <2> QED BY <1>0, <1>4, <2>1, <2>2, InvAgain DEF BindBank, Idle
  <1>5. ASSUME NEW u \in User, NEW a \in Nat, Deposit(u, a) PROVE PalletInv'
    <2>1. UserBank[u] \in Bank
      BY <1>5 DEF Deposit, IsMap
    <2>2. GoodBooks(books)'
      BY <1>0, <1>5, <2>1, DepositGood DEF Deposit
    <2>3. wallet' \in [User -> Nat]
      BY <1>5, <2>1, PalletAssumption DEF Deposit, CanTransfer
    <2> QED BY <1>0, <1>5, <2>2, <2>3, InvAgain DEF Deposit, Idle
  <1>6. ASSUME NEW u \in User, NEW a \in Nat, Withdraw(u, a) PROVE PalletInv'
    <2>1. UserBank[u] \in Bank
      BY <1>6 DEF Withdraw, CanWithdraw, IsMap
    <2>3. books.clearing[UserBank[u]] - a >= 0
      BY <1>0, <1>6, <2>1, BooksFields, PalletAssumption
         DEF Withdraw, CanWithdraw, CanTransfer, GoodBooks
    <2>4. GoodBooks(books)'
      BY <1>0, <1>6, <2>1, <2>3, WithdrawGood DEF Withdraw
    <2>5. wallet' \in [User -> Nat]
      BY <1>6, <2>1 DEF Withdraw
    <2> QED BY <1>0, <1>6, <2>4, <2>5, InvAgain DEF Withdraw, Idle
  <1>7. ASSUME NEW u \in User, NEW b \in Bank, SwitchBank(u, b) PROVE PalletInv'
    <2>1. IsMap(UserBank, User, Bank)'
      BY <1>7 DEF SwitchBank, IsMap, Insert
    <2>2. GoodBooks(books)'
      BY <1>0, <1>7, BindGood DEF SwitchBank
    <2> QED BY <1>0, <1>7, <2>1, <2>2, InvAgain DEF SwitchBank, Idle
  <1>8. ASSUME NEW b \in Bank, NEW seq \in Nat, NEW items \in Seq(Payment),
               BatchBegin(b, seq, items)
        PROVE  PalletInv'
    <2>2. txn' \in Batch
      BY <1>0, <1>8 DEF BatchBegin, Batch, GoodBooks
    <2>3. GoodBooks(txn.saved)'
      BY <1>0, <1>8 DEF BatchBegin
    <2> QED BY <1>0, <1>00, <1>8, <2>2, <2>3, InvAgain DEF BatchBegin
  <1>9. ASSUME BatchItem PROVE PalletInv'
    <2>1. txn \in Batch /\ GoodBooks(txn.saved)
      BY <1>9, InvSaved DEF BatchItem
    <2>2. Head(txn.todo) \in Payment /\ Tail(txn.todo) \in Seq(Payment)
          /\ Append(txn.done, Head(txn.todo)) \in Seq(Payment)
          /\ txn.fees + Head(txn.todo).fee \in Nat
      <3>1. txn.todo \in Seq(Payment) /\ txn.todo # <<>> /\ txn.done \in Seq(Payment)
            /\ txn.fees \in Nat
        BY <1>9, <2>1 DEF BatchItem, Batch
      <3>2. Head(txn.todo) \in Payment /\ Tail(txn.todo) \in Seq(Payment)
        BY <3>1
      <3>3. Head(txn.todo).fee \in Nat
        BY <3>2 DEF Payment
      <3> QED BY <3>1, <3>2, <3>3
    <2>3. GoodBooks(books)'
      BY <1>0, <1>9, <2>2, ItemGood DEF BatchItem
    <2>4. txn' \in Batch /\ txn'.saved = txn.saved
      BY <1>9, <2>1, <2>2 DEF BatchItem, Batch
    <2>5. GoodBooks(txn.saved)'
      BY <2>1, <2>4 DEF GoodBooks, SolventBooks
    <2> QED BY <1>0, <1>9, <2>3, <2>4, <2>5, InvAgain DEF BatchItem
  <1>10. ASSUME BatchCommit PROVE PalletInv'
    <2>1. txn \in Batch
      BY <1>10, InvSaved DEF BatchCommit
    <2>2. GoodBooks(books)'
      BY <1>0, <1>10, <2>1, ChargeGood DEF BatchCommit
    <2>3. LastClearingBatchSeq' \in [Bank -> Nat]
      BY <1>10, <2>1 DEF BatchCommit, Batch
    <2> QED BY <1>0, <1>10, <2>2, <2>3, InvAgain DEF BatchCommit
  <1>11. ASSUME BatchRollback PROVE PalletInv'
    <2>1. GoodBooks(books)'
      BY <1>11, InvSaved DEF BatchRollback, Restored
    <2> QED BY <1>0, <1>11, <2>1, InvAgain DEF BatchRollback
  <1> QED BY <1>1, <1>2, <1>3, <1>4, <1>5, <1>6, <1>7, <1>8, <1>9, <1>10, <1>11
          DEF PalletMove

\* PalletInv is an invariant of the pallet.
LEMMA InvCorrect == Spec => []PalletInv
  <1>1. PalletInv /\ [Next]_vars => PalletInv'
    <2> SUFFICES ASSUME PalletInv, [Next]_vars PROVE PalletInv'
      OBVIOUS
    <2>1. CASE RateStep
      BY <2>1, RateStepInv
    <2>2. CASE PalletStep
      BY <2>2, PalletStepMoves, PalletMoveInv DEF PalletInv, TypeOK, RatesTypeOK, rateVars
    <2>3. CASE UNCHANGED vars
      BY <2>3 DEF vars, rateVars, palletVars, PalletInv, TypeOK, RatesTypeOK, Solvent,
                  SolventBooks, Idle
    <2> QED BY <2>1, <2>2, <2>3 DEF Next
  <1> QED BY InitInv, <1>1, PTL DEF Spec

\* The pallet keeps its types; in particular no balance becomes negative.
THEOREM PalletTypes == Spec => []TypeOK
  BY InvCorrect, PTL DEF PalletInv

\* At every point, in the middle of a batch and after a rollback too, each bank's
\* clearing account holds at least what its customers have deposited (solvency.rs).
THEOREM AlwaysSolvent == Spec => []Solvent
  BY InvCorrect, PTL DEF PalletInv

-------------------------------------------------------------------------------
(* Notice of rate changes.                                                    *)

\* An announcement falls due exactly one notice after it was made.
DatesKept ==
    \A b \in DOMAIN L2FeeRateProposed :
        L2FeeRateProposed[b].effective_at = announcedAt[b] + RateDelay

NoticeInv == PalletInv /\ DatesKept

\* One step keeps the dates and puts only announcements into force that are due.
LEMMA NoticeStep ==
    ASSUME NoticeInv, [Next]_vars
    PROVE  /\ DatesKept'
           /\ \A b \in Bank : L2FeeRateBp'[b] # L2FeeRateBp[b]
                                 => now' - announcedAt[b] >= RateDelay
  <1> USE RatesAssumption
  <1>0. RatesTypeOK
    BY DEF NoticeInv, PalletInv, TypeOK
  <1>1. ASSUME NEW b \in Bank, NEW rate \in RateChoice, ProposeRate(b, rate), UNCHANGED now
        PROVE  DatesKept' /\ UNCHANGED L2FeeRateBp
    BY <1>0, <1>1 DEF NoticeInv, DatesKept, ProposeRate, Announcement, Insert, RatesTypeOK, IsMap
  <1>2. ASSUME NEW max \in RateChoice, SetMaxRate(max) PROVE DatesKept' /\ UNCHANGED L2FeeRateBp
    BY <1>2 DEF NoticeInv, DatesKept, SetMaxRate
  <1>3. ASSUME ActivateRates
        PROVE  /\ DatesKept'
               /\ \A b \in Bank : L2FeeRateBp'[b] # L2FeeRateBp[b]
                                     => now' - announcedAt[b] >= RateDelay
    <2>1. PICK S \in SUBSET Due(now') :
             /\ L2FeeRateBp' = [b \in Bank |-> IF b \in S THEN L2FeeRateProposed[b].rate
                                               ELSE L2FeeRateBp[b]]
             /\ L2FeeRateProposed' = ProposalsLeft(S)
      BY <1>3 DEF ActivateRates, Collectable
    <2>2. DatesKept'
      BY <1>3, <2>1 DEF NoticeInv, DatesKept, ProposalsLeft, ActivateRates
    <2>3. ASSUME NEW b \in Bank, L2FeeRateBp'[b] # L2FeeRateBp[b]
          PROVE  now' - announcedAt[b] >= RateDelay
      <3>1. b \in S
        BY <2>1, <2>3 DEF RatesTypeOK
      <3>2. b \in DOMAIN L2FeeRateProposed /\ now' >= L2FeeRateProposed[b].effective_at
        BY <2>1, <3>1 DEF Due
      <3>3. now' \in Nat /\ announcedAt[b] \in Nat
        BY <1>0, <1>3 DEF RatesTypeOK, ActivateRates
      <3> QED BY <3>2, <3>3 DEF NoticeInv, DatesKept
    <2> QED BY <2>2, <2>3
  <1>4. ASSUME UNCHANGED <<now, rateVars>> PROVE DatesKept' /\ UNCHANGED L2FeeRateBp
    BY <1>4 DEF NoticeInv, DatesKept, rateVars
  <1> QED BY <1>1, <1>2, <1>3, <1>4 DEF Next, RateStep, PalletStep, vars

\* No rate comes into force sooner than RATE_CHANGE_DELAY_BLOCKS after the bank's latest
\* announcement (fee_config.rs), whatever the budget leaves over.
THEOREM NoticeIsGiven == Spec => NoticeGiven
  <1>1. Init => DatesKept
    BY DEF Init, DatesKept, EmptyMap
  <1>2. NoticeInv /\ [Next]_vars => DatesKept'
    BY NoticeStep
  <1>3. NoticeInv /\ [Next]_vars =>
           [\A b \in Bank : L2FeeRateBp'[b] # L2FeeRateBp[b]
                               => now' - announcedAt[b] >= RateDelay]_<<now, rateVars>>
    BY NoticeStep
  <1> QED BY <1>1, <1>2, <1>3, InvCorrect, PTL DEF Spec, NoticeInv, NoticeGiven

-------------------------------------------------------------------------------
(* Deposits stay with the customers' own banks.  Customers cannot move during *)
(* a batch, so what was checked of its items when it began still holds.       *)

OwnBankOnly(bk) ==
    \A b \in Bank, u \in User :
        bk.DepositBalance[b][u] > 0 => u \in DOMAIN UserBank /\ UserBank[u] = b

BoundAsSigned(p) ==
    /\ p.payer \in DOMAIN UserBank /\ UserBank[p.payer] = p.payerBank
    /\ p.recipient \in DOMAIN UserBank /\ UserBank[p.recipient] = p.recipientBank

OwnBankInv ==
    /\ PalletInv
    /\ DepositAtOwnBank
    /\ ~Idle => /\ OwnBankOnly(txn.saved)
                /\ \A i \in DOMAIN txn.todo : BoundAsSigned(txn.todo[i])

\* A payment moves money only between accounts its banks hold for the two customers.
LEMMA ItemOwnBank ==
    ASSUME GoodBooks(books), OwnBankOnly(books), NEW p \in Payment, BoundAsSigned(p)
    PROVE  OwnBankOnly(BooksAfter(p))
  <1>1. books.DepositBalance \in [Bank -> [User -> Nat]]
    BY BooksFields DEF GoodBooks
  <1>2. p.amount \in Nat /\ p.fee \in Nat
    BY DEF Payment
  <1>3. BooksAfter(p).DepositBalance = Paid(books.DepositBalance, p)
    BY DEF BooksAfter
  <1>4. ASSUME NEW b \in Bank, NEW u \in User, Paid(books.DepositBalance, p)[b][u] > 0
        PROVE  u \in DOMAIN UserBank /\ UserBank[u] = b
    BY <1>1, <1>2, <1>4 DEF Paid, OwnBankOnly, BoundAsSigned
  <1> QED BY <1>3, <1>4 DEF OwnBankOnly

\* The deposits a call leaves where they were.
LEMMA SameOwnBank ==
    ASSUME OwnBankOnly(books), UNCHANGED UserBank,
           books'.DepositBalance = books.DepositBalance
    PROVE  DepositAtOwnBank'
  BY DEF OwnBankOnly, DepositAtOwnBank

\* Between batches only a customer's own bank sees his deposits change.
LEMMA CallOwnBank ==
    ASSUME OwnBankInv, PalletMove, Idle, Idle'
    PROVE  DepositAtOwnBank'
  <1>0. GoodBooks(books) /\ OwnBankOnly(books) /\ IsMap(UserBank, User, Bank)
    BY InvBooks DEF OwnBankInv, DepositAtOwnBank, OwnBankOnly, PalletInv, TypeOK
  <1>1. books \in Books /\ books.DepositBalance \in [Bank -> [User -> Nat]]
    BY <1>0, BooksFields DEF GoodBooks
  <1>2. ASSUME NEW u \in User, NEW b \in Bank, BindBank(u, b) \/ SwitchBank(u, b)
        PROVE  DepositAtOwnBank'
    <2>1. UserBank' = Insert(UserBank, u, b)
          /\ books' = [books EXCEPT !.DepositBalance[b][u] = 0]
      BY <1>2 DEF BindBank, SwitchBank
    <2>2. books'.DepositBalance = [books.DepositBalance EXCEPT ![b][u] = 0]
      BY <1>1, <2>1 DEF Books
    <2>3. u \in DOMAIN UserBank => books.DepositBalance[UserBank[u]][u] = 0
      BY <1>2 DEF BindBank, SwitchBank, MaySwitch
    <2>4. ASSUME NEW c \in Bank, NEW v \in User, books'.DepositBalance[c][v] > 0
          PROVE  v \in DOMAIN UserBank' /\ UserBank'[v] = c
      <3>1. books.DepositBalance[c][v] > 0
        BY <1>1, <2>2, <2>4
      <3>2. v \in DOMAIN UserBank /\ UserBank[v] = c
        BY <1>0, <3>1 DEF OwnBankOnly
      <3>3. v # u
        BY <1>1, <2>3, <3>1, <3>2
      <3> QED BY <2>1, <3>2, <3>3 DEF Insert
    <2> QED BY <2>4 DEF DepositAtOwnBank
  <1>3. ASSUME NEW u \in User, NEW a, Deposit(u, a) \/ Withdraw(u, a), a \in Nat
        PROVE  DepositAtOwnBank'
    <2>0. u \in DOMAIN UserBank /\ UNCHANGED UserBank
      BY <1>3 DEF Deposit, Withdraw, CanWithdraw
    <2>1. \A c \in Bank, v \in User : c # UserBank[u] \/ v # u =>
             books'.DepositBalance[c][v] = books.DepositBalance[c][v]
      <3>1. CASE Deposit(u, a)
        <4>1. books'.DepositBalance = [books.DepositBalance EXCEPT ![UserBank[u]][u] = @ + a]
          BY <1>1, <3>1 DEF Deposit, Books
        <4> QED BY <1>1, <4>1
      <3>2. CASE Withdraw(u, a)
        <4>1. books'.DepositBalance = [books.DepositBalance EXCEPT ![UserBank[u]][u] = Less(@, a)]
          BY <1>1, <3>2 DEF Withdraw, Books
        <4> QED BY <1>1, <4>1
      <3> QED BY <1>3, <3>1, <3>2
    <2> QED BY <1>0, <2>0, <2>1 DEF DepositAtOwnBank, OwnBankOnly
  <1>4. ASSUME UNCHANGED <<UserBank, books>> PROVE DepositAtOwnBank'
    BY <1>0, <1>4, SameOwnBank
  <1>5. ~BatchItem /\ ~BatchCommit /\ ~BatchRollback
    BY DEF BatchItem, BatchCommit, BatchRollback
  <1>6. \A b \in Bank : \A seq, items : ~BatchBegin(b, seq, items)
    BY DEF BatchBegin, Idle, NoBatch
  <1> QED
    BY <1>2, <1>3, <1>4, <1>5, <1>6
       DEF PalletMove, RegisterNode, UpdateEndpoint, UnregisterNode

\* The steps of a batch.
LEMMA BatchOwnBank ==
    ASSUME OwnBankInv, PalletInv', PalletMove, ~Idle \/ ~Idle'
    PROVE  OwnBankInv'
  <1>0. GoodBooks(books) /\ OwnBankOnly(books)
    BY InvBooks DEF OwnBankInv, DepositAtOwnBank, OwnBankOnly
  <1>1. ASSUME NEW b \in Bank, NEW seq, NEW items, BatchBegin(b, seq, items)
        PROVE  OwnBankInv'
    <2>1. UNCHANGED <<UserBank, books>> /\ txn'.saved = books /\ txn'.todo = items
      BY <1>1 DEF BatchBegin
    <2>2. DepositAtOwnBank' /\ OwnBankOnly(txn.saved)'
      BY <1>0, <2>1 DEF DepositAtOwnBank, OwnBankOnly
    <2>3. \A i \in DOMAIN items : ItemAdmitted(items[i], b)
      BY <1>1 DEF BatchBegin, BatchAdmitted
    <2>4. (\A i \in DOMAIN txn.todo : BoundAsSigned(txn.todo[i]))'
      BY <2>1, <2>3 DEF ItemAdmitted, BoundAsSigned
    <2> QED BY <2>2, <2>4 DEF OwnBankInv
  <1>2. ASSUME BatchItem PROVE OwnBankInv'
    <2>1. txn \in Batch /\ ~Idle
      BY <1>2, InvSaved DEF BatchItem, OwnBankInv
    <2>2. txn.todo \in Seq(Payment) /\ txn.todo # <<>>
      BY <1>2, <2>1 DEF BatchItem, Batch
    <2>3. Head(txn.todo) \in Payment /\ BoundAsSigned(Head(txn.todo))
      BY <2>1, <2>2 DEF OwnBankInv
    <2>4. OwnBankOnly(BooksAfter(Head(txn.todo)))
      BY <1>0, <2>3, ItemOwnBank
    <2>5. UNCHANGED UserBank /\ books' = BooksAfter(Head(txn.todo))
      BY <1>2 DEF BatchItem
    <2>6. DepositAtOwnBank'
      BY <2>4, <2>5 DEF DepositAtOwnBank, OwnBankOnly
    <2>7. txn'.saved = txn.saved /\ txn'.todo = Tail(txn.todo)
      BY <1>2, <2>1 DEF BatchItem, Batch
    <2>8. OwnBankOnly(txn.saved)'
      BY <2>1, <2>5, <2>7 DEF OwnBankInv, OwnBankOnly
    <2>9. (\A i \in DOMAIN txn.todo : BoundAsSigned(txn.todo[i]))'
      <3> SUFFICES ASSUME NEW i \in DOMAIN txn'.todo PROVE BoundAsSigned(txn.todo[i])'
        OBVIOUS
      <3>1. i + 1 \in DOMAIN txn.todo /\ txn'.todo[i] = txn.todo[i + 1]
        BY <2>2, <2>7
      <3>2. BoundAsSigned(txn.todo[i + 1])
        BY <2>1, <3>1 DEF OwnBankInv
      <3> QED BY <2>5, <3>1, <3>2 DEF BoundAsSigned
    <2> QED BY <2>6, <2>8, <2>9 DEF OwnBankInv
  <1>3. ASSUME BatchCommit PROVE OwnBankInv'
    <2>1. books \in Books
      BY <1>0 DEF GoodBooks
    <2>2. UNCHANGED UserBank /\ books'.DepositBalance = books.DepositBalance
      BY <1>3, <2>1 DEF BatchCommit, Books
    <2> QED BY <1>0, <1>3, <2>2, SameOwnBank DEF BatchCommit, OwnBankInv, Idle
  <1>4. ASSUME BatchRollback PROVE OwnBankInv'
    BY <1>4 DEF BatchRollback, Restored, OwnBankInv, OwnBankOnly, DepositAtOwnBank, Idle
  <1>5. (Idle /\ txn' # txn) \/ ~Idle
    BY DEF Idle
  <1> QED
    BY <1>1, <1>2, <1>3, <1>4, <1>5
       DEF PalletMove, RegisterNode, UpdateEndpoint, UnregisterNode, BindBank, Deposit,
           Withdraw, SwitchBank

\* Every step.
LEMMA OwnBankStep ==
    ASSUME OwnBankInv, PalletInv', UNCHANGED palletVars \/ PalletMove
    PROVE  OwnBankInv'
  <1>1. CASE UNCHANGED palletVars
    BY <1>1 DEF palletVars, OwnBankInv, DepositAtOwnBank, Idle, OwnBankOnly, BoundAsSigned
  <1>2. CASE PalletMove /\ Idle /\ Idle'
    BY <1>2, CallOwnBank DEF OwnBankInv
  <1>3. CASE PalletMove /\ (~Idle \/ ~Idle')
    BY <1>3, BatchOwnBank
  <1> QED BY <1>1, <1>2, <1>3

\* OwnBankInv is an invariant of the pallet.
LEMMA OwnBankCorrect == Spec => []OwnBankInv
  <1>1. Init => DepositAtOwnBank /\ Idle
    BY DEF Init, DepositAtOwnBank, Idle
  <1>2. OwnBankInv /\ PalletInv' /\ [Next]_vars => OwnBankInv'
    <2> SUFFICES ASSUME OwnBankInv, PalletInv', [Next]_vars PROVE OwnBankInv'
      OBVIOUS
    <2>1. UNCHANGED palletVars \/ PalletMove
      BY PalletStepMoves DEF Next, RateStep, vars, OwnBankInv
    <2> QED BY <2>1, OwnBankStep
  <1> QED BY <1>1, <1>2, InitInv, InvCorrect, PTL DEF Spec, OwnBankInv

\* A customer has money only at the bank he is bound to, through any sequence of payments,
\* failed batches, withdrawals and changes of banks (deposit.rs, settlement.rs).
THEOREM DepositsStayHome == Spec => []DepositAtOwnBank
  BY OwnBankCorrect, PTL DEF OwnBankInv


-------------------------------------------------------------------------------
(* The books balance.                                                         *)

SumOver(F) == SumFunctionOnSet(F, User)

\* The totals of a bank are the sum of its deposits, and its reserve follows its totals.
BankBalanced(deposits, total, reserve) ==
    total = SumOver(deposits) /\ reserve = total + InitReserve

Balanced(bk) ==
    /\ \A b \in Bank :
          BankBalanced(bk.DepositBalance[b], bk.BankTotalDeposits[b], bk.clearing[b])
    /\ IsFiniteSet(bk.ProcessedOffchainTx)
    /\ SumOver(bk.L3PaymentNonce) = Cardinality(bk.ProcessedOffchainTx)

\* A balance is part of its bank's total.
LEMMA BalanceWithin ==
    ASSUME NEW F \in [User -> Nat], NEW u \in User
    PROVE  SumOver(F) \in Nat /\ F[u] =< SumOver(F)
  <1>1. IsFiniteSet(User) /\ IsFiniteSet(User \ {u})
    BY PalletAssumption, FS_Subset
  <1> DEFINE rest == SumFunctionOnSet(F, User \ {u})
             f == F[u]
  <1>2. SumOver(F) = f + rest
    BY <1>1, SumElement DEF SumOver
  <1>3. rest \in Nat /\ f \in Nat
    BY <1>1, SumType
  <1> HIDE DEF rest, f
  <1>4. SumOver(F) \in Nat /\ f =< SumOver(F)
    BY <1>2, <1>3
  <1> QED BY <1>4 DEF f

\* Changing one customer's entry changes the sum by as much.
LEMMA BalanceChange ==
    ASSUME NEW F \in [User -> Nat], NEW u \in User, NEW v \in Nat
    PROVE  SumOver([F EXCEPT ![u] = v]) = SumOver(F) + (v - F[u])
  <1> DEFINE G == [F EXCEPT ![u] = v]
  <1>1. /\ \A x \in User : F[x] \in Int /\ G[x] \in Int
        /\ \A x \in User \ {u} : F[x] = G[x]
        /\ G[u] = v
    OBVIOUS
  <1>2. IsFiniteSet(User)
    BY PalletAssumption
  <1> HIDE DEF G
  <1>3. SumOver(G) = SumOver(F) + (G[u] - F[u])
    BY <1>1, <1>2, SumUpdate DEF SumOver
  <1> QED BY <1>1, <1>3 DEF G

\* A bank's deposits once customer u has paid or got x.
PaidOut(F, u, x) == [F EXCEPT ![u] = Less(F[u], x)]
PaidIn(F, u, x) == [F EXCEPT ![u] = F[u] + x]

\* What paying and getting do to the sum of a bank's deposits.
LEMMA PaidSums ==
    ASSUME NEW F \in [User -> Nat], NEW u \in User, NEW x \in Nat
    PROVE  /\ PaidIn(F, u, x) \in [User -> Nat] /\ PaidOut(F, u, x) \in [User -> Nat]
           /\ SumOver(PaidIn(F, u, x)) = SumOver(F) + x
           /\ F[u] >= x => SumOver(PaidOut(F, u, x)) = SumOver(F) - x
           /\ \A v \in User \ {u} : PaidOut(F, u, x)[v] = F[v]
  <1> DEFINE f == F[u]
             in == f + x
             out == Less(f, x)
             sum == SumOver(F)
  <1>1. f \in Nat /\ sum \in Nat
    BY BalanceWithin
  <1>2. in \in Nat /\ out \in Nat /\ in - f = x /\ (f >= x => out - f = -x)
    <2> HIDE DEF f
    <2> QED BY <1>1 DEF Less
  <1>3. PaidIn(F, u, x) = [F EXCEPT ![u] = in] /\ PaidOut(F, u, x) = [F EXCEPT ![u] = out]
    BY DEF PaidIn, PaidOut
  <1> HIDE DEF in, out
  <1>4. /\ SumOver([F EXCEPT ![u] = in]) = SumOver(F) + (in - F[u])
        /\ SumOver([F EXCEPT ![u] = out]) = SumOver(F) + (out - F[u])
    BY <1>2, BalanceChange
  <1>5. /\ SumOver(PaidIn(F, u, x)) = sum + (in - f)
        /\ SumOver(PaidOut(F, u, x)) = sum + (out - f)
    BY <1>3, <1>4
  <1>6. PaidIn(F, u, x) \in [User -> Nat] /\ PaidOut(F, u, x) \in [User -> Nat]
        /\ \A v \in User \ {u} : PaidOut(F, u, x)[v] = F[v]
    BY <1>2, <1>3
  <1> HIDE DEF sum, f
  <1>7. SumOver(PaidIn(F, u, x)) = sum + x
    BY <1>2, <1>5
  <1>8. f >= x => SumOver(PaidOut(F, u, x)) = sum - x
    BY <1>1, <1>2, <1>5
  <1> QED BY <1>6, <1>7, <1>8 DEF sum, f

\* A bank whose customer gets x, from outside or from another bank.
LEMMA PaidInBalanced ==
    ASSUME NEW F \in [User -> Nat], NEW total \in Nat, NEW reserve \in Nat,
           BankBalanced(F, total, reserve), NEW u \in User, NEW x \in Nat
    PROVE  BankBalanced(PaidIn(F, u, x), total + x, reserve + x)
  BY PaidSums, PalletAssumption DEF BankBalanced

\* A bank whose customer pays x to outside or to another bank: the total holds his deposit,
\* so neither subtraction saturates.
LEMMA PaidOutBalanced ==
    ASSUME NEW F \in [User -> Nat], NEW total \in Nat, NEW reserve \in Nat,
           BankBalanced(F, total, reserve), NEW u \in User, NEW x \in Nat, F[u] >= x
    PROVE  BankBalanced(PaidOut(F, u, x), Less(total, x), reserve - x)
  <1>1. SumOver(PaidOut(F, u, x)) = SumOver(F) - x
    BY PaidSums
  <1>2. F[u] =< total /\ F[u] \in Nat
    BY BalanceWithin DEF BankBalanced
  <1>3. Less(total, x) = total - x
    BY <1>2 DEF Less
  <1> QED BY <1>1, <1>3, PalletAssumption DEF BankBalanced

\* A payment between two customers of one bank: only the fee leaves it.
LEMMA PaidWithinBalanced ==
    ASSUME NEW F \in [User -> Nat], NEW total \in Nat, NEW reserve \in Nat,
           BankBalanced(F, total, reserve), NEW u \in User, NEW v \in User, u # v,
           NEW amount \in Nat, NEW fee \in Nat, F[u] >= amount + fee
    PROVE  BankBalanced(PaidIn(PaidOut(F, u, amount + fee), v, amount),
                        Less(total, fee), reserve - fee)
  <1> DEFINE G == PaidOut(F, u, amount + fee)
  <1>1. G \in [User -> Nat] /\ SumOver(G) = SumOver(F) - (amount + fee)
    BY PaidSums
  <1>2. F[u] =< total /\ F[u] \in Nat
    BY BalanceWithin DEF BankBalanced
  <1> HIDE DEF G
  <1>3. SumOver(PaidIn(G, v, amount)) = SumOver(G) + amount
    BY <1>1, PaidSums
  <1>4. Less(total, fee) = total - fee
    BY <1>2 DEF Less
  <1>5. SumOver(PaidIn(G, v, amount)) = total - fee
    BY <1>1, <1>3 DEF BankBalanced
  <1>6. BankBalanced(PaidIn(G, v, amount), Less(total, fee), reserve - fee)
    BY <1>4, <1>5, PalletAssumption DEF BankBalanced
  <1> QED BY <1>6 DEF G

\* execute_single_item keeps the books balanced.
LEMMA ItemBalanced ==
    ASSUME GoodBooks(books), Balanced(books), NEW p \in Payment, CanExecute(p),
           p.payer # p.recipient
    PROVE  Balanced(BooksAfter(p))
  <1>1. books \in Books
    BY DEF GoodBooks
  <1>2. /\ p.payer \in User /\ p.recipient \in User /\ p.payerBank \in Bank
        /\ p.recipientBank \in Bank /\ p.amount \in Nat /\ p.fee \in Nat /\ p.nonce \in Nat
    BY DEF Payment
  <1>3. books.DepositBalance[p.payerBank][p.payer] >= p.amount + p.fee
    BY DEF CanExecute
  <1>4. ASSUME NEW b \in Bank
        PROVE  BankBalanced(Paid(books.DepositBalance, p)[b],
                            TotalsAfter(books.BankTotalDeposits, p)[b],
                            ClearingAfter(books.clearing, p)[b])
    <2> DEFINE F == books.DepositBalance[b]
               t == books.BankTotalDeposits[b]
               c == books.clearing[b]
               x == p.amount + p.fee
    <2>1. F \in [User -> Nat] /\ t \in Nat /\ c \in Nat
      BY <1>1, BooksFields
    <2>2. BankBalanced(F, t, c)
      BY DEF Balanced
    <2>3. CASE b = p.payerBank /\ SameBank(p)
      <3>1. Paid(books.DepositBalance, p)[b] = PaidIn(PaidOut(F, p.payer, x), p.recipient, p.amount)
        BY <1>2, <2>1, <2>3 DEF Paid, SameBank, PaidIn, PaidOut
      <3>2. TotalsAfter(books.BankTotalDeposits, p)[b] = Less(t, p.fee)
            /\ ClearingAfter(books.clearing, p)[b] = c - p.fee
        BY <2>3 DEF TotalsAfter, ClearingAfter, Debit
      <3>3. F[p.payer] >= p.amount + p.fee
        BY <1>3, <2>3
      <3> HIDE DEF F, t, c
      <3> QED BY <1>2, <2>1, <2>2, <3>1, <3>2, <3>3, PaidWithinBalanced
    <2>4. CASE b = p.payerBank /\ ~SameBank(p)
      <3>1. Paid(books.DepositBalance, p)[b] = PaidOut(F, p.payer, x)
        BY <1>2, <2>1, <2>4 DEF Paid, SameBank, PaidOut
      <3>2. TotalsAfter(books.BankTotalDeposits, p)[b] = Less(t, p.amount + p.fee)
            /\ ClearingAfter(books.clearing, p)[b] = c - (p.amount + p.fee)
        BY <2>4 DEF TotalsAfter, ClearingAfter, Debit
      <3>3. F[p.payer] >= p.amount + p.fee
        BY <1>3, <2>4
      <3> HIDE DEF F, t, c
      <3> QED BY <1>2, <2>1, <2>2, <3>1, <3>2, <3>3, PaidOutBalanced
    <2>5. CASE b # p.payerBank /\ b = p.recipientBank
      <3>1. Paid(books.DepositBalance, p)[b] = PaidIn(F, p.recipient, p.amount)
        BY <1>2, <2>1, <2>5 DEF Paid, PaidIn
      <3>2. TotalsAfter(books.BankTotalDeposits, p)[b] = t + p.amount
            /\ ClearingAfter(books.clearing, p)[b] = c + p.amount
        BY <2>5 DEF TotalsAfter, ClearingAfter
      <3> HIDE DEF F, t, c
      <3> QED BY <1>2, <2>1, <2>2, <3>1, <3>2, PaidInBalanced
    <2>6. CASE b # p.payerBank /\ b # p.recipientBank
      <3>1. Paid(books.DepositBalance, p)[b] = F
        BY <2>1, <2>6 DEF Paid
      <3>2. TotalsAfter(books.BankTotalDeposits, p)[b] = t
            /\ ClearingAfter(books.clearing, p)[b] = c
        BY <2>6 DEF TotalsAfter, ClearingAfter
      <3> QED BY <2>2, <3>1, <3>2
    <2> QED BY <2>3, <2>4, <2>5, <2>6
  <1> DEFINE M == books.ProcessedOffchainTx
             mark == <<Province[p.payerBank], p.tx>>
             N == books.L3PaymentNonce
  <1>5. mark \notin M /\ p.nonce = N[p.payer] + 1 /\ N \in [User -> Nat] /\ IsFiniteSet(M)
        /\ SumOver(N) = Cardinality(M)
    BY <1>1, BooksFields DEF CanExecute, Balanced
  <1>6. IsFiniteSet(M \cup {mark}) /\ Cardinality(M \cup {mark}) = Cardinality(M) + 1
        /\ Cardinality(M) \in Nat
    BY <1>5, FS_AddElement, FS_CardinalityType
  <1>7. SumOver([N EXCEPT ![p.payer] = p.nonce]) = Cardinality(M \cup {mark})
    <2>1. SumOver([N EXCEPT ![p.payer] = p.nonce]) = SumOver(N) + (p.nonce - N[p.payer])
      BY <1>2, <1>5, BalanceChange
    <2> DEFINE n == N[p.payer]
               k == p.nonce
    <2>2. k = n + 1 /\ n \in Nat
      BY <1>2, <1>5
    <2> HIDE DEF n, k, N, M, mark
    <2>3. k - n = 1
      BY <2>2
    <2> QED BY <1>5, <1>6, <2>1, <2>3 DEF n, k
  <1>8. /\ BooksAfter(p).DepositBalance = Paid(books.DepositBalance, p)
        /\ BooksAfter(p).BankTotalDeposits = TotalsAfter(books.BankTotalDeposits, p)
        /\ BooksAfter(p).clearing = ClearingAfter(books.clearing, p)
        /\ BooksAfter(p).L3PaymentNonce = [N EXCEPT ![p.payer] = p.nonce]
        /\ BooksAfter(p).ProcessedOffchainTx = M \cup {mark}
    BY DEF BooksAfter, MarksAfter
  <1> HIDE DEF M, N, mark
  <1> QED BY <1>4, <1>6, <1>7, <1>8 DEF Balanced


\* The books after one bank's figures changed.
LEMMA OneBankBalanced ==
    ASSUME NEW bk \in Books, NEW new, Balanced(bk), NEW b \in Bank, NEW F, NEW total, NEW reserve,
           BankBalanced(F, total, reserve),
           new.DepositBalance = [bk.DepositBalance EXCEPT ![b] = F],
           new.BankTotalDeposits = [bk.BankTotalDeposits EXCEPT ![b] = total],
           new.clearing = [bk.clearing EXCEPT ![b] = reserve],
           new.L3PaymentNonce = bk.L3PaymentNonce,
           new.ProcessedOffchainTx = bk.ProcessedOffchainTx
    PROVE  Balanced(new)
  <1>1. ASSUME NEW c \in Bank
        PROVE  BankBalanced(new.DepositBalance[c], new.BankTotalDeposits[c], new.clearing[c])
    <2>1. CASE c = b
      BY <2>1, BooksFields
    <2>2. CASE c # b
      BY <2>2, BooksFields DEF Balanced
    <2> QED BY <2>1, <2>2
  <1> QED BY <1>1 DEF Balanced

BalanceInv ==
    /\ OwnBankInv
    /\ Balanced(books)
    /\ ~Idle => /\ Balanced(txn.saved)
                /\ \A i \in DOMAIN txn.todo : txn.todo[i].payer # txn.todo[i].recipient

\* do_bind and do_switch_bank write a zero that is there already: a customer has no deposit
\* at a bank he is not bound to.
LEMMA BindBalanced ==
    ASSUME BalanceInv, NEW u \in User, NEW b \in Bank, BindBank(u, b) \/ SwitchBank(u, b)
    PROVE  Balanced(books)'
  <1>1. books \in Books /\ books.DepositBalance \in [Bank -> [User -> Nat]]
    BY InvBooks, BooksFields DEF BalanceInv, OwnBankInv, GoodBooks
  <1>2. books' = [books EXCEPT !.DepositBalance[b][u] = 0]
    BY DEF BindBank, SwitchBank
  <1>3. books.DepositBalance[b][u] = 0
    <2>1. ~(u \in DOMAIN UserBank /\ UserBank[u] = b)
      BY DEF BindBank, SwitchBank, MaySwitch
    <2>2. ~(books.DepositBalance[b][u] > 0)
      BY <2>1 DEF BalanceInv, OwnBankInv, DepositAtOwnBank
    <2> QED BY <1>1, <2>2
  <1>4. books'.DepositBalance = [books.DepositBalance EXCEPT ![b][u] = 0]
    BY <1>1, <1>2 DEF Books
  <1>5. books'.DepositBalance = books.DepositBalance
    BY <1>1, <1>3, <1>4
  <1>6. /\ books'.BankTotalDeposits = books.BankTotalDeposits
        /\ books'.clearing = books.clearing /\ books'.L3PaymentNonce = books.L3PaymentNonce
        /\ books'.ProcessedOffchainTx = books.ProcessedOffchainTx
    BY <1>1, <1>2 DEF Books
  <1>7. Balanced(books)
    BY DEF BalanceInv
  <1> QED BY <1>5, <1>6, <1>7 DEF Balanced

\* do_deposit and do_withdraw.
LEMMA CashBalanced ==
    ASSUME BalanceInv, NEW u \in User, NEW a \in Nat, Deposit(u, a) \/ Withdraw(u, a)
    PROVE  Balanced(books)'
  <1>1. /\ books \in Books /\ books.DepositBalance \in [Bank -> [User -> Nat]]
        /\ books.BankTotalDeposits \in [Bank -> Nat] /\ books.clearing \in [Bank -> Nat]
        /\ Balanced(books)
    BY InvBooks, BooksFields DEF BalanceInv, OwnBankInv, GoodBooks
  <1>2. u \in DOMAIN UserBank /\ UserBank[u] \in Bank
    BY DEF Deposit, Withdraw, CanWithdraw, BalanceInv, OwnBankInv, PalletInv, TypeOK, IsMap
  <1> DEFINE b == UserBank[u]
             F == books.DepositBalance[b]
             total == books.BankTotalDeposits[b]
             reserve == books.clearing[b]
  <1>3. F \in [User -> Nat] /\ total \in Nat /\ reserve \in Nat /\ BankBalanced(F, total, reserve)
    BY <1>1, <1>2 DEF Balanced
  <1>4. CASE Deposit(u, a)
    <2>1. books' = [books EXCEPT !.clearing[b] = @ + a, !.DepositBalance[b][u] = @ + a,
                                 !.BankTotalDeposits[b] = @ + a]
      BY <1>4 DEF Deposit
    <2>2. /\ books'.DepositBalance = [books.DepositBalance EXCEPT ![b] = PaidIn(F, u, a)]
          /\ books'.BankTotalDeposits = [books.BankTotalDeposits EXCEPT ![b] = total + a]
          /\ books'.clearing = [books.clearing EXCEPT ![b] = reserve + a]
          /\ books'.L3PaymentNonce = books.L3PaymentNonce
          /\ books'.ProcessedOffchainTx = books.ProcessedOffchainTx
      BY <1>1, <1>2, <2>1 DEF PaidIn, Books
    <2>3. BankBalanced(PaidIn(F, u, a), total + a, reserve + a)
      <3> HIDE DEF F, total, reserve
      <3> QED BY <1>3, PaidInBalanced
    <2> HIDE DEF F, total, reserve
    <2> QED BY <1>1, <1>2, <2>2, <2>3, OneBankBalanced DEF Balanced
  <1>5. CASE Withdraw(u, a)
    <2>1. books' = [books EXCEPT !.clearing[b] = @ - a, !.DepositBalance[b][u] = Less(@, a),
                                 !.BankTotalDeposits[b] = Less(@, a)]
      BY <1>5 DEF Withdraw
    <2>2. /\ books'.DepositBalance = [books.DepositBalance EXCEPT ![b] = PaidOut(F, u, a)]
          /\ books'.BankTotalDeposits = [books.BankTotalDeposits EXCEPT ![b] = Less(total, a)]
          /\ books'.clearing = [books.clearing EXCEPT ![b] = reserve - a]
          /\ books'.L3PaymentNonce = books.L3PaymentNonce
          /\ books'.ProcessedOffchainTx = books.ProcessedOffchainTx
      BY <1>1, <1>2, <2>1 DEF PaidOut, Books
    <2>3. F[u] >= a
      BY <1>5 DEF Withdraw, CanWithdraw
    <2>4. BankBalanced(PaidOut(F, u, a), Less(total, a), reserve - a)
      <3> HIDE DEF F, total, reserve
      <3> QED BY <1>3, <2>3, PaidOutBalanced
    <2> HIDE DEF F, total, reserve
    <2> QED BY <1>1, <1>2, <2>2, <2>4, OneBankBalanced DEF Balanced
  <1> QED BY <1>4, <1>5

\* Every step of the pallet keeps the books balanced, and those a rollback would restore.
LEMMA StepBalanced ==
    ASSUME BalanceInv, OwnBankInv', UNCHANGED palletVars \/ PalletMove
    PROVE  BalanceInv'
  <1>0. GoodBooks(books) /\ Balanced(books) /\ OwnBankInv /\ PalletInv
    BY InvBooks DEF BalanceInv, OwnBankInv
  <1>1. ASSUME Balanced(books)', UNCHANGED txn PROVE BalanceInv'
    BY <1>1 DEF BalanceInv, Idle, Balanced
  <1>2. ASSUME UNCHANGED palletVars \/ UNCHANGED <<books, txn>> PROVE BalanceInv'
    BY <1>0, <1>1, <1>2 DEF Balanced, palletVars
  <1>3. ASSUME NEW u \in User, NEW b \in Bank, BindBank(u, b) \/ SwitchBank(u, b)
        PROVE  BalanceInv'
    BY <1>1, <1>3, BindBalanced DEF BindBank, SwitchBank
  <1>4. ASSUME NEW u \in User, NEW a, Deposit(u, a) \/ Withdraw(u, a), a \in Nat
        PROVE  BalanceInv'
    BY <1>1, <1>4, CashBalanced DEF Deposit, Withdraw
  <1>5. ASSUME NEW b \in Bank, NEW seq, NEW items, BatchBegin(b, seq, items)
        PROVE  BalanceInv'
    <2>1. UNCHANGED books /\ txn'.saved = books /\ txn'.todo = items
      BY <1>5 DEF BatchBegin
    <2>2. \A i \in DOMAIN items : items[i].payer # items[i].recipient
      BY <1>5 DEF BatchBegin, BatchAdmitted, ItemAdmitted
    <2> QED BY <1>0, <2>1, <2>2 DEF BalanceInv, Balanced
  <1>6. ASSUME BatchItem PROVE BalanceInv'
    <2>1. txn \in Batch /\ ~Idle
      BY <1>0, <1>6, InvSaved DEF BatchItem
    <2>2. txn.todo \in Seq(Payment) /\ txn.todo # <<>>
      BY <1>6, <2>1 DEF BatchItem, Batch
    <2>3. Head(txn.todo) \in Payment /\ Head(txn.todo).payer # Head(txn.todo).recipient
      BY <2>1, <2>2 DEF BalanceInv
    <2>4. books' = BooksAfter(Head(txn.todo)) /\ CanExecute(Head(txn.todo))
      BY <1>6 DEF BatchItem
    <2>5. Balanced(books)'
      BY <1>0, <2>3, <2>4, ItemBalanced
    <2>6. txn'.saved = txn.saved /\ txn'.todo = Tail(txn.todo)
      BY <1>6, <2>1 DEF BatchItem, Batch
    <2>7. Balanced(txn.saved)'
      BY <2>1, <2>6 DEF BalanceInv, Balanced
    <2>8. (\A i \in DOMAIN txn.todo : txn.todo[i].payer # txn.todo[i].recipient)'
      <3> SUFFICES ASSUME NEW i \in DOMAIN txn'.todo
                   PROVE  txn'.todo[i].payer # txn'.todo[i].recipient
        OBVIOUS
      <3>1. i + 1 \in DOMAIN txn.todo /\ txn'.todo[i] = txn.todo[i + 1]
        BY <2>2, <2>6
      <3> QED BY <2>1, <3>1 DEF BalanceInv
    <2> QED BY <2>5, <2>7, <2>8 DEF BalanceInv
  <1>7. ASSUME BatchCommit PROVE BalanceInv'
    <2>1. books \in Books
      BY <1>0 DEF GoodBooks
    <2>2. /\ books'.DepositBalance = books.DepositBalance
          /\ books'.BankTotalDeposits = books.BankTotalDeposits
          /\ books'.clearing = books.clearing /\ books'.L3PaymentNonce = books.L3PaymentNonce
          /\ books'.ProcessedOffchainTx = books.ProcessedOffchainTx
      BY <1>7, <2>1 DEF BatchCommit, Books
    <2>3. Balanced(books)'
      BY <1>0, <2>2 DEF Balanced
    <2> QED BY <1>7, <2>3 DEF BatchCommit, BalanceInv, Idle
  <1>8. ASSUME BatchRollback PROVE BalanceInv'
    BY <1>8 DEF BatchRollback, Restored, BalanceInv, Balanced, Idle
  <1> QED
    BY <1>2, <1>3, <1>4, <1>5, <1>6, <1>7, <1>8
       DEF PalletMove, RegisterNode, UpdateEndpoint, UnregisterNode

\* Init
LEMMA InitBalanced == Init => Balanced(books) /\ Idle
  <1> SUFFICES ASSUME Init PROVE Balanced(books) /\ Idle
    OBVIOUS
  <1> DEFINE zero == [u \in User |-> 0]
  <1>1. SumOver(zero) = 0
    BY SumZero, PalletAssumption DEF SumOver
  <1>2. /\ \A b \in Bank : books.DepositBalance[b] = zero /\ books.BankTotalDeposits[b] = 0
                           /\ books.clearing[b] = InitReserve
        /\ books.L3PaymentNonce = zero /\ books.ProcessedOffchainTx = {}
    BY DEF Init
  <1>3. Idle
    BY DEF Init, Idle
  <1> HIDE DEF zero
  <1> QED BY <1>1, <1>2, <1>3, FS_EmptySet, PalletAssumption DEF Balanced, BankBalanced

\* The invariant gives the property.
LEMMA BalanceGives == BalanceInv => BooksBalance
  <1> SUFFICES ASSUME BalanceInv PROVE BooksBalance
    OBVIOUS
  <1>1. books.DepositBalance \in [Bank -> [User -> Nat]] /\ books.L3PaymentNonce \in [User -> Nat]
    BY InvBooks, BooksFields DEF BalanceInv, OwnBankInv, GoodBooks
  <1>2. ASSUME NEW F \in [User -> Nat] PROVE FoldFunction(+, 0, F) = SumOver(F)
    <2>1. DOMAIN F = User
      OBVIOUS
    <2> QED BY <2>1 DEF FoldFunction, SumOver, SumFunctionOnSet
  <1>3. DepositsAddUp
    BY <1>1, <1>2 DEF DepositsAddUp, BalanceInv, Balanced, BankBalanced
  <1>4. PaymentsAccounted
    BY <1>1, <1>2 DEF PaymentsAccounted, BalanceInv, Balanced
  <1>5. SurplusKept
    BY DEF SurplusKept, BalanceInv, Balanced, BankBalanced
  <1> QED BY <1>3, <1>4, <1>5 DEF BooksBalance

\* The books balance, for any banks, customers and payments: reserve and total of a bank move
\* together, the total is the sum of its customers' deposits, and every settled payment has
\* used one nonce and left one mark against replay - after failed batches too.
THEOREM BooksAlwaysBalance == Spec => []BooksBalance
  <1>1. BalanceInv /\ OwnBankInv' /\ [Next]_vars => BalanceInv'
    <2> SUFFICES ASSUME BalanceInv, OwnBankInv', [Next]_vars PROVE BalanceInv'
      OBVIOUS
    <2>1. UNCHANGED palletVars \/ PalletMove
      BY PalletStepMoves DEF Next, RateStep, vars, BalanceInv, OwnBankInv
    <2> QED BY <2>1, StepBalanced
  <1> QED BY <1>1, BalanceGives, InitBalanced, OwnBankCorrect, PTL DEF Spec, BalanceInv


-------------------------------------------------------------------------------
(* The node beside the chain: what its ledger, its queues and its batches are *)
(* made of.                                                                   *)

\* An account of the ledger, a payment the node has acknowledged, an event of the chain.
L3State == [confirmed : Nat, pending_debit : Nat, cached_nonce : Nat]
Ledger == [User -> L3State]
Acknowledged == {p \in Payment : p.nonce > 0}
CashEvent == [kind : {"Deposited", "Withdrawn"}, user : User, bank : Bank, amount : Nat]
PaymentEvent == [kind : {"PaymentSettled"}, item : Payment]
Event == CashEvent \cup PaymentEvent

\* A batch the packer is working on.
Round == [seq : Nat, items : Seq(Acknowledged), block : Nat]

NodeTypeOK ==
    /\ accounts \in Ledger
    /\ pending \in Seq(Acknowledged)
    /\ pool \subseteq [seq : Nat, items : Seq(Acknowledged)]
    /\ batch_seq_counter \in Nat
    /\ packing = NoRound \/ packing \in Round
    /\ inbox \in Seq(Event)
    /\ acknowledged \subseteq TxId

\* The largest of finitely many natural numbers is one of them.
LEMMA LargestNat ==
    ASSUME NEW S, IsFiniteSet(S), S \subseteq Nat, S # {}
    PROVE  SX!Max(S) \in S
  <1>1. \E m \in S : \A y \in S : m >= y
    BY LargestElement
  <1> QED BY <1>1 DEF SX!Max

\* query_next_nonce tells a natural number above zero.
LEMMA NextNonceNat ==
    ASSUME NodeTypeOK, GoodBooks(books), NEW u \in User
    PROVE  QueryNextNonce(u) \in Nat /\ QueryNextNonce(u) > 0
  <1> DEFINE I == PendingOf(u)
             N == {pending[i].nonce : i \in I}
             M == {0} \cup N
  <1>1. I \in SUBSET (1..Len(pending)) /\ Len(pending) \in Int /\ 1 \in Int
    BY DEF PendingOf, NodeTypeOK
  <1>2. IsFiniteSet(I)
    <2>1. IsFiniteSet(1..Len(pending))
      BY <1>1, FS_Interval
    <2> QED BY <1>1, <2>1, FS_Subset
  <1>3. N \subseteq Nat
    <2>1. \A i \in 1..Len(pending) : pending[i] \in Acknowledged
      BY DEF NodeTypeOK
    <2> QED BY <1>1, <2>1 DEF Acknowledged, Payment
  <1>4. IsFiniteSet(N)
    <2> HIDE DEF I
    <2>1. [i \in I |-> pending[i].nonce] \in Surjection(I, N)
      BY DEF Surjection
    <2> QED BY <1>2, <2>1, FS_Surjection
  <1>5. SX!Max(M) \in Nat
    <2> HIDE DEF N
    <2>1. IsFiniteSet(M)
      BY <1>4, FS_AddElement, FS_Singleton, FS_Union
    <2>2. M \subseteq Nat /\ M # {}
      BY <1>3
    <2> HIDE DEF M
    <2> QED BY <2>1, <2>2, LargestNat
  <1>6. LargestNonce(u) \in Nat
    BY <1>5 DEF LargestNonce
  <1>7. accounts[u].cached_nonce \in Nat /\ books.L3PaymentNonce[u] \in Nat
    BY BooksFields DEF NodeTypeOK, Ledger, L3State, GoodBooks
  <1> QED BY <1>6, <1>7 DEF QueryNextNonce, Larger

\* Writing one account of the ledger.
LEMMA LedgerUpdate ==
    ASSUME NEW acc \in Ledger, NEW u \in User, NEW c \in Nat, NEW d \in Nat, NEW n \in Nat
    PROVE  LET one == [confirmed |-> c, pending_debit |-> d, cached_nonce |-> n]
               new == [acc EXCEPT ![u] = one]
           IN  /\ new \in Ledger /\ new[u] = one
               /\ \A w \in User : w # u => new[w] = acc[w]
  BY DEF Ledger, L3State

\* What an account of the ledger is made of.
LEMMA AccountFields ==
    ASSUME NEW acc \in Ledger, NEW u \in User
    PROVE  /\ acc[u].confirmed \in Nat /\ acc[u].pending_debit \in Nat
           /\ acc[u].cached_nonce \in Nat
           /\ acc[u] = [confirmed |-> acc[u].confirmed, pending_debit |-> acc[u].pending_debit,
                        cached_nonce |-> acc[u].cached_nonce]
  BY DEF Ledger, L3State

\* An account with another debit pending and another nonce.
Redebited(acc, u, d, n) == [acc EXCEPT ![u].pending_debit = d, ![u].cached_nonce = n]

\* Acknowledging and rejecting payments leaves the confirmed balances alone.
LEMMA DebitPending ==
    ASSUME NEW acc \in Ledger, NEW u \in User, NEW d \in Nat, NEW n \in Nat
    PROVE  /\ Redebited(acc, u, d, n) \in Ledger
           /\ \A w \in User : Redebited(acc, u, d, n)[w].confirmed = acc[w].confirmed
  <1> DEFINE new == [acc EXCEPT ![u].pending_debit = d, ![u].cached_nonce = n]
             one == [confirmed |-> acc[u].confirmed, pending_debit |-> d, cached_nonce |-> n]
  <1>1. acc[u].confirmed \in Nat /\ acc[u] \in L3State
    BY DEF Ledger, L3State
  <1>2. new = [acc EXCEPT ![u] = one]
    <2>0. ASSUME NEW s \in L3State
          PROVE  [[s EXCEPT !.pending_debit = d] EXCEPT !.cached_nonce = n] =
                    [confirmed |-> s.confirmed, pending_debit |-> d, cached_nonce |-> n]
      <3> DEFINE t == [s EXCEPT !.pending_debit = d]
                 r == [t EXCEPT !.cached_nonce = n]
      <3>1. t \in L3State /\ t.confirmed = s.confirmed /\ t.pending_debit = d
        BY DEF L3State
      <3> HIDE DEF t
      <3>2. r \in L3State /\ r.confirmed = t.confirmed /\ r.pending_debit = t.pending_debit
            /\ r.cached_nonce = n
        BY <3>1 DEF L3State
      <3> HIDE DEF r
      <3>3. r = [confirmed |-> s.confirmed, pending_debit |-> d, cached_nonce |-> n]
        BY <3>1, <3>2 DEF L3State
      <3> QED BY <3>3 DEF r, t
    <2>1. [[acc[u] EXCEPT !.pending_debit = d] EXCEPT !.cached_nonce = n] = one
      BY <1>1, <2>0
    <2> HIDE DEF one
    <2> QED BY <2>1 DEF Ledger
  <1>3. [acc EXCEPT ![u] = one] \in Ledger
    BY <1>1, LedgerUpdate
  <1>4. \A w \in User : [acc EXCEPT ![u] = one][w].confirmed = acc[w].confirmed
    BY <1>1, LedgerUpdate
  <1> QED BY <1>2, <1>3, <1>4 DEF Redebited

\* What an event of the chain makes of a customer's confirmed balance.
Credited(c, u, ev) ==
    IF ev.kind = "PaymentSettled"
    THEN IF u = ev.item.payer /\ ev.item.payerBank = MyBank THEN Less(c, Total(ev.item))
         ELSE IF u = ev.item.recipient /\ ev.item.recipientBank = MyBank
         THEN c + ev.item.amount ELSE c
    ELSE IF u # ev.user \/ ev.bank # MyBank THEN c
    ELSE IF ev.kind = "Deposited" THEN c + ev.amount ELSE Less(c, ev.amount)

\* The ledger after an event of the chain.
LEMMA AppliedLedger ==
    ASSUME NEW acc \in Ledger, NEW ev \in Event
    PROVE  /\ Applied(acc, ev) \in Ledger
           /\ \A u \in User : Applied(acc, ev)[u].confirmed = Credited(acc[u].confirmed, u, ev)
  <1> DEFINE Goal(new) == /\ new \in Ledger
                          /\ \A u \in User : new[u].confirmed = Credited(acc[u].confirmed, u, ev)
  <1>1. CASE ev \in CashEvent
    <2>1. ev.user \in User /\ ev.bank \in Bank /\ ev.amount \in Nat
          /\ ev.kind \in {"Deposited", "Withdrawn"}
      BY <1>1 DEF CashEvent
    <2>2. acc[ev.user] \in L3State /\ acc[ev.user].confirmed \in Nat
      BY <2>1 DEF Ledger, L3State
    <2>3. ASSUME NEW c \in Nat
          PROVE  /\ [acc EXCEPT ![ev.user].confirmed = c] \in Ledger
                 /\ [acc EXCEPT ![ev.user].confirmed = c][ev.user].confirmed = c
                 /\ \A u \in User : u # ev.user
                       => [acc EXCEPT ![ev.user].confirmed = c][u] = acc[u]
      <3> DEFINE one == [acc[ev.user] EXCEPT !.confirmed = c]
      <3>1. one \in L3State /\ one.confirmed = c
        BY <2>2 DEF L3State
      <3> HIDE DEF one
      <3>2. [acc EXCEPT ![ev.user] = one] \in Ledger
            /\ [acc EXCEPT ![ev.user] = one][ev.user] = one
            /\ \A u \in User : u # ev.user => [acc EXCEPT ![ev.user] = one][u] = acc[u]
        BY <2>1, <3>1 DEF Ledger
      <3> QED BY <3>1, <3>2 DEF one
    <2>4. CASE ev.bank # MyBank
      <3>1. Applied(acc, ev) = acc
        BY <2>1, <2>4 DEF Applied, Concerns
      <3> QED BY <2>1, <2>4, <3>1 DEF Credited
    <2>5. CASE ev.bank = MyBank /\ ev.kind = "Deposited"
      <3> DEFINE c == acc[ev.user].confirmed + ev.amount
      <3>1. c \in Nat
        BY <2>1, <2>2
      <3>2. Applied(acc, ev) = [acc EXCEPT ![ev.user].confirmed = c]
        BY <2>5 DEF Applied, Concerns
      <3>3. \A u \in User : Credited(acc[u].confirmed, u, ev) =
                               IF u = ev.user THEN c ELSE acc[u].confirmed
        BY <2>5 DEF Credited
      <3> DEFINE new == [acc EXCEPT ![ev.user].confirmed = c]
      <3> HIDE DEF c
      <3>4. new \in Ledger /\ new[ev.user].confirmed = c
            /\ \A u \in User : u # ev.user => new[u] = acc[u]
        BY <2>3, <3>1
      <3>5. Applied(acc, ev) = new
        BY <3>2
      <3> HIDE DEF new
      <3> QED BY <2>1, <3>3, <3>4, <3>5
    <2>6. CASE ev.bank = MyBank /\ ev.kind = "Withdrawn"
      <3> DEFINE c == Less(acc[ev.user].confirmed, ev.amount)
      <3>1. c \in Nat
        BY <2>1, <2>2, LessNat
      <3>2. Applied(acc, ev) = [acc EXCEPT ![ev.user].confirmed = c]
        BY <2>6 DEF Applied, Concerns
      <3>3. \A u \in User : Credited(acc[u].confirmed, u, ev) =
                               IF u = ev.user THEN c ELSE acc[u].confirmed
        BY <2>6 DEF Credited
      <3> DEFINE new == [acc EXCEPT ![ev.user].confirmed = c]
      <3> HIDE DEF c
      <3>4. new \in Ledger /\ new[ev.user].confirmed = c
            /\ \A u \in User : u # ev.user => new[u] = acc[u]
        BY <2>3, <3>1
      <3>5. Applied(acc, ev) = new
        BY <3>2
      <3> HIDE DEF new
      <3> QED BY <2>1, <3>3, <3>4, <3>5
    <2> QED BY <2>1, <2>4, <2>5, <2>6
  <1>2. CASE ev \in PaymentEvent
    <2>1. ev.kind = "PaymentSettled" /\ ev.item \in Payment
      BY <1>2 DEF PaymentEvent
    <2> DEFINE p == ev.item
    <2>2. p.amount \in Nat /\ Total(p) \in Nat
      BY <2>1 DEF Payment, Total
    <2>3. ~Concerns(ev) => Applied(acc, ev) = acc
      BY <2>1 DEF Applied
    <2>4. Concerns(ev) => Applied(acc, ev) = Settle(acc, p)
      BY <2>1 DEF Applied
    <2>5. CASE ~Concerns(ev)
      BY <2>1, <2>3, <2>5 DEF Concerns, Credited
    <2>6. ASSUME NEW u \in User
          PROVE  /\ Settle(acc, p)[u] \in L3State
                 /\ Settle(acc, p)[u].confirmed = Credited(acc[u].confirmed, u, ev)
      <3>1. acc[u] \in L3State /\ acc[u].confirmed \in Nat /\ acc[u].pending_debit \in Nat
        BY DEF Ledger, L3State
      <3>2. CASE u = p.payer /\ p.payerBank = MyBank
        <4> DEFINE c == Less(acc[u].confirmed, Total(p))
                   d == Less(acc[u].pending_debit, Total(p))
        <4>1. c \in Nat /\ d \in Nat
          BY <2>2, <3>1, LessNat
        <4>2. Settle(acc, p)[u] = [acc[u] EXCEPT !.pending_debit = d, !.confirmed = c]
          BY <3>2 DEF Settle
        <4>3. Credited(acc[u].confirmed, u, ev) = c
          BY <2>1, <3>2 DEF Credited
        <4> HIDE DEF c, d
        <4> QED BY <3>1, <4>1, <4>2, <4>3 DEF L3State
      <3>3. CASE /\ ~(u = p.payer /\ p.payerBank = MyBank)
                 /\ u = p.recipient /\ p.recipientBank = MyBank
        <4> DEFINE c == acc[u].confirmed + p.amount
        <4>1. c \in Nat
          BY <2>2, <3>1
        <4>2. Settle(acc, p)[u] = [acc[u] EXCEPT !.confirmed = c]
          BY <3>3 DEF Settle
        <4>3. Credited(acc[u].confirmed, u, ev) = c
          BY <2>1, <3>3 DEF Credited
        <4> HIDE DEF c
        <4> QED BY <3>1, <4>1, <4>2, <4>3 DEF L3State
      <3>4. CASE /\ ~(u = p.payer /\ p.payerBank = MyBank)
                 /\ ~(u = p.recipient /\ p.recipientBank = MyBank)
        BY <2>1, <3>1, <3>4 DEF Settle, Credited
      <3> QED BY <3>2, <3>3, <3>4
    <2>7. Settle(acc, p) \in Ledger
      BY <2>6 DEF Ledger, Settle
    <2> QED BY <2>4, <2>5, <2>6, <2>7
  <1> QED BY <1>1, <1>2 DEF Event

\* Two ledgers with the same confirmed balances.
SameConfirmed(x, y) ==
    x \in Ledger /\ y \in Ledger /\ \A u \in User : x[u].confirmed = y[u].confirmed

\* The ledger's two parts while a batch is rolled back.
LedgerState == [accounts : Ledger, pending : Seq(Acknowledged)]

\* Some payment of sequence s has id t.
Holds(s, t) == \E i \in DOMAIN s : s[i].tx = t

\* Rolling back payments with the ids of c leaves the confirmed balances and the payments
\* with other ids.
Rolled(x, c) ==
    /\ x \in LedgerState
    /\ SameConfirmed(x.accounts, c.accounts)
    /\ \A t \in TxId \ c.ids : Holds(c.pending, t) => Holds(x.pending, t)

Events == INSTANCE FoldLemmas WITH Op <- Applied, Rel <- SameConfirmed
Rejections == INSTANCE FoldLemmas WITH Op <- RejectPending, Rel <- Rolled
Retained == INSTANCE FoldLemmas WITH Op <- Retain, Rel <- Holds

\* reject_pending leaves the confirmed balances alone.
LEMMA RejectedLedger ==
    ASSUME NEW acc, NEW c, SameConfirmed(acc, c), NEW p \in Acknowledged
    PROVE  SameConfirmed(Rejected(acc, p), c)
  <1>1. acc \in Ledger /\ p.payer \in User /\ Total(p) \in Nat /\ p.nonce \in Nat /\ p.nonce > 0
    BY DEF SameConfirmed, Acknowledged, Payment, Total
  <1>2. CASE acc[p.payer].pending_debit < Total(p)
    BY <1>2 DEF Rejected
  <1>3. CASE ~(acc[p.payer].pending_debit < Total(p))
    <2> DEFINE d == acc[p.payer].pending_debit - Total(p)
               k == acc[p.payer].cached_nonce
               n == IF k = p.nonce THEN k - 1 ELSE k
               new == Redebited(acc, p.payer, d, n)
    <2>1. acc[p.payer].pending_debit \in Nat /\ k \in Nat
      BY <1>1, AccountFields
    <2>2. d \in Nat /\ n \in Nat
      BY <1>1, <1>3, <2>1
    <2>3. Rejected(acc, p) = new
      <3>1. acc[p.payer].cached_nonce = [acc EXCEPT ![p.payer].pending_debit = d][p.payer].cached_nonce
        BY <1>1 DEF Ledger, L3State
      <3> QED BY <1>3, <3>1 DEF Rejected, Redebited
    <2> HIDE DEF d, k, n
    <2>4. new \in Ledger /\ \A w \in User : new[w].confirmed = acc[w].confirmed
      BY <1>1, <2>2, DebitPending
    <2> HIDE DEF new
    <2> QED BY <2>3, <2>4 DEF SameConfirmed
  <1> QED BY <1>2, <1>3

\* A sequence without one of its elements.
LEMMA RemovedOne ==
    ASSUME NEW S, NEW s \in Seq(S), NEW i \in DOMAIN s
    PROVE  /\ SX!RemoveAt(s, i) \in Seq(S)
           /\ \A j \in DOMAIN s : j # i
                 => \E k \in DOMAIN SX!RemoveAt(s, i) : SX!RemoveAt(s, i)[k] = s[j]
  <1> DEFINE n == Len(s)
             a == SubSeq(s, 1, i - 1)
             z == SubSeq(s, i + 1, n)
             r == a \o z
  <1>1. n \in Nat /\ i \in 1..n /\ DOMAIN s = 1..n
    OBVIOUS
  <1>2. a \in Seq(S) /\ Len(a) = i - 1 /\ \A k \in 1..(i - 1) : a[k] = s[k]
    BY <1>1
  <1>3. z \in Seq(S) /\ Len(z) = n - i /\ \A k \in 1..(n - i) : z[k] = s[i + k]
    BY <1>1
  <1> HIDE DEF n, a, z
  <1>4. r \in Seq(S) /\ Len(r) = n - 1 /\ DOMAIN r = 1..(n - 1)
    <2>0. a \in Seq(S) /\ z \in Seq(S)
      BY <1>2, <1>3
    <2>1. r \in Seq(S) /\ Len(r) = Len(a) + Len(z)
      BY <2>0
    <2>2. Len(a) + Len(z) = n - 1
      BY <1>1, <1>2, <1>3
    <2> HIDE DEF r
    <2> QED BY <2>1, <2>2
  <1>5. ASSUME NEW j \in DOMAIN s, j # i PROVE \E k \in DOMAIN r : r[k] = s[j]
    <2>1. CASE j < i
      <3>1. j \in 1..(i - 1) /\ j \in DOMAIN r
        BY <1>1, <1>4, <2>1
      <3>2. r[j] = s[j]
        BY <1>1, <1>2, <1>3, <3>1
      <3> QED BY <3>1, <3>2
    <2>2. CASE j > i
      <3> DEFINE k == j - 1
      <3>1. k \in DOMAIN r /\ k > i - 1 /\ k - (i - 1) = j - i /\ j - i \in 1..(n - i)
        BY <1>1, <1>4, <2>2
      <3>2. r[k] = z[j - i]
        BY <1>1, <1>2, <1>3, <3>1
      <3>3. z[j - i] = s[i + (j - i)]
        BY <1>3, <3>1
      <3>4. i + (j - i) = j
        BY <1>1, <1>5
      <3> QED BY <3>1, <3>2, <3>3, <3>4
    <2> QED BY <1>1, <1>5, <2>1, <2>2
  <1> QED BY <1>4, <1>5 DEF SX!RemoveAt, r, a, z, n

\* reject_pending of a payment with one of the ids.
LEMMA RejectedOne ==
    ASSUME NEW x, NEW c, Rolled(x, c), NEW e \in Acknowledged, e.tx \in c.ids
    PROVE  Rolled(RejectPending(x, e), c)
  <1> DEFINE found == {i \in DOMAIN x.pending : x.pending[i].tx = e.tx}
             pos == CHOOSE i \in found : \A j \in found : i =< j
             q == SX!RemoveAt(x.pending, pos)
             acc == Rejected(x.accounts, x.pending[pos])
  <1>1. x.pending \in Seq(Acknowledged) /\ x.accounts \in Ledger
        /\ SameConfirmed(x.accounts, c.accounts)
    BY DEF Rolled, LedgerState
  <1>2. CASE found = {}
    BY <1>2 DEF RejectPending
  <1>3. CASE found # {}
    <2>1. pos \in DOMAIN x.pending /\ x.pending[pos].tx = e.tx
      <3>1. found \in SUBSET Nat
        BY <1>1
      <3> HIDE DEF found
      <3>2. \E i \in found : \A j \in found : i =< j
        BY <1>3, <3>1, LeastNat
      <3>3. pos \in found
        BY <3>2
      <3> QED BY <3>3 DEF found
    <2>2. RejectPending(x, e) = [accounts |-> acc, pending |-> q]
      BY <1>3 DEF RejectPending
    <2> HIDE DEF found, pos
    <2>3. x.pending[pos] \in Acknowledged
      BY <1>1, <2>1
    <2>4. SameConfirmed(acc, c.accounts)
      BY <1>1, <2>3, RejectedLedger
    <2>5. q \in Seq(Acknowledged)
      BY <1>1, <2>1, RemovedOne
    <2>6. ASSUME NEW t \in TxId \ c.ids, Holds(c.pending, t) PROVE Holds(q, t)
      <3>1. PICK j \in DOMAIN x.pending : x.pending[j].tx = t
        BY <2>6 DEF Rolled, Holds
      <3>2. j # pos
        BY <2>1, <2>6, <3>1
      <3>3. PICK k \in DOMAIN q : q[k] = x.pending[j]
        BY <1>1, <2>1, <3>1, <3>2, RemovedOne
      <3> QED BY <3>1, <3>3 DEF Holds
    <2> HIDE DEF acc, q
    <2>7. acc \in Ledger
      BY <2>4 DEF SameConfirmed
    <2> QED BY <2>2, <2>4, <2>5, <2>6, <2>7 DEF Rolled, LedgerState
  <1> QED BY <1>2, <1>3

\* The ids of a batch.
Ids(items) == {items[i].tx : i \in DOMAIN items}

\* A failed submission leaves the confirmed balances and the other payments alone.
LEMMA RollbackLedger ==
    ASSUME accounts \in Ledger, pending \in Seq(Acknowledged), packing.items \in Seq(Acknowledged)
    PROVE  Rolled(RolledBack, [accounts |-> accounts, pending |-> pending,
                               ids |-> Ids(packing.items)])
  <1> DEFINE b == [accounts |-> accounts, pending |-> pending]
             c == [accounts |-> accounts, pending |-> pending, ids |-> Ids(packing.items)]
             S == {e \in Acknowledged : e.tx \in c.ids}
  <1>1. Rolled(b, c)
    BY DEF Rolled, LedgerState, SameConfirmed
  <1>2. packing.items \in Seq(S)
    <2>1. \A i \in 1..Len(packing.items) : packing.items[i] \in S
      BY DEF Ids
    <2> HIDE DEF S
    <2> QED BY <2>1
  <1>3. \A x, e : e \in S /\ Rolled(x, c) => Rolled(RejectPending(x, e), c)
    <2> HIDE DEF c
    <2> QED BY RejectedOne
  <1> HIDE DEF c, S
  <1>4. Rolled(Rejections!Fold(b, packing.items), c)
    BY <1>1, <1>2, <1>3, Rejections!FoldKeeps
  <1>5. RolledBack = Rejections!Fold(b, packing.items)
    BY DEF RolledBack, Rejections!Fold, SX!FoldLeft, Rejections!SX!FoldLeft,
           SX!Max, Rejections!SX!Max, SX!MapThenFoldSet, Rejections!SX!MapThenFoldSet
  <1> QED BY <1>4, <1>5 DEF c

\* What on_payment_settled keeps of the pending payments: all with other ids.
LEMMA RetainedQueue ==
    ASSUME pending \in Seq(Acknowledged)
    PROVE  LET kept == SX!FoldLeft(Retain, <<>>, pending)
           IN  /\ kept \in Seq(Acknowledged)
               /\ \A t : t # Head(inbox).item.tx /\ Holds(pending, t) => Holds(kept, t)
  <1> DEFINE X == Seq(Acknowledged)
             kept == SX!FoldLeft(Retain, <<>>, pending)
  <1>1. <<>> \in X
    OBVIOUS
  <1>2. \A x, e : x \in X /\ e \in Acknowledged => Retain(x, e) \in X
    BY DEF Retain
  <1>3. kept = Retained!Fold(<<>>, pending)
    BY DEF Retained!Fold, SX!FoldLeft, Retained!SX!FoldLeft,
           SX!Max, Retained!SX!Max, SX!MapThenFoldSet, Retained!SX!MapThenFoldSet
  <1>4. kept \in X
    <2> HIDE DEF X, kept
    <2> QED BY <1>1, <1>2, <1>3, Retained!FoldStays
  <1>5. ASSUME NEW t, t # Head(inbox).item.tx, Holds(pending, t) PROVE Holds(kept, t)
    <2>1. PICK i \in 1..Len(pending) : pending[i].tx = t
      BY <1>5 DEF Holds
    <2>2. \A x, e : x \in X /\ e \in Acknowledged /\ Holds(x, t) => Holds(Retain(x, e), t)
      <3> SUFFICES ASSUME NEW x \in X, NEW e \in Acknowledged, Holds(x, t)
                   PROVE  Holds(Append(x, e), t)
        BY DEF Retain
      <3>1. PICK k \in DOMAIN x : x[k].tx = t
        BY DEF Holds
      <3>2. k \in DOMAIN Append(x, e) /\ Append(x, e)[k] = x[k]
        BY <3>1
      <3> QED BY <3>1, <3>2 DEF Holds
    <2>3. \A x : x \in X => Holds(Retain(x, pending[i]), t)
      <3> SUFFICES ASSUME NEW x \in X PROVE Holds(Append(x, pending[i]), t)
        BY <1>5, <2>1 DEF Retain
      <3>1. pending[i] \in Acknowledged
        BY <2>1
      <3>2. Len(x) + 1 \in DOMAIN Append(x, pending[i])
            /\ Append(x, pending[i])[Len(x) + 1] = pending[i]
        BY <3>1
      <3> QED BY <2>1, <3>2 DEF Holds
    <2> HIDE DEF X, kept
    <2> QED BY <1>1, <1>2, <1>3, <2>1, <2>2, <2>3, Retained!FoldCollects
  <1> QED BY <1>4, <1>5

\* What submit_payment makes of the node's state.
LEMMA SubmitTypes ==
    ASSUME NodeTypeOK, TypeOK, GoodBooks(books),
           NEW u \in User, NEW v \in User, NEW a \in Amount, NEW t \in TxId,
           SubmitPayment(u, v, a, t)
    PROVE  NodeTypeOK' /\ SameConfirmed(accounts', accounts)
  <1> DEFINE p == [tx |-> t, payer |-> u, payerBank |-> UserBank[u],
                   recipient |-> v, recipientBank |-> UserBank[v],
                   amount |-> a, fee |-> CalcFee(a, L2FeeRateBp[MyBank]),
                   nonce |-> QueryNextNonce(u), expires |-> now + Validity]
             d == accounts[u].pending_debit + Total(p)
  <1>1. /\ pending' = Append(pending, p)
        /\ accounts' = IF SameBank(p)
                       THEN [accounts EXCEPT ![u].pending_debit = @ + Total(p),
                                             ![u].cached_nonce = p.nonce]
                       ELSE accounts
        /\ {u, v} \subseteq DOMAIN UserBank /\ acknowledged' = acknowledged \cup {t}
        /\ UNCHANGED <<batch_seq_counter, packing, pool, inbox>>
    BY DEF SubmitPayment, packerVars
  <1>2. UserBank[u] \in Bank /\ UserBank[v] \in Bank
    BY <1>1 DEF TypeOK, IsMap
  <1>3. a \in Nat /\ CalcFee(a, L2FeeRateBp[MyBank]) \in Nat /\ now + Validity \in Nat
    <2>1. a \in Nat /\ Validity \in Nat /\ MyBank \in Bank
      BY PalletAssumption, NodeAssumption
    <2>2. now \in Nat /\ L2FeeRateBp[MyBank] \in Nat
      BY <2>1 DEF TypeOK, RatesTypeOK
    <2>3. CalcFee(a, L2FeeRateBp[MyBank]) \in Nat
      BY <2>1, <2>2, CalcFeeNat
    <2>4. now + Validity \in Nat
      BY <2>1, <2>2
    <2> QED BY <2>1, <2>3, <2>4
  <1>4. QueryNextNonce(u) \in Nat /\ QueryNextNonce(u) > 0
    BY NextNonceNat
  <1>5. p \in Acknowledged
    BY <1>2, <1>3, <1>4 DEF Acknowledged, Payment
  <1>6. p.nonce \in Nat /\ Total(p) \in Nat
    BY <1>3, <1>4 DEF Total
  <1> HIDE DEF p
  <1>7. accounts \in Ledger /\ d \in Nat
    <2>1. accounts \in Ledger
      BY DEF NodeTypeOK
    <2>2. accounts[u].pending_debit \in Nat
      BY <2>1, AccountFields
    <2> QED BY <1>6, <2>1, <2>2
  <1>8. accounts' = IF SameBank(p) THEN Redebited(accounts, u, d, p.nonce) ELSE accounts
    BY <1>1 DEF Redebited
  <1> HIDE DEF d
  <1>9. SameConfirmed(accounts', accounts)
    <2>1. SameConfirmed(Redebited(accounts, u, d, p.nonce), accounts)
      BY <1>6, <1>7, DebitPending DEF SameConfirmed
    <2> QED BY <1>7, <1>8, <2>1 DEF SameConfirmed
  <1>10. pending' \in Seq(Acknowledged)
    BY <1>1, <1>5 DEF NodeTypeOK
  <1> QED BY <1>1, <1>9, <1>10 DEF NodeTypeOK, SameConfirmed

\* What handling the next event makes of the node's state.
LEMMA HandleTypes ==
    ASSUME NodeTypeOK, HandleEvent
    PROVE  NodeTypeOK'
  <1>1. inbox \in Seq(Event) /\ inbox # <<>> /\ accounts \in Ledger
        /\ pending \in Seq(Acknowledged)
    BY DEF NodeTypeOK, HandleEvent
  <1>2. Head(inbox) \in Event /\ Tail(inbox) \in Seq(Event)
    BY <1>1
  <1>3. accounts' \in Ledger
    BY <1>1, <1>2, AppliedLedger DEF HandleEvent
  <1>4. pending' \in Seq(Acknowledged)
    BY <1>1, RetainedQueue DEF HandleEvent
  <1> QED BY <1>2, <1>3, <1>4 DEF HandleEvent, NodeTypeOK, packerVars, historyVars

\* A submission that fails.
LEMMA FailTypes ==
    ASSUME NodeTypeOK, PackFails
    PROVE  /\ NodeTypeOK' /\ SameConfirmed(accounts', accounts)
           /\ \A t \in acknowledged' : Holds(pending, t) => Holds(pending', t)
  <1>1. accounts \in Ledger /\ pending \in Seq(Acknowledged)
        /\ packing.items \in Seq(Acknowledged)
    BY DEF NodeTypeOK, PackFails, Round
  <1>2. Rolled(RolledBack, [accounts |-> accounts, pending |-> pending,
                            ids |-> Ids(packing.items)])
    BY <1>1, RollbackLedger
  <1>3. /\ RolledBack \in LedgerState /\ SameConfirmed(RolledBack.accounts, accounts)
        /\ \A t \in TxId \ Ids(packing.items) : Holds(pending, t) => Holds(RolledBack.pending, t)
    BY <1>2 DEF Rolled
  <1>4. accounts' = RolledBack.accounts /\ pending' = RolledBack.pending /\ packing' = NoRound
        /\ acknowledged' = acknowledged \ Ids(packing.items)
        /\ UNCHANGED <<batch_seq_counter, pool, inbox>>
    BY DEF PackFails, Ids
  <1>5. acknowledged' \subseteq TxId \ Ids(packing.items)
    BY <1>4 DEF NodeTypeOK
  <1>6. accounts' \in Ledger /\ pending' \in Seq(Acknowledged)
    BY <1>3, <1>4 DEF LedgerState
  <1> QED BY <1>3, <1>4, <1>5, <1>6 DEF NodeTypeOK

\* What the packer makes of the node's state.
LEMMA PackTypes ==
    ASSUME NodeTypeOK, RatesTypeOK, PackBegins \/ PackSubmits \/ PackFails
    PROVE  NodeTypeOK' /\ SameConfirmed(accounts', accounts) /\ UNCHANGED <<inbox, missed>>
  <1>0. accounts \in Ledger /\ pending \in Seq(Acknowledged) /\ NextBatchSeq \in Nat
        /\ now \in Nat
    BY DEF NodeTypeOK, NextBatchSeq, RatesTypeOK
  <1>1. ToPack \in Seq(Acknowledged)
    <2> DEFINE n == IF Len(pending) =< PackTx THEN Len(pending) ELSE PackTx
    <2>1. n \in 0..Len(pending) /\ Len(pending) \in Nat /\ PackTx \in Nat
      BY <1>0, NodeAssumption
    <2> HIDE DEF n
    <2>2. SubSeq(pending, 1, n) \in Seq(Acknowledged)
      BY <1>0, <2>1
    <2> QED BY <2>2 DEF ToPack, n
  <1>2. CASE PackBegins
    <2>1. packing' \in Round /\ batch_seq_counter' \in Nat
      BY <1>0, <1>1, <1>2 DEF PackBegins, Round
    <2> QED BY <1>0, <1>2, <2>1 DEF PackBegins, NodeTypeOK, SameConfirmed, historyVars
  <1>3. CASE PackSubmits
    <2>1. pool' \subseteq [seq : Nat, items : Seq(Acknowledged)]
      BY <1>3 DEF PackSubmits, NodeTypeOK, Round
    <2> QED BY <1>0, <1>3, <2>1
            DEF PackSubmits, PendingOnceSubmitted, NodeTypeOK, SameConfirmed, historyVars
  <1>4. CASE PackFails
    BY <1>4, FailTypes DEF PackFails
  <1> QED BY <1>2, <1>3, <1>4

\* The events of a batch.
LEMMA SettledTypes ==
    ASSUME PalletInv, ~Idle
    PROVE  SettledEvents \in Seq(Event) /\ Len(SettledEvents) = Len(txn.done)
  <1>1. txn.done \in Seq(Payment)
    BY InvSaved DEF Batch
  <1>2. \A i \in DOMAIN txn.done : [kind |-> "PaymentSettled", item |-> txn.done[i]] \in Event
    BY <1>1 DEF Event, PaymentEvent
  <1>3. Len(txn.done) \in Nat /\ DOMAIN txn.done = 1..Len(txn.done)
    BY <1>1
  <1>4. SettledEvents \in [1..Len(txn.done) -> Event]
    BY <1>2, <1>3 DEF SettledEvents
  <1> QED BY <1>3, <1>4

\* The calls of customers and the events they leave.
LEMMA CashTypes ==
    ASSUME NodeTypeOK, PalletInv, NEW u \in User, NEW a \in Nat,
           DepositCall(u, a) \/ WithdrawCall(u, a)
    PROVE  /\ PalletMove /\ NodeTypeOK'
           /\ inbox' \in {Append(inbox, [kind |-> k, user |-> u, bank |-> UserBank[u],
                                         amount |-> a]) : k \in {"Deposited", "Withdrawn"}}
  <1>1. UserBank[u] \in Bank
    BY DEF DepositCall, WithdrawCall, Deposit, Withdraw, CanWithdraw, PalletInv, TypeOK, IsMap
  <1>2. \A k \in {"Deposited", "Withdrawn"} :
           [kind |-> k, user |-> u, bank |-> UserBank[u], amount |-> a] \in Event
    BY <1>1 DEF Event, CashEvent
  <1>3. \A e \in Event : inbox \o <<e>> = Append(inbox, e) /\ Append(inbox, e) \in Seq(Event)
    BY DEF NodeTypeOK
  <1>4. inbox' \in {Append(inbox, [kind |-> k, user |-> u, bank |-> UserBank[u],
                                   amount |-> a]) : k \in {"Deposited", "Withdrawn"}}
    BY <1>2, <1>3 DEF DepositCall, WithdrawCall, Emit
  <1>5. UNCHANGED <<accounts, pending, batch_seq_counter, packing, pool, acknowledged>>
    BY DEF DepositCall, WithdrawCall, Quiet, packerVars, historyVars
  <1>6. PalletMove
    BY DEF DepositCall, WithdrawCall, PalletMove
  <1> QED BY <1>2, <1>3, <1>4, <1>5, <1>6 DEF NodeTypeOK

\* A batch begins in the pallet with the payments the node or another bank put in it.
LEMMA BatchTypes ==
    ASSUME NodeTypeOK, PalletInv,
           \/ \E b \in Bank \ {MyBank} : \E p \in Items(b) : OtherBankBatch(b, p)
           \/ \E e \in pool : IncludeBatch(e)
    PROVE  /\ \/ UNCHANGED palletVars
              \/ \E b \in Bank, seq \in Nat, items \in Seq(Payment) : BatchBegin(b, seq, items)
           /\ NodeTypeOK' /\ UNCHANGED <<accounts, inbox, missed>>
  <1>0. TypeOK /\ LastClearingBatchSeq \in [Bank -> Nat] /\ MyBank \in Bank
    BY NodeAssumption DEF PalletInv, TypeOK
  <1>1. ASSUME NEW b \in Bank, NEW p \in Items(b), OtherBankBatch(b, p)
        PROVE  /\ \E c \in Bank, seq \in Nat, items \in Seq(Payment) : BatchBegin(c, seq, items)
               /\ NodeTypeOK' /\ UNCHANGED <<accounts, inbox, missed>>
    <2>1. p \in Payment /\ LastClearingBatchSeq[b] + 1 \in Nat
      BY <1>0, ItemsArePayments
    <2>2. <<p>> \in Seq(Payment)
      BY <2>1
    <2>3. UNCHANGED <<accounts, pending, batch_seq_counter, packing, pool, inbox, acknowledged,
                      missed>>
      BY <1>1 DEF OtherBankBatch, Quiet, packerVars, historyVars
    <2> QED BY <1>1, <2>1, <2>2, <2>3 DEF OtherBankBatch, NodeTypeOK
  <1>2. ASSUME NEW e \in pool, IncludeBatch(e)
        PROVE  /\ \/ UNCHANGED palletVars
                  \/ \E c \in Bank, seq \in Nat, items \in Seq(Payment) : BatchBegin(c, seq, items)
               /\ NodeTypeOK' /\ UNCHANGED <<accounts, inbox, missed>>
    <2>1. e.seq \in Nat /\ e.items \in Seq(Acknowledged)
      BY DEF NodeTypeOK
    <2>2. e.items \in Seq(Payment)
      <3>1. Acknowledged \subseteq Payment
        BY DEF Acknowledged
      <3> HIDE DEF Acknowledged
      <3> QED BY <2>1, <3>1
    <2>3. UNCHANGED <<accounts, pending, batch_seq_counter, packing, inbox, acknowledged, missed>>
          /\ pool' \subseteq pool
      BY <1>2 DEF IncludeBatch, packerVars, historyVars
    <2>4. NodeTypeOK'
      BY <2>3 DEF NodeTypeOK
    <2> QED BY <1>0, <1>2, <2>1, <2>2, <2>3, <2>4 DEF IncludeBatch
  <1> QED BY <1>1, <1>2

\* The steps of a batch under way.
LEMMA BatchStepTypes ==
    ASSUME NodeTypeOK, PalletInv, BatchStep
    PROVE  PalletMove /\ NodeTypeOK'
  <1>1. PalletMove
    BY DEF BatchStep, PalletMove
  <1>2. inbox' \in Seq(Event)
    <2>1. CASE BatchCommit /\ Emit(SettledEvents)
      <3>1. SettledEvents \in Seq(Event)
        BY <2>1, SettledTypes DEF BatchCommit
      <3> HIDE DEF SettledEvents
      <3> QED BY <2>1, <3>1 DEF Emit, NodeTypeOK
    <2> QED BY <2>1 DEF BatchStep, NodeTypeOK
  <1>3. UNCHANGED <<accounts, pending, batch_seq_counter, packing, pool, acknowledged>>
    BY DEF BatchStep, Quiet, packerVars, historyVars
  <1> QED BY <1>1, <1>2, <1>3 DEF NodeTypeOK

\* Every step of the node and the chain keeps the types, and to the pallet it is one of its
\* moves or none.
LEMMA NodeStepTypes ==
    ASSUME NodeTypeOK, PalletInv, [NodeNext]_allVars
    PROVE  NodeTypeOK' /\ RatesTypeOK' /\ (UNCHANGED palletVars \/ PalletMove)
  <1>0. TypeOK /\ RatesTypeOK /\ GoodBooks(books)
        /\ books.DepositBalance \in [Bank -> [User -> Nat]]
    BY InvBooks, BooksFields DEF PalletInv, TypeOK, GoodBooks
  <1>1. UNCHANGED <<now, rateVars>> => RatesTypeOK'
    BY <1>0 DEF RatesTypeOK, rateVars
  <1>2. CASE UNCHANGED allVars
    BY <1>1, <1>2 DEF allVars, vars, nodeVars, palletVars, packerVars, historyVars, NodeTypeOK
  <1>3. CASE \E u \in User, a \in Amount : DepositCall(u, a)
    BY <1>1, <1>3, CashTypes, PalletAssumption DEF DepositCall
  <1>4. CASE \E u \in DOMAIN UserBank :
                \E a \in Amount \cup {books.DepositBalance[UserBank[u]][u]} : WithdrawCall(u, a)
    <2>0. PICK u \in DOMAIN UserBank :
             \E a \in Amount \cup {books.DepositBalance[UserBank[u]][u]} : WithdrawCall(u, a)
      BY <1>4
    <2>1. PICK a \in Amount \cup {books.DepositBalance[UserBank[u]][u]} : WithdrawCall(u, a)
      BY <2>0
    <2>2. u \in User /\ a \in Nat
      BY <1>0, PalletAssumption DEF TypeOK, IsMap
    <2> QED BY <1>1, <2>1, <2>2, CashTypes DEF WithdrawCall
  <1>5. CASE (\E u \in User, b \in Bank : SwitchCall(u, b)) \/ NodeCall
    <2>1. PalletMove
      BY <1>5, NodeAssumption DEF SwitchCall, NodeCall, PalletMove
    <2>2. UNCHANGED <<accounts, pending, batch_seq_counter, packing, pool, inbox, acknowledged,
                      now, rateVars>>
      BY <1>5 DEF SwitchCall, NodeCall, Quiet, packerVars, historyVars
    <2> QED BY <1>1, <2>1, <2>2 DEF NodeTypeOK
  <1>6. CASE \/ \E b \in Bank \ {MyBank} : \E p \in Items(b) : OtherBankBatch(b, p)
             \/ \E e \in pool : IncludeBatch(e)
    <2>1. UNCHANGED <<now, rateVars>>
      BY <1>6 DEF OtherBankBatch, IncludeBatch
    <2> QED BY <1>1, <1>6, <2>1, BatchTypes DEF PalletMove
  <1>7. CASE BatchStep
    BY <1>1, <1>7, BatchStepTypes DEF BatchStep
  <1>8. CASE RateStep /\ UNCHANGED nodeVars
    <2>1. RatesTypeOK'
      BY <1>0, <1>8, RateTypes DEF RateStep
    <2>2. UNCHANGED <<palletVars, nodeVars>>
      BY <1>8 DEF RateStep
    <2> QED BY <2>1, <2>2 DEF palletVars, nodeVars, packerVars, historyVars, NodeTypeOK
  <1>9. CASE \E u, v \in User, a \in Amount, t \in TxId : SubmitPayment(u, v, a, t)
    <2>1. UNCHANGED vars
      BY <1>9 DEF SubmitPayment
    <2> QED BY <1>0, <1>1, <1>9, <2>1, SubmitTypes DEF vars
  <1>10. CASE HandleEvent
    BY <1>1, <1>10, HandleTypes DEF HandleEvent, vars
  <1>11. CASE PackBegins \/ PackSubmits \/ PackFails
    BY <1>0, <1>1, <1>11, PackTypes DEF PackBegins, PackSubmits, PackFails, vars
  <1>12. CASE Restart
    <2>1. UNCHANGED vars /\ UNCHANGED pool
      BY <1>12 DEF Restart
    <2>2. accounts' \in Ledger /\ LastClearingBatchSeq[MyBank] \in Nat
      BY <1>0, <1>12, NodeAssumption DEF Restart, NoState, Ledger, L3State, TypeOK
    <2> QED BY <1>1, <1>12, <2>1, <2>2 DEF Restart, InitialSeq, NodeTypeOK, vars
  <1>13. CASE LoseEvent
    <2>1. inbox' \in Seq(Event)
      BY <1>13 DEF LoseEvent, NodeTypeOK
    <2> QED BY <1>1, <1>13, <2>1 DEF LoseEvent, NodeTypeOK, packerVars, vars
  <1> QED BY <1>2, <1>3, <1>4, <1>5, <1>6, <1>7, <1>8, <1>9, <1>10, <1>11, <1>12, <1>13
          DEF NodeNext, ChainStep, NodeStep

\* The network in operation starts with books that balance.
LEMMA NodeInitInv ==
    NodeInit => /\ BalanceInv /\ NodeTypeOK /\ Idle /\ inbox = <<>>
                /\ \A u \in User : accounts[u].confirmed = books.DepositBalance[MyBank][u]
  <1> SUFFICES ASSUME NodeInit
               PROVE  /\ BalanceInv /\ NodeTypeOK /\ Idle /\ inbox = <<>>
                      /\ \A u \in User : accounts[u].confirmed = books.DepositBalance[MyBank][u]
    OBVIOUS
  <1> DEFINE held(b) == {u \in DOMAIN UserBank : UserBank[u] = b}
             D == [b \in Bank |-> [u \in User |-> IF u \in held(b) THEN InitDeposit ELSE 0]]
             N == [b \in Bank |-> Cardinality(held(b))]
             zero == [u \in User |-> 0]
  <1>0. /\ InitRate \in Nat /\ InitWallet \in Nat /\ InitReserve \in Nat /\ InitFees \in Nat
        /\ InitDeposit \in Nat /\ MyBank \in Bank /\ Bank \subseteq Peer /\ Bank \subseteq Endpoint
        /\ IsFiniteSet(User)
    BY PalletAssumption, NodeAssumption
  <1>1. /\ books.DepositBalance = D
        /\ books.BankTotalDeposits = [b \in Bank |-> InitDeposit * N[b]]
        /\ books.L3PaymentNonce = zero /\ books.ProcessedOffchainTx = {}
        /\ books.clearing = [b \in Bank |-> InitReserve + InitDeposit * N[b]]
        /\ books.feeAccount = [b \in Bank |-> InitFees]
        /\ books = [DepositBalance |-> books.DepositBalance,
                    BankTotalDeposits |-> books.BankTotalDeposits,
                    L3PaymentNonce |-> books.L3PaymentNonce,
                    ProcessedOffchainTx |-> books.ProcessedOffchainTx,
                    clearing |-> books.clearing, feeAccount |-> books.feeAccount]
    BY DEF NodeInit
  <1>2. Idle /\ IsMap(UserBank, User, Bank) /\ DOMAIN UserBank \subseteq User
    BY DEF NodeInit, Idle, IsMap
  <1>3. \A b \in Bank : N[b] \in Nat
    <2>1. \A b \in Bank : held(b) \subseteq User
      BY <1>2
    <2> HIDE DEF held
    <2>2. \A b \in Bank : IsFiniteSet(held(b))
      BY <1>0, <2>1, FS_Subset
    <2> QED BY <2>2, FS_CardinalityType
  <1>4. D \in [Bank -> [User -> Nat]]
    BY <1>0
  <1>5. \A b \in Bank : SumOver(D[b]) = InitDeposit * N[b]
    <2> SUFFICES ASSUME NEW b \in Bank PROVE SumOver(D[b]) = InitDeposit * N[b]
      OBVIOUS
    <2> DEFINE F == D[b]
               T == held(b)
    <2>1. \A x \in User : (x \in T => F[x] = InitDeposit) /\ (x \notin T => F[x] = 0)
      OBVIOUS
    <2>2. N[b] = Cardinality(User \cap T)
      <3>1. User \cap T = T
        BY <1>2
      <3> QED BY <3>1
    <2>0. IsFiniteSet(User) /\ InitDeposit \in Nat
      BY <1>0
    <2> HIDE DEF F, T
    <2>3. SumFunctionOnSet(F, User) = InitDeposit * Cardinality(User \cap T)
      BY <2>0, <2>1, SumConstant
    <2> QED BY <2>2, <2>3 DEF SumOver, F
  <1>6. SumOver(zero) = 0
    BY <1>0, SumZero DEF SumOver
  <1> HIDE DEF D, N, zero
  <1>7. \A b \in Bank : InitDeposit * N[b] \in Nat
    BY <1>0, <1>3
  <1>8. books \in Books
    <2>1. /\ books.BankTotalDeposits \in [Bank -> Nat] /\ books.clearing \in [Bank -> Nat]
          /\ books.L3PaymentNonce \in [User -> Nat] /\ books.feeAccount \in [Bank -> Nat]
      BY <1>0, <1>1, <1>7 DEF zero
    <2> QED BY <1>1, <1>4, <2>1 DEF Books
  <1>9. Solvent
    BY <1>0, <1>1, <1>7 DEF Solvent
  <1>10. Balanced(books)
    <2>1. Cardinality({}) = 0 /\ IsFiniteSet({})
      BY FS_EmptySet
    <2>2. \A b \in Bank : BankBalanced(books.DepositBalance[b], books.BankTotalDeposits[b],
                                       books.clearing[b])
      BY <1>0, <1>1, <1>5, <1>7 DEF BankBalanced
    <2> QED BY <1>1, <1>6, <2>1, <2>2 DEF Balanced
  <1>11. DepositAtOwnBank
    <2>1. \A b \in Bank, u \in User :
             books.DepositBalance[b][u] > 0 => u \in DOMAIN UserBank /\ UserBank[u] = b
      BY <1>1 DEF D
    <2> QED BY <1>2, <2>1 DEF DepositAtOwnBank
  <1>12. PalletInv
    <2>1. RatesTypeOK
      BY <1>0 DEF NodeInit, RatesTypeOK, IsMap, EmptyMap
    <2>2. IsMap(UserBank, User, Bank) /\ LastClearingBatchSeq \in [Bank -> Nat]
          /\ wallet \in [User -> Nat]
      BY <1>0 DEF NodeInit, IsMap
    <2>3. IsMap(ClearingBankNodes, Bank, [peer : Peer, endpoint : Endpoint])
          /\ IsMap(NodePeerToInstitution, Peer, Bank)
      BY <1>0 DEF NodeInit, IsMap
    <2> QED BY <1>2, <1>8, <1>9, <2>1, <2>2, <2>3 DEF PalletInv, TypeOK, Idle
  <1>13. accounts \in Ledger
         /\ \A u \in User : accounts[u].confirmed = books.DepositBalance[MyBank][u]
    <2>1. \A u \in User : books.DepositBalance[MyBank][u] \in Nat
      BY <1>0, <1>1, <1>4
    <2>2. accounts = [u \in User |-> [confirmed |-> books.DepositBalance[MyBank][u],
                                      pending_debit |-> 0, cached_nonce |-> 0]]
      <3>1. \A c : [NoState EXCEPT !.confirmed = c] =
                      [confirmed |-> c, pending_debit |-> 0, cached_nonce |-> 0]
        BY DEF NoState
      <3>2. accounts = [u \in User |->
                          [NoState EXCEPT !.confirmed = books.DepositBalance[MyBank][u]]]
        BY DEF NodeInit
      <3> QED BY <3>1, <3>2
    <2> QED BY <2>1, <2>2 DEF Ledger, L3State
  <1>14. NodeTypeOK
    BY <1>2, <1>13 DEF NodeTypeOK, NodeInit
  <1>15. BalanceInv
    BY <1>2, <1>10, <1>11, <1>12 DEF BalanceInv, OwnBankInv
  <1> QED BY <1>2, <1>13, <1>14, <1>15 DEF NodeInit

\* The pallet's invariants hold beside a node as well.
LEMMA NodeInvCorrect == NodeSpec => [](BalanceInv /\ NodeTypeOK)
  <1>1. BalanceInv /\ NodeTypeOK /\ [NodeNext]_allVars => (BalanceInv /\ NodeTypeOK)'
    <2> SUFFICES ASSUME BalanceInv, NodeTypeOK, [NodeNext]_allVars
                 PROVE  (BalanceInv /\ NodeTypeOK)'
      OBVIOUS
    <2>1. PalletInv /\ OwnBankInv
      BY DEF BalanceInv, OwnBankInv
    <2>2. NodeTypeOK' /\ RatesTypeOK' /\ (UNCHANGED palletVars \/ PalletMove)
      BY <2>1, NodeStepTypes
    <2>3. PalletInv'
      <3>1. CASE UNCHANGED palletVars
        BY <2>1, <2>2, <3>1 DEF PalletInv, TypeOK, Solvent, Idle, SolventBooks, palletVars
      <3>2. CASE PalletMove
        BY <2>1, <2>2, <3>2, PalletMoveInv
      <3> QED BY <2>2, <3>1, <3>2
    <2>4. OwnBankInv'
      BY <2>1, <2>2, <2>3, OwnBankStep
    <2> QED BY <2>2, <2>4, StepBalanced
  <1> QED BY <1>1, NodeInitInv, PTL DEF NodeSpec

-------------------------------------------------------------------------------
(* The ledger follows the chain: what is left of the events, handled from the *)
(* ledger as it is, leads to the deposits on chain.                           *)

\* The ledger once the events of s are handled.
Handled(acc, s) == Events!Fold(acc, s)

Matches(acc, bk) ==
    acc \in Ledger /\ \A u \in User : acc[u].confirmed = bk.DepositBalance[MyBank][u]

\* During a batch the events it will leave are counted too.
LedgerInv ==
    ~missed =>
        /\ Idle => Matches(Handled(accounts, inbox), books)
        /\ ~Idle => /\ Matches(Handled(accounts, inbox), txn.saved)
                    /\ Matches(Handled(accounts, inbox \o SettledEvents), books)

\* Ledgers with the same confirmed balances still have them after the same events.
LEMMA HandledSame ==
    ASSUME NEW x, NEW y, SameConfirmed(x, y), NEW s \in Seq(Event)
    PROVE  SameConfirmed(Handled(x, s), Handled(y, s))
  <1>1. \A v, w, e : e \in Event /\ SameConfirmed(v, w)
                       => SameConfirmed(Applied(v, e), Applied(w, e))
    <2> SUFFICES ASSUME NEW v, NEW w, NEW e \in Event, SameConfirmed(v, w)
                 PROVE  SameConfirmed(Applied(v, e), Applied(w, e))
      OBVIOUS
    <2>1. v \in Ledger /\ w \in Ledger
      BY DEF SameConfirmed
    <2> QED BY <2>1, AppliedLedger DEF SameConfirmed
  <1> HIDE DEF Event
  <1> QED BY <1>1, Events!FoldAlike DEF Handled

\* Ledgers with the same confirmed balances match the same books.
LEMMA SameMatches ==
    ASSUME NEW x, NEW y, SameConfirmed(x, y), NEW bk, Matches(y, bk)
    PROVE  Matches(x, bk)
  BY DEF SameConfirmed, Matches

\* One event more, at either end, and none.
LEMMA HandledOne ==
    ASSUME NEW acc, NEW s \in Seq(Event), NEW e \in Event
    PROVE  /\ Handled(acc, <<>>) = acc
           /\ Handled(acc, Append(s, e)) = Applied(Handled(acc, s), e)
           /\ s # <<>> => Handled(acc, s) = Handled(Applied(acc, Head(s)), Tail(s))
  <1>1. Handled(acc, <<>>) = acc /\ Handled(acc, Append(s, e)) = Applied(Handled(acc, s), e)
    BY Events!FoldAppend DEF Handled
  <1>2. s # <<>> => Handled(acc, s) = Handled(Applied(acc, Head(s)), Tail(s))
    BY Events!FoldHead DEF Handled
  <1> QED BY <1>1, <1>2

\* The fold the property speaks of.
LEMMA HandledIsFold == SX!FoldLeft(Applied, accounts, inbox) = Handled(accounts, inbox)
  BY DEF Handled, Events!Fold, SX!FoldLeft, Events!SX!FoldLeft,
         SX!Max, Events!SX!Max, SX!MapThenFoldSet, Events!SX!MapThenFoldSet

\* Steps that leave the books, the batch, the events and the confirmed balances alone.
LEMMA QuietFollows ==
    ASSUME LedgerInv, NodeTypeOK, PalletInv, SameConfirmed(accounts', accounts),
           UNCHANGED <<books, txn, inbox, missed>>
    PROVE  LedgerInv'
  <1>1. inbox \in Seq(Event)
    BY DEF NodeTypeOK
  <1>2. SameConfirmed(Handled(accounts', inbox'), Handled(accounts, inbox))
    BY <1>1, HandledSame
  <1>3. ~Idle => SameConfirmed(Handled(accounts', inbox' \o SettledEvents'),
                               Handled(accounts, inbox \o SettledEvents))
    <2> SUFFICES ASSUME ~Idle
                 PROVE  SameConfirmed(Handled(accounts', inbox' \o SettledEvents'),
                                      Handled(accounts, inbox \o SettledEvents))
      OBVIOUS
    <2>1. SettledEvents \in Seq(Event)
      BY SettledTypes
    <2>2. SettledEvents' = SettledEvents
      BY DEF SettledEvents
    <2>3. inbox \o SettledEvents \in Seq(Event)
      BY <1>1, <2>1
    <2> QED BY <2>2, <2>3, HandledSame
  <1>4. missed' = missed /\ books' = books /\ txn' = txn /\ (Idle' <=> Idle)
    BY DEF Idle
  <1> QED BY <1>2, <1>3, <1>4, SameMatches DEF LedgerInv

\* Handling an event moves it from the queue into the ledger.
LEMMA HandleFollows ==
    ASSUME LedgerInv, NodeTypeOK, PalletInv, HandleEvent
    PROVE  LedgerInv'
  <1>1. inbox \in Seq(Event) /\ inbox # <<>>
    BY DEF NodeTypeOK, HandleEvent
  <1>2. accounts' = Applied(accounts, Head(inbox)) /\ inbox' = Tail(inbox)
        /\ UNCHANGED <<books, txn, missed>>
    BY DEF HandleEvent, vars, palletVars, historyVars
  <1>3. Handled(accounts', inbox') = Handled(accounts, inbox)
    BY <1>1, <1>2, HandledOne
  <1>4. ~Idle => Handled(accounts', inbox' \o SettledEvents')
                   = Handled(accounts, inbox \o SettledEvents)
    <2> SUFFICES ASSUME ~Idle
                 PROVE  Handled(accounts', inbox' \o SettledEvents')
                           = Handled(accounts, inbox \o SettledEvents)
      OBVIOUS
    <2> DEFINE S == SettledEvents
               all == inbox \o S
    <2>1. S \in Seq(Event)
      BY SettledTypes
    <2>2. SettledEvents' = S
      BY <1>2 DEF SettledEvents
    <2> HIDE DEF S
    <2>3. all \in Seq(Event) /\ all # <<>> /\ Head(all) = Head(inbox)
          /\ Tail(all) = Tail(inbox) \o S
      BY <1>1, <2>1
    <2>4. Handled(accounts, all) = Handled(Applied(accounts, Head(all)), Tail(all))
      <3> HIDE DEF all
      <3> QED BY <2>3, <1>1, HandledOne
    <2> QED BY <1>2, <2>2, <2>3, <2>4 DEF S
  <1>5. missed' = missed /\ books' = books /\ txn' = txn /\ (Idle' <=> Idle)
    BY <1>2 DEF Idle
  <1> QED BY <1>3, <1>4, <1>5 DEF LedgerInv

\* Deposits and withdrawals: the event says what the books say.
LEMMA CashFollows ==
    ASSUME LedgerInv, NodeTypeOK, PalletInv, NEW u \in User, NEW a \in Nat,
           DepositCall(u, a) \/ WithdrawCall(u, a)
    PROVE  LedgerInv'
  <1> DEFINE B == books.DepositBalance
             c == UserBank[u]
             k == IF DepositCall(u, a) THEN "Deposited" ELSE "Withdrawn"
             e == [kind |-> k, user |-> u, bank |-> c, amount |-> a]
             n == IF DepositCall(u, a) THEN B[c][u] + a ELSE Less(B[c][u], a)
  <1>1. inbox \in Seq(Event) /\ accounts \in Ledger /\ c \in Bank /\ MyBank \in Bank
        /\ B \in [Bank -> [User -> Nat]]
    BY InvBooks, BooksFields, NodeAssumption
       DEF NodeTypeOK, PalletInv, TypeOK, IsMap, GoodBooks,
           DepositCall, WithdrawCall, Deposit, Withdraw, CanWithdraw
  <1>2. e \in Event /\ k \in {"Deposited", "Withdrawn"}
    BY <1>1 DEF Event, CashEvent
  <1>3. inbox' = Append(inbox, e) /\ Idle /\ Idle' /\ UNCHANGED <<accounts, missed>>
    BY <1>1 DEF DepositCall, WithdrawCall, Emit, Quiet, Deposit, Withdraw, Idle, historyVars
  <1>4. books'.DepositBalance = [B EXCEPT ![c][u] = n]
    <2>1. books \in Books
      BY DEF PalletInv, TypeOK
    <2> QED BY <2>1 DEF DepositCall, WithdrawCall, Deposit, Withdraw, Books
  <1>5. \A w \in User : books'.DepositBalance[MyBank][w] =
                           IF w = u /\ c = MyBank THEN n ELSE B[MyBank][w]
    <2> HIDE DEF n, B, c
    <2> QED BY <1>1, <1>4
  <1> DEFINE h == Handled(accounts, inbox)
  <1>6. Handled(accounts', inbox') = Applied(h, e)
    <2> HIDE DEF e
    <2> QED BY <1>1, <1>2, <1>3, HandledOne
  <1>7. ASSUME ~missed PROVE Matches(Applied(h, e), books')
    <2>1. h \in Ledger /\ \A w \in User : h[w].confirmed = B[MyBank][w]
      BY <1>3, <1>7 DEF LedgerInv, Matches
    <2> HIDE DEF h
    <2>2. Applied(h, e) \in Ledger
          /\ \A w \in User : Applied(h, e)[w].confirmed = Credited(h[w].confirmed, w, e)
      <3> HIDE DEF e
      <3> QED BY <1>2, <2>1, AppliedLedger
    <2>3. \A w \in User : Credited(B[MyBank][w], w, e) =
                             IF w = u /\ c = MyBank THEN n ELSE B[MyBank][w]
      BY DEF Credited
    <2> QED BY <1>5, <2>1, <2>2, <2>3 DEF Matches
  <1> QED BY <1>3, <1>6, <1>7 DEF LedgerInv

\* do_switch_bank and do_bind_bank move no money: the balance they write was zero.
LEMMA SwitchFollows ==
    ASSUME LedgerInv, NodeTypeOK, OwnBankInv, NEW u \in User, NEW b \in Bank,
           SwitchBank(u, b) \/ BindBank(u, b), UNCHANGED <<accounts, inbox, missed>>
    PROVE  LedgerInv'
  <1> DEFINE B == books.DepositBalance
  <1>1. books \in Books /\ B \in [Bank -> [User -> Nat]] /\ MyBank \in Bank
    BY InvBooks, BooksFields, NodeAssumption DEF OwnBankInv, GoodBooks
  <1>2. books'.DepositBalance = [B EXCEPT ![b][u] = 0]
    BY <1>1 DEF SwitchBank, BindBank, Books
  <1>3. B[b][u] = 0
    <2>1. ~(u \in DOMAIN UserBank /\ UserBank[u] = b)
      BY DEF SwitchBank, MaySwitch, BindBank
    <2>2. ~(B[b][u] > 0)
      BY <2>1 DEF OwnBankInv, DepositAtOwnBank
    <2> QED BY <1>1, <2>2
  <1>4. \A w \in User : books'.DepositBalance[MyBank][w] = B[MyBank][w]
    <2> HIDE DEF B
    <2> QED BY <1>1, <1>2, <1>3
  <1>5. Idle /\ Idle'
    BY DEF SwitchBank, BindBank, Idle
  <1>6. Handled(accounts', inbox') = Handled(accounts, inbox)
    OBVIOUS
  <1> QED BY <1>4, <1>5, <1>6 DEF LedgerInv, Matches

\* A batch that begins has left no event yet.
LEMMA BeginFollows ==
    ASSUME LedgerInv, NodeTypeOK, NEW b, NEW seq, NEW items, BatchBegin(b, seq, items),
           UNCHANGED <<accounts, inbox, missed>>
    PROVE  LedgerInv'
  <1>1. Idle /\ UNCHANGED books /\ txn'.saved = books /\ txn'.done = <<>>
    BY DEF BatchBegin
  <1>2. SettledEvents' = <<>>
    BY <1>1 DEF SettledEvents
  <1>3. inbox' \o SettledEvents' = inbox
    BY <1>2 DEF NodeTypeOK
  <1>4. /\ Handled(accounts', inbox') = Handled(accounts, inbox)
        /\ Handled(accounts', inbox' \o SettledEvents') = Handled(accounts, inbox)
    BY <1>3
  <1> QED BY <1>1, <1>4 DEF LedgerInv

\* An item of a batch moves the books as its event will move the ledger.
LEMMA ItemFollows ==
    ASSUME LedgerInv, NodeTypeOK, PalletInv, BatchItem, UNCHANGED <<accounts, inbox, missed>>
    PROVE  LedgerInv'
  <1> DEFINE p == Head(txn.todo)
             e == [kind |-> "PaymentSettled", item |-> p]
             B == books.DepositBalance
             S == SettledEvents
             h == Handled(accounts, inbox \o S)
  <1>1. ~Idle /\ txn \in Batch /\ B \in [Bank -> [User -> Nat]] /\ MyBank \in Bank
    BY InvSaved, InvBooks, BooksFields, NodeAssumption DEF BatchItem, GoodBooks
  <1>2. p \in Payment /\ txn.done \in Seq(Payment)
    BY <1>1 DEF BatchItem, Batch
  <1>3. e \in Event
    BY <1>2 DEF Event, PaymentEvent
  <1>4. txn'.done = Append(txn.done, p) /\ txn'.saved = txn.saved
    BY <1>1 DEF BatchItem, Batch
  <1>5. books'.DepositBalance = Paid(B, p)
    BY DEF BatchItem, BooksAfter
  <1>6. SettledEvents' = Append(S, e)
    <2>1. \A i \in 1..(Len(txn.done) + 1) :
             Append(txn.done, p)[i] = IF i = Len(txn.done) + 1 THEN p ELSE txn.done[i]
      BY <1>2
    <2>2. S \in Seq(Event) /\ Len(S) = Len(txn.done) /\ Len(txn.done) \in Nat
      BY <1>1, <1>2, SettledTypes
    <2>3. \A i \in 1..Len(txn.done) : S[i] = [kind |-> "PaymentSettled", item |-> txn.done[i]]
      BY <1>2 DEF SettledEvents
    <2>4. SettledEvents' = [i \in 1..(Len(txn.done) + 1) |->
                              [kind |-> "PaymentSettled", item |-> Append(txn.done, p)[i]]]
      BY <1>2, <1>4 DEF SettledEvents
    <2> HIDE DEF S, p
    <2>5. Append(S, e) = [i \in 1..(Len(S) + 1) |-> IF i = Len(S) + 1 THEN e ELSE S[i]]
      BY <1>3, <2>2
    <2> QED BY <2>1, <2>2, <2>3, <2>4, <2>5
  <1>7. inbox \in Seq(Event) /\ S \in Seq(Event)
    BY <1>1, SettledTypes DEF NodeTypeOK
  <1> HIDE DEF S
  <1>8. inbox' \o SettledEvents' = Append(inbox \o S, e) /\ inbox \o S \in Seq(Event)
    <2> HIDE DEF e
    <2> QED BY <1>3, <1>6, <1>7
  <1>9. Handled(accounts', inbox' \o SettledEvents') = Applied(h, e)
    <2> DEFINE q == inbox \o S
    <2>1. q \in Seq(Event) /\ inbox' \o SettledEvents' = Append(q, e)
      BY <1>8
    <2> HIDE DEF e, q
    <2>2. Handled(accounts, Append(q, e)) = Applied(Handled(accounts, q), e)
      BY <1>3, <2>1, HandledOne
    <2> QED BY <2>1, <2>2 DEF q
  <1>10. ASSUME ~missed PROVE Matches(Applied(h, e), books')
    <2>1. h \in Ledger /\ \A w \in User : h[w].confirmed = B[MyBank][w]
      BY <1>1, <1>10 DEF LedgerInv, Matches, S
    <2> HIDE DEF h
    <2>2. Applied(h, e) \in Ledger
          /\ \A w \in User : Applied(h, e)[w].confirmed = Credited(h[w].confirmed, w, e)
      <3> HIDE DEF e
      <3> QED BY <1>3, <2>1, AppliedLedger
    <2>3. \A w \in User : Credited(B[MyBank][w], w, e) = Paid(B, p)[MyBank][w]
      <3> HIDE DEF p, B
      <3> QED BY <1>1 DEF Credited, Paid, Total
    <2> QED BY <1>5, <2>1, <2>2, <2>3 DEF Matches
  <1>11. missed' = missed /\ ~Idle'
         /\ Handled(accounts', inbox') = Handled(accounts, inbox)
    <2>1. txn' # NoBatch
      BY <1>1, <1>4 DEF BatchItem, Batch, NoBatch, PalletInv, TypeOK
    <2> QED BY <2>1 DEF Idle
  <1> QED BY <1>1, <1>4, <1>9, <1>10, <1>11 DEF LedgerInv

\* Committing a batch releases its events; rolling it back, none.
LEMMA EndFollows ==
    ASSUME LedgerInv, NodeTypeOK, PalletInv, UNCHANGED <<accounts, missed>>,
           (BatchCommit /\ Emit(SettledEvents)) \/ (BatchRollback /\ UNCHANGED inbox)
    PROVE  LedgerInv'
  <1>1. ~Idle /\ Idle'
    BY DEF BatchCommit, BatchRollback, Idle
  <1>2. CASE BatchCommit /\ Emit(SettledEvents)
    <2>1. books'.DepositBalance = books.DepositBalance
      BY <1>2 DEF BatchCommit, PalletInv, TypeOK, Books
    <2>2. Handled(accounts', inbox') = Handled(accounts, inbox \o SettledEvents)
      BY <1>2 DEF Emit
    <2> QED BY <1>1, <2>1, <2>2 DEF LedgerInv, Matches
  <1>3. CASE BatchRollback /\ UNCHANGED inbox
    <2>1. books' = txn.saved
      BY <1>3 DEF BatchRollback, Restored
    <2>2. Handled(accounts', inbox') = Handled(accounts, inbox)
      BY <1>3
    <2> QED BY <1>1, <2>1, <2>2 DEF LedgerInv, Matches
  <1> QED BY <1>2, <1>3

\* Every step of the node and of the chain.
LEMMA LedgerStep ==
    ASSUME LedgerInv, BalanceInv, NodeTypeOK, [NodeNext]_allVars
    PROVE  LedgerInv'
  <1>0. PalletInv /\ OwnBankInv /\ TypeOK /\ GoodBooks(books)
    BY InvBooks DEF BalanceInv, OwnBankInv, PalletInv
  <1>1. SameConfirmed(accounts, accounts)
    BY DEF SameConfirmed, NodeTypeOK
  <1>2. ASSUME UNCHANGED <<accounts, books, txn, inbox, missed>> PROVE LedgerInv'
    <2>1. SameConfirmed(accounts', accounts)
      BY <1>1, <1>2
    <2> QED BY <1>0, <1>2, <2>1, QuietFollows
  <1>3. CASE UNCHANGED allVars \/ (RateStep /\ UNCHANGED nodeVars)
    BY <1>2, <1>3 DEF allVars, vars, palletVars, nodeVars, historyVars, RateStep
  <1>4. CASE \E u \in User, a \in Amount : DepositCall(u, a)
    BY <1>0, <1>4, CashFollows, PalletAssumption
  <1>5. CASE \E u \in DOMAIN UserBank :
                \E a \in Amount \cup {books.DepositBalance[UserBank[u]][u]} : WithdrawCall(u, a)
    <2>0. PICK u \in DOMAIN UserBank :
             \E a \in Amount \cup {books.DepositBalance[UserBank[u]][u]} : WithdrawCall(u, a)
      BY <1>5
    <2>1. PICK a \in Amount \cup {books.DepositBalance[UserBank[u]][u]} : WithdrawCall(u, a)
      BY <2>0
    <2>2. u \in User /\ UserBank[u] \in Bank
      BY <1>0 DEF TypeOK, IsMap
    <2>3. a \in Nat
      BY <1>0, <2>2, BooksFields, PalletAssumption DEF GoodBooks
    <2> QED BY <1>0, <2>1, <2>2, <2>3, CashFollows
  <1>6. CASE (\E u \in User, b \in Bank : SwitchCall(u, b)) \/ NodeCall
    <2>1. UNCHANGED <<accounts, inbox, missed>>
      BY <1>6 DEF SwitchCall, NodeCall, Quiet, historyVars
    <2>2. \/ \E u \in User, b \in Bank : SwitchBank(u, b) \/ BindBank(u, b)
          \/ UNCHANGED <<books, txn>>
      BY <1>6 DEF SwitchCall, NodeCall, RegisterNode, UnregisterNode
    <2> QED BY <1>0, <1>2, <2>1, <2>2, SwitchFollows
  <1>7. CASE \/ \E b \in Bank \ {MyBank} : \E p \in Items(b) : OtherBankBatch(b, p)
             \/ \E e \in pool : IncludeBatch(e)
    <2>1. /\ \/ UNCHANGED palletVars
             \/ \E b \in Bank, seq \in Nat, items \in Seq(Payment) : BatchBegin(b, seq, items)
          /\ UNCHANGED <<accounts, inbox, missed>>
      BY <1>0, <1>7, BatchTypes
    <2>2. CASE UNCHANGED palletVars
      BY <1>2, <2>1, <2>2 DEF palletVars
    <2> QED BY <2>1, <2>2, BeginFollows
  <1>8. CASE BatchStep
    <2>1. UNCHANGED <<accounts, missed>>
      BY <1>8 DEF BatchStep, Quiet, historyVars
    <2>2. CASE BatchItem /\ UNCHANGED inbox
      BY <1>0, <2>1, <2>2, ItemFollows
    <2>3. CASE (BatchCommit /\ Emit(SettledEvents)) \/ (BatchRollback /\ UNCHANGED inbox)
      BY <1>0, <2>1, <2>3, EndFollows
    <2> QED BY <1>8, <2>2, <2>3 DEF BatchStep
  <1>9. CASE \E u, v \in User, a \in Amount, t \in TxId : SubmitPayment(u, v, a, t)
    <2>1. PICK u \in User, v \in User, a \in Amount, t \in TxId : SubmitPayment(u, v, a, t)
      BY <1>9
    <2>2. SameConfirmed(accounts', accounts)
      BY <1>0, <2>1, SubmitTypes
    <2>3. UNCHANGED <<books, txn, inbox, missed>>
      BY <2>1 DEF SubmitPayment, vars, palletVars
    <2> QED BY <1>0, <2>2, <2>3, QuietFollows
  <1>10. CASE HandleEvent
    BY <1>0, <1>10, HandleFollows
  <1>11. CASE PackBegins \/ PackSubmits \/ PackFails
    <2>1. SameConfirmed(accounts', accounts) /\ UNCHANGED <<inbox, missed>>
      BY <1>0, <1>11, PackTypes DEF TypeOK
    <2>2. UNCHANGED <<books, txn>>
      BY <1>11 DEF PackBegins, PackSubmits, PackFails, vars, palletVars
    <2> QED BY <1>0, <2>1, <2>2, QuietFollows
  <1>12. CASE Restart \/ LoseEvent
    <2>1. missed'
      BY <1>12 DEF Restart, LoseEvent
    <2> QED BY <2>1 DEF LedgerInv
  <1> QED BY <1>3, <1>4, <1>5, <1>6, <1>7, <1>8, <1>9, <1>10, <1>11, <1>12
          DEF NodeNext, ChainStep, NodeStep

\* Until an event passes the node by, its ledger once the waiting events are handled is the
\* chain's: through payments in and out of the bank, switching, rolled back batches and failed
\* submissions no event is missed and none counted twice (ledger.rs, listener.rs).
THEOREM LedgerAlwaysFollows == NodeSpec => []LedgerFollowsChain
  <1>1. NodeInit => LedgerInv
    <2> SUFFICES ASSUME NodeInit PROVE LedgerInv
      OBVIOUS
    <2>1. Handled(accounts, inbox) = accounts
      <3>1. <<>> \in Seq({0}) /\ 0 \in {0}
        OBVIOUS
      <3>2. Events!Fold(accounts, <<>>) = accounts
        BY <3>1, Events!FoldAppend
      <3> QED BY <3>2, NodeInitInv DEF Handled
    <2> QED BY <2>1, NodeInitInv DEF LedgerInv, Matches, NodeTypeOK
  <1>2. LedgerInv /\ BalanceInv /\ NodeTypeOK /\ [NodeNext]_allVars => LedgerInv'
    BY LedgerStep
  <1>3. LedgerInv => LedgerFollowsChain
    BY HandledIsFold DEF LedgerInv, LedgerFollowsChain, Matches, Committed
  <1> QED BY <1>1, <1>2, <1>3, NodeInvCorrect, PTL DEF NodeSpec

-------------------------------------------------------------------------------
(* What the node has acknowledged stays pending until the chain has settled   *)
(* it: an event in the queue speaks of a payment with a mark on chain.        *)

\* Some payment with id t has a mark in m.
Marked(m, t) == \E b \in Bank : <<Province[b], t>> \in m

\* The marks of a batch under way: those before it and one for every item done.
BatchMarks ==
    ~Idle => /\ txn.saved.ProcessedOffchainTx \subseteq books.ProcessedOffchainTx
             /\ \A i \in DOMAIN txn.done : Marked(books.ProcessedOffchainTx, txn.done[i].tx)

\* An event of a settled payment: the payment has its mark.
EventMarked(m, ev) == ev.kind = "PaymentSettled" => Marked(m, ev.item.tx)
EventsMarked == \A i \in DOMAIN inbox : EventMarked(Committed.ProcessedOffchainTx, inbox[i])

Kept(t) == Holds(pending, t) \/ Marked(Committed.ProcessedOffchainTx, t)
AckInv == BatchMarks /\ EventsMarked /\ \A t \in acknowledged : Kept(t)

\* Marks are never taken back.
LEMMA MarksGrow ==
    ASSUME PalletInv, BatchMarks, UNCHANGED palletVars \/ PalletMove
    PROVE  /\ BatchMarks'
           /\ Committed.ProcessedOffchainTx \subseteq Committed'.ProcessedOffchainTx
           /\ ~Idle /\ Idle' /\ ~BatchRollback
                 => books.ProcessedOffchainTx \subseteq Committed'.ProcessedOffchainTx
  <1> DEFINE M == books.ProcessedOffchainTx
  <1>0. books \in Books /\ (~Idle => txn \in Batch)
    BY DEF PalletInv, TypeOK, Idle
  <1>1. CASE UNCHANGED palletVars
    BY <1>1 DEF palletVars, BatchMarks, Committed, Idle
  <1>2. CASE /\ Idle /\ Idle' /\ books'.ProcessedOffchainTx = M
    BY <1>2 DEF BatchMarks, Committed
  <1>3. CASE \/ \E b \in Bank, p \in Peer, e \in Endpoint : RegisterNode(b, p, e)
             \/ \E b \in Bank, e \in Endpoint : UpdateEndpoint(b, e)
             \/ \E b \in Bank : UnregisterNode(b)
    BY <1>2, <1>3 DEF RegisterNode, UpdateEndpoint, UnregisterNode, Idle
  <1>4. CASE \E u \in User, b \in Bank : BindBank(u, b) \/ SwitchBank(u, b)
    BY <1>0, <1>2, <1>4 DEF BindBank, SwitchBank, Idle, Books
  <1>5. CASE \E u \in User, a \in Nat : Deposit(u, a) \/ Withdraw(u, a)
    <2>1. PICK u \in User, a \in Nat : Deposit(u, a) \/ Withdraw(u, a)
      BY <1>5
    <2>2. Idle /\ UNCHANGED txn
      BY <2>1 DEF Deposit, Withdraw
    <2>3. ASSUME Deposit(u, a) PROVE books'.ProcessedOffchainTx = M
      BY <1>0, <2>3 DEF Deposit, Books
    <2>4. ASSUME Withdraw(u, a) PROVE books'.ProcessedOffchainTx = M
      BY <1>0, <2>4 DEF Withdraw, Books
    <2>5. books'.ProcessedOffchainTx = M
      BY <2>1, <2>3, <2>4
    <2> QED BY <1>2, <2>2, <2>5 DEF Idle
  <1>6. CASE \E b \in Bank, seq \in Nat, items \in Seq(Payment) : BatchBegin(b, seq, items)
    <2>1. Idle /\ UNCHANGED books /\ txn'.saved = books /\ txn'.done = <<>>
      BY <1>6 DEF BatchBegin
    <2> QED BY <2>1 DEF BatchMarks, Committed
  <1>7. CASE BatchItem
    <2> DEFINE p == Head(txn.todo)
    <2>1. ~Idle /\ txn \in Batch /\ txn.todo # <<>>
      BY <1>0, <1>7 DEF BatchItem
    <2>2. p \in Payment /\ txn.done \in Seq(Payment)
      BY <2>1 DEF Batch
    <2>3. txn'.done = Append(txn.done, p) /\ txn'.saved = txn.saved /\ txn' # NoBatch
          /\ books'.ProcessedOffchainTx = M \cup {<<Province[p.payerBank], p.tx>>}
      BY <1>7, <2>1 DEF BatchItem, Batch, BooksAfter, MarksAfter, NoBatch, Idle
    <2> HIDE DEF p
    <2>4. Marked(books'.ProcessedOffchainTx, p.tx)
      BY <2>2, <2>3 DEF Marked, Payment
    <2>5. \A i \in DOMAIN txn'.done : Marked(books'.ProcessedOffchainTx, txn'.done[i].tx)
      <3> SUFFICES ASSUME NEW i \in DOMAIN Append(txn.done, p)
                   PROVE  Marked(books'.ProcessedOffchainTx, Append(txn.done, p)[i].tx)
        BY <2>3
      <3>1. CASE i = Len(txn.done) + 1
        BY <2>2, <2>4, <3>1
      <3>2. CASE i # Len(txn.done) + 1
        <4>1. i \in DOMAIN txn.done /\ Append(txn.done, p)[i] = txn.done[i]
          BY <2>2, <3>2
        <4>2. Marked(M, txn.done[i].tx)
          BY <2>1, <4>1 DEF BatchMarks
        <4> QED BY <2>3, <4>1, <4>2 DEF Marked
      <3> QED BY <3>1, <3>2
    <2> QED BY <2>1, <2>3, <2>5 DEF BatchMarks, Committed, Idle
  <1>8. CASE BatchCommit
    <2>1. ~Idle /\ Idle' /\ books'.ProcessedOffchainTx = M
      BY <1>0, <1>8 DEF BatchCommit, Idle, Books
    <2> QED BY <2>1 DEF BatchMarks, Committed
  <1>9. CASE BatchRollback
    BY <1>9 DEF BatchRollback, Restored, BatchMarks, Committed, Idle
  <1> QED BY <1>1, <1>3, <1>4, <1>5, <1>6, <1>7, <1>8, <1>9 DEF PalletMove

\* Every step of the node and of the chain.
LEMMA AckStep ==
    ASSUME AckInv, PalletInv, NodeTypeOK, [NodeNext]_allVars
    PROVE  AckInv'
  <1> DEFINE M == Committed.ProcessedOffchainTx
             N == Committed'.ProcessedOffchainTx
  <1>0. TypeOK /\ RatesTypeOK /\ GoodBooks(books) /\ inbox \in Seq(Event)
        /\ pending \in Seq(Acknowledged)
    BY InvBooks DEF PalletInv, TypeOK, NodeTypeOK
  <1>1. UNCHANGED palletVars \/ PalletMove
    BY NodeStepTypes
  <1>2. /\ BatchMarks'
        /\ \A t : Marked(M, t) => Marked(N, t)
    BY <1>1, MarksGrow DEF AckInv, Marked
  <1>3. \A i \in DOMAIN inbox : EventMarked(N, inbox[i])
    BY <1>2 DEF AckInv, EventsMarked, EventMarked
  <1>4. (\A t : Holds(pending, t) => Holds(pending', t)) /\ acknowledged' \subseteq acknowledged
          => \A t \in acknowledged' : Kept(t)'
    BY <1>2 DEF AckInv, Kept
  <1>5. (UNCHANGED inbox \/ inbox' = <<>>) => EventsMarked'
    BY <1>3 DEF EventsMarked
  <1>6. inbox # <<>> /\ inbox' = Tail(inbox) => EventsMarked'
    <2> SUFFICES ASSUME inbox # <<>>, inbox' = Tail(inbox), NEW i \in DOMAIN inbox'
                 PROVE  EventMarked(N, inbox'[i])
      BY DEF EventsMarked
    <2>1. i + 1 \in DOMAIN inbox /\ inbox'[i] = inbox[i + 1]
      BY <1>0
    <2> QED BY <1>3, <2>1
  <1>7. ASSUME NEW evs \in Seq(Event), inbox' = inbox \o evs,
               \A i \in DOMAIN evs : EventMarked(N, evs[i])
        PROVE  EventsMarked'
    <2> SUFFICES ASSUME NEW i \in DOMAIN (inbox \o evs) PROVE EventMarked(N, (inbox \o evs)[i])
      BY <1>7 DEF EventsMarked
    <2>1. CASE i \in DOMAIN inbox
      <3>1. (inbox \o evs)[i] = inbox[i]
        BY <1>0, <2>1
      <3> QED BY <1>3, <2>1, <3>1
    <2>2. CASE i \notin DOMAIN inbox
      <3>1. i - Len(inbox) \in DOMAIN evs /\ (inbox \o evs)[i] = evs[i - Len(inbox)]
        BY <1>0, <2>2
      <3> QED BY <1>7, <3>1
    <2> QED BY <2>1, <2>2
  <1>8. CASE UNCHANGED allVars \/ (RateStep /\ UNCHANGED nodeVars)
    <2>1. UNCHANGED <<pending, acknowledged, inbox>>
      BY <1>8 DEF allVars, nodeVars, historyVars
    <2> QED BY <1>2, <1>4, <1>5, <2>1 DEF AckInv
  <1>9. CASE \E u \in User, a \in Nat : DepositCall(u, a) \/ WithdrawCall(u, a)
    <2>1. PICK u \in User, a \in Nat : DepositCall(u, a) \/ WithdrawCall(u, a)
      BY <1>9
    <2>2. PICK k \in {"Deposited", "Withdrawn"} :
             inbox' = inbox \o <<[kind |-> k, user |-> u, bank |-> UserBank[u], amount |-> a]>>
      BY <2>1 DEF DepositCall, WithdrawCall, Emit
    <2> DEFINE ev == [kind |-> k, user |-> u, bank |-> UserBank[u], amount |-> a]
    <2>3. ev \in Event
      <3>1. UserBank[u] \in Bank
        BY <1>0, <2>1 DEF DepositCall, WithdrawCall, Deposit, Withdraw, CanWithdraw, TypeOK, IsMap
      <3> QED BY <3>1 DEF Event, CashEvent
    <2>4. EventMarked(N, ev)
      BY DEF EventMarked
    <2>5. UNCHANGED <<pending, acknowledged>>
      BY <2>1 DEF DepositCall, WithdrawCall, Quiet, historyVars
    <2> HIDE DEF ev
    <2>6. EventsMarked'
      <3> DEFINE evs == <<ev>>
      <3>1. evs \in Seq(Event) /\ \A i \in DOMAIN evs : EventMarked(N, evs[i])
        BY <2>3, <2>4
      <3>2. inbox' = inbox \o evs
        BY <2>2 DEF ev
      <3> HIDE DEF evs
      <3> QED BY <1>7, <3>1, <3>2
    <2> QED BY <1>2, <1>4, <2>5, <2>6 DEF AckInv
  <1>10. CASE \/ (\E u \in User, b \in Bank : SwitchCall(u, b)) \/ NodeCall
              \/ \E b \in Bank \ {MyBank} : \E p \in Items(b) : OtherBankBatch(b, p)
              \/ \E e \in pool : IncludeBatch(e)
    <2>1. UNCHANGED <<pending, acknowledged, inbox>>
      BY <1>10 DEF SwitchCall, NodeCall, OtherBankBatch, IncludeBatch, Quiet, historyVars
    <2> QED BY <1>2, <1>4, <1>5, <2>1 DEF AckInv
  <1>11. CASE BatchStep
    <2>1. UNCHANGED <<pending, acknowledged>>
      BY <1>11 DEF BatchStep, Quiet, historyVars
    <2>2. CASE BatchCommit /\ Emit(SettledEvents)
      <3>1. ~Idle /\ Idle' /\ ~BatchRollback /\ txn.done \in Seq(Payment)
        BY <1>0, <2>2 DEF BatchCommit, BatchRollback, Idle, TypeOK, Batch
      <3>2. books.ProcessedOffchainTx \subseteq N
        BY <1>1, <3>1, MarksGrow DEF AckInv
      <3>3. SettledEvents \in Seq(Event)
        BY <3>1, SettledTypes
      <3>4. \A i \in DOMAIN SettledEvents : EventMarked(N, SettledEvents[i])
        <4> SUFFICES ASSUME NEW i \in DOMAIN txn.done PROVE Marked(N, txn.done[i].tx)
          BY DEF SettledEvents, EventMarked
        <4> QED BY <3>1, <3>2 DEF AckInv, BatchMarks, Marked
      <3> HIDE DEF SettledEvents
      <3>5. EventsMarked'
        BY <1>7, <2>2, <3>3, <3>4 DEF Emit
      <3> QED BY <1>2, <1>4, <2>1, <3>5 DEF AckInv
    <2> QED BY <1>2, <1>4, <1>5, <1>11, <2>1, <2>2 DEF BatchStep, AckInv
  <1>12. CASE \E u, v \in User, a \in Amount, t \in TxId : SubmitPayment(u, v, a, t)
    <2>1. PICK u \in User, v \in User, a \in Amount, t \in TxId : SubmitPayment(u, v, a, t)
      BY <1>12
    <2>2. PICK p : p.tx = t /\ pending' = Append(pending, p)
      BY <2>1 DEF SubmitPayment
    <2>3. UNCHANGED inbox /\ acknowledged' = acknowledged \cup {t}
      BY <2>1 DEF SubmitPayment
    <2>4. Len(pending) + 1 \in DOMAIN pending' /\ pending'[Len(pending) + 1] = p
          /\ \A i \in DOMAIN pending : i \in DOMAIN pending' /\ pending'[i] = pending[i]
      BY <1>0, <2>2
    <2>5. Holds(pending', t) /\ \A w : Holds(pending, w) => Holds(pending', w)
      BY <2>2, <2>4 DEF Holds
    <2> QED BY <1>2, <1>5, <2>3, <2>5 DEF AckInv, Kept
  <1>13. CASE HandleEvent
    <2>1. inbox # <<>> /\ inbox' = Tail(inbox) /\ UNCHANGED acknowledged
      BY <1>13 DEF HandleEvent, historyVars
    <2>2. ~Concerns(Head(inbox)) => pending' = pending
      BY <1>13 DEF HandleEvent
    <2>3. ASSUME Concerns(Head(inbox)), NEW w \in acknowledged PROVE Kept(w)'
      <3> DEFINE h == Head(inbox).item.tx
      <3>1. pending' = SX!FoldLeft(Retain, <<>>, pending)
        BY <1>13, <2>3 DEF HandleEvent
      <3>2. w # h /\ Holds(pending, w) => Holds(pending', w)
        BY <1>0, <3>1, RetainedQueue
      <3>3. Head(inbox) = inbox[1] /\ 1 \in DOMAIN inbox
        BY <1>0, <2>1
      <3>4. Marked(M, h)
        BY <2>3, <3>3 DEF AckInv, EventsMarked, EventMarked, Concerns
      <3> HIDE DEF h
      <3> QED BY <1>2, <3>2, <3>4 DEF AckInv, Kept
    <2>4. \A w \in acknowledged' : Kept(w)'
      BY <1>4, <2>1, <2>2, <2>3
    <2> QED BY <1>2, <1>6, <2>1, <2>4 DEF AckInv
  <1>14. CASE LoseEvent
    <2>1. inbox # <<>> /\ inbox' = Tail(inbox) /\ UNCHANGED <<pending, acknowledged>>
      BY <1>14 DEF LoseEvent
    <2> QED BY <1>2, <1>4, <1>6, <2>1 DEF AckInv
  <1>15. CASE PackBegins \/ PackSubmits
    <2>1. UNCHANGED <<pending, acknowledged, inbox>>
      BY <1>15 DEF PackBegins, PackSubmits, PendingOnceSubmitted, historyVars
    <2> QED BY <1>2, <1>4, <1>5, <2>1 DEF AckInv
  <1>16. CASE PackFails
    <2>1. UNCHANGED inbox /\ acknowledged' \subseteq acknowledged
      BY <1>16 DEF PackFails
    <2>2. \A t \in acknowledged' : Holds(pending, t) => Holds(pending', t)
      BY <1>16, FailTypes
    <2> QED BY <1>2, <1>5, <2>1, <2>2 DEF AckInv, Kept
  <1>17. CASE Restart
    BY <1>2, <1>5, <1>17 DEF Restart, AckInv
  <1>18. (\E u \in User, a \in Amount : DepositCall(u, a)) \/
         (\E u \in DOMAIN UserBank :
             \E a \in Amount \cup {books.DepositBalance[UserBank[u]][u]} : WithdrawCall(u, a))
         => \E u \in User, a \in Nat : DepositCall(u, a) \/ WithdrawCall(u, a)
    <2>1. \A u \in DOMAIN UserBank : u \in User /\ books.DepositBalance[UserBank[u]][u] \in Nat
      BY <1>0, BooksFields DEF TypeOK, IsMap, GoodBooks
    <2> QED BY <2>1, PalletAssumption
  <1> QED BY <1>8, <1>9, <1>10, <1>11, <1>12, <1>13, <1>14, <1>15, <1>16, <1>17, <1>18
          DEF NodeNext, ChainStep, NodeStep

\* The node keeps every payment it has acknowledged until the payment's id is settled on
\* chain, whatever becomes of its batches and of the events, unless it takes the payment back
\* after a failed submission or restarts (ledger.rs, packer.rs).
THEOREM AcknowledgedAlwaysKept == NodeSpec => []AcknowledgedIsKept
  <1>1. NodeInit => AckInv
    BY DEF NodeInit, AckInv, BatchMarks, EventsMarked, Idle
  <1>2. AckInv /\ BalanceInv /\ NodeTypeOK /\ [NodeNext]_allVars => AckInv'
    BY AckStep DEF BalanceInv, OwnBankInv
  <1>3. AckInv => AcknowledgedIsKept
    BY DEF AckInv, Kept, Holds, Marked, AcknowledgedIsKept
  <1> QED BY <1>1, <1>2, <1>3, NodeInvCorrect, PTL DEF NodeSpec

-------------------------------------------------------------------------------
(* The numbers of the node's batches keep up with the chain's.                *)

MySeq == LastClearingBatchSeq[MyBank]

\* At most one batch waits in the pool, and its number is taken from the counter as it is or
\* the counter has caught up with the chain; a batch of this bank under way has left the pool.
SeqInv ==
    /\ MySeq =< batch_seq_counter + 1
    /\ \A e \in pool : e.seq =< batch_seq_counter \/ MySeq =< batch_seq_counter
    /\ \A e, f \in pool : e = f
    /\ packing # NoRound => packing.seq =< batch_seq_counter
    /\ ~Idle /\ txn.bank = MyBank => pool = {} /\ txn.seq =< batch_seq_counter + 1

\* Steps that change neither the numbers nor the batch under way.
LEMMA SeqQuiet ==
    ASSUME SeqInv, UNCHANGED <<LastClearingBatchSeq, batch_seq_counter, packing>>,
           pool' \subseteq pool,
           \/ Idle'
           \/ ~Idle /\ ~Idle' /\ txn'.bank = txn.bank /\ txn'.seq = txn.seq
           \/ ~Idle' /\ txn'.bank # MyBank
    PROVE  SeqInv'
  BY DEF SeqInv, MySeq

\* Every step of the node and of the chain.
LEMMA SeqStep ==
    ASSUME SeqInv, PalletInv, NodeTypeOK, [NodeNext]_allVars
    PROVE  SeqInv'
  <1>0. MySeq \in Nat /\ batch_seq_counter \in Nat /\ MyBank \in Bank
        /\ (~Idle => txn \in Batch) /\ (\A e \in pool : e.seq \in Nat)
        /\ LastClearingBatchSeq \in [Bank -> Nat]
    BY NodeAssumption DEF MySeq, PalletInv, TypeOK, NodeTypeOK, Idle
  <1>1. CASE UNCHANGED allVars \/ (RateStep /\ UNCHANGED nodeVars)
    <2>1. UNCHANGED <<LastClearingBatchSeq, batch_seq_counter, packing, pool, txn>>
      BY <1>1 DEF allVars, nodeVars, packerVars, vars, palletVars, RateStep
    <2> QED BY <2>1, SeqQuiet DEF Idle
  <1>2. CASE \/ \E u \in User, a \in Amount : DepositCall(u, a)
             \/ \E u \in DOMAIN UserBank :
                   \E a \in Amount \cup {books.DepositBalance[UserBank[u]][u]} : WithdrawCall(u, a)
             \/ \E u \in User, b \in Bank : SwitchCall(u, b)
             \/ NodeCall
    <2>1. UNCHANGED <<batch_seq_counter, packing, pool>>
      BY <1>2 DEF DepositCall, WithdrawCall, SwitchCall, NodeCall, Quiet, packerVars
    <2>2. \/ \E u, a : Deposit(u, a) \/ Withdraw(u, a)
          \/ \E u, b : SwitchBank(u, b) \/ BindBank(u, b)
          \/ \E b : UnregisterNode(b) \/ RegisterNode(b, b, b)
      BY <1>2 DEF DepositCall, WithdrawCall, SwitchCall, NodeCall
    <2>3. UNCHANGED <<LastClearingBatchSeq, txn>>
      BY <2>2 DEF Deposit, Withdraw, SwitchBank, BindBank, RegisterNode, UnregisterNode
    <2> QED BY <2>1, <2>3, SeqQuiet DEF Idle
  <1>3. CASE \E b \in Bank \ {MyBank} : \E p \in Items(b) : OtherBankBatch(b, p)
    <2>1. UNCHANGED <<LastClearingBatchSeq, batch_seq_counter, packing, pool>>
          /\ txn'.bank # MyBank
      BY <1>3 DEF OtherBankBatch, BatchBegin, Quiet, packerVars
    <2> QED BY <2>1, SeqQuiet
  <1>4. CASE \E e \in pool : IncludeBatch(e)
    <2>1. PICK e \in pool : IncludeBatch(e)
      BY <1>4
    <2>2. UNCHANGED <<LastClearingBatchSeq, batch_seq_counter, packing>> /\ pool' = pool \ {e}
          /\ Idle
      BY <2>1 DEF IncludeBatch, BatchBegin, palletVars, packerVars
    <2>3. CASE Idle'
      BY <2>2, <2>3, SeqQuiet
    <2>4. CASE ~Idle'
      <3>1. e.seq = MySeq + 1 /\ txn'.bank = MyBank /\ txn'.seq = e.seq
        BY <2>1, <2>2, <2>4 DEF IncludeBatch, BatchBegin, BatchAdmitted, Idle, palletVars, MySeq
      <3>2. e.seq =< batch_seq_counter + 1
        BY <1>0, <3>1 DEF SeqInv
      <3>3. pool' = {}
        BY <2>2 DEF SeqInv
      <3> QED BY <2>2, <3>1, <3>2, <3>3 DEF SeqInv, MySeq
    <2> QED BY <2>3, <2>4
  <1>5. CASE BatchStep
    <2>1. UNCHANGED <<batch_seq_counter, packing, pool>> /\ ~Idle
      BY <1>5 DEF BatchStep, Quiet, packerVars, BatchItem, BatchCommit, BatchRollback
    <2>2. CASE BatchItem
      <3>1. UNCHANGED LastClearingBatchSeq /\ txn'.bank = txn.bank /\ txn'.seq = txn.seq
        BY <1>0, <2>1, <2>2 DEF BatchItem, Batch
      <3> QED BY <2>1, <3>1, SeqQuiet
    <2>3. CASE BatchRollback
      BY <2>1, <2>3, SeqQuiet DEF BatchRollback, Idle
    <2>4. CASE BatchCommit
      <3>1. Idle' /\ LastClearingBatchSeq' = [LastClearingBatchSeq EXCEPT ![txn.bank] = txn.seq]
        BY <2>4 DEF BatchCommit, Idle
      <3>2. CASE txn.bank # MyBank
        <4>1. MySeq' = MySeq
          BY <1>0, <3>1, <3>2 DEF MySeq
        <4> QED BY <2>1, <3>1, <4>1 DEF SeqInv
      <3>3. CASE txn.bank = MyBank
        <4>1. MySeq' = txn.seq
          BY <1>0, <3>1, <3>3 DEF MySeq
        <4> QED BY <2>1, <3>1, <3>3, <4>1 DEF SeqInv
      <3> QED BY <3>2, <3>3
    <2> QED BY <1>5, <2>2, <2>3, <2>4 DEF BatchStep
  <1>6. CASE \/ \E u, v \in User, a \in Amount, t \in TxId : SubmitPayment(u, v, a, t)
             \/ HandleEvent \/ LoseEvent
    <2>1. UNCHANGED <<vars, packerVars, pool>>
      <3>1. HandleEvent \/ LoseEvent => UNCHANGED <<vars, packerVars, pool>>
        BY DEF HandleEvent, LoseEvent
      <3>2. ASSUME NEW u \in User, NEW v \in User, NEW a \in Amount, NEW t \in TxId,
                   SubmitPayment(u, v, a, t)
            PROVE  UNCHANGED <<vars, packerVars, pool>>
        BY <3>2 DEF SubmitPayment
      <3> QED BY <1>6, <3>1, <3>2
    <2>2. UNCHANGED <<LastClearingBatchSeq, batch_seq_counter, packing, pool, txn>>
      BY <2>1 DEF vars, palletVars, packerVars
    <2> QED BY <2>2, SeqQuiet DEF Idle
  <1>7. CASE PackBegins
    <2>1. Idle /\ Idle' /\ UNCHANGED <<LastClearingBatchSeq, pool>>
          /\ batch_seq_counter' = batch_seq_counter + 1 /\ packing'.seq = batch_seq_counter + 1
      BY <1>7 DEF PackBegins, NextBatchSeq, vars, palletVars, Idle
    <2> QED BY <1>0, <2>1 DEF SeqInv, MySeq
  <1>8. CASE PackSubmits
    <2>1. Idle' /\ UNCHANGED <<LastClearingBatchSeq, batch_seq_counter>> /\ packing' = NoRound
          /\ pool' = {[seq |-> packing.seq, items |-> packing.items]} /\ packing # NoRound
      BY <1>8 DEF PackSubmits, vars, palletVars, Idle
    <2> QED BY <2>1 DEF SeqInv, MySeq
  <1>9. CASE PackFails
    <2>1. Idle' /\ UNCHANGED <<LastClearingBatchSeq, batch_seq_counter, pool>>
          /\ packing' = NoRound
      BY <1>9 DEF PackFails, vars, palletVars, Idle
    <2> QED BY <2>1 DEF SeqInv, MySeq
  <1>10. CASE Restart
    <2>1. Idle' /\ UNCHANGED <<LastClearingBatchSeq, pool>> /\ packing' = NoRound
          /\ batch_seq_counter' = MySeq
      BY <1>10 DEF Restart, InitialSeq, MySeq, vars, palletVars, Idle
    <2> QED BY <1>0, <2>1 DEF SeqInv, MySeq
  <1> QED BY <1>1, <1>2, <1>3, <1>4, <1>5, <1>6, <1>7, <1>8, <1>9, <1>10
          DEF NodeNext, ChainStep, NodeStep

\* However batches fail, are replaced in the pool or settled after a restart, the node's
\* numbers are behind the chain's by one at most (packer.rs, bootstrap.rs).
THEOREM NumbersAlwaysContinue == NodeSpec => []NumbersContinue
  <1>1. NodeInit => SeqInv
    BY NodeAssumption DEF NodeInit, SeqInv, MySeq, Idle
  <1>2. SeqInv /\ BalanceInv /\ NodeTypeOK /\ [NodeNext]_allVars => SeqInv'
    BY SeqStep DEF BalanceInv, OwnBankInv
  <1>3. SeqInv => NumbersContinue
    BY DEF SeqInv, MySeq, NumbersContinue
  <1> QED BY <1>1, <1>2, <1>3, NodeInvCorrect, PTL DEF NodeSpec
===============================================================================
