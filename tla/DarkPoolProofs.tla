---------------------------- MODULE DarkPoolProofs ----------------------------
(***************************************************************************)
(* What holds of the orchestrator for every set of accounts, connectors,   *)
(* deposits and payloads and for any number of blocks.                     *)
(***************************************************************************)
EXTENDS DarkPool, TLAPS

\* What the storage says of an id, submitted or not.
OrdersInv ==
    \A id \in OrderIds :
        IF id \in orderSubmitted
        THEN /\ orders[id].trader = id.trader
             /\ orders[id].depositTxHash = id.depositTxHash
             /\ orders[id].depositAsset # orders[id].receiveAsset
        ELSE /\ orders[id].trader = NoAccount
             /\ orders[id].depositAsset = "BTC"
             /\ orders[id].receiveAsset = "BTC"

\* A submission has used up its deposit.
DepositsInv ==
    /\ \A id \in orderSubmitted : id.depositTxHash \in usedDepositTxHashes
    /\ DepositBacksOneOrder

\* The settlement events and the statuses tell the same story.
SettlementsInv ==
    /\ \A s \in RealSettlements :
          /\ s.ids[1] \in orderSubmitted /\ s.ids[2] \in orderSubmitted
          /\ s.ids[1] # s.ids[2]
          /\ orders[s.ids[1]].status = "Settled"
          /\ orders[s.ids[2]].status = "Settled"
          /\ CrossMatch(orders[s.ids[1]], orders[s.ids[2]])
    /\ \A s, t \in RealSettlements :
          {s.ids[1], s.ids[2]} \cap {t.ids[1], t.ids[2]} # {} => s = t
    /\ \A id \in orderSubmitted :
          orders[id].status = "Settled" =>
             \E s \in RealSettlements : id \in {s.ids[1], s.ids[2]}

\* The same for the cancellations.
CancellationsInv ==
    \A id \in OrderIds :
        id \in orderCancelled <=> id \in orderSubmitted /\ orders[id].status = "Cancelled"

IInv == /\ TypeOK
        /\ OrdersInv
        /\ DepositsInv
        /\ DepositsWereProven
        /\ SettlementsInv
        /\ CancellationsInv

------------------------------------------------------------------------------
\* The actions that write neither an order nor an event about one.
Bystander ==
    /\ UNCHANGED <<orders, usedDepositTxHashes, events>>
    /\ \A f \in Fdcs : verifiedDeposits[f] \subseteq verifiedDeposits'[f]

\* TypeOK of DarkPool holds of every reachable state.
THEOREM TypeCorrect == Spec => []TypeOK
<1> USE DEF TypeOK, adminVars, events
<1>1. Init => TypeOK
  BY DarkPoolAssumption
     DEF Init, DarkPoolAssumption, ZeroOrder, EncryptedOrder, AssetType, OrderStatus
<1>2. TypeOK /\ [Next]_vars => TypeOK'
  <2> SUFFICES ASSUME TypeOK, [Next]_vars PROVE TypeOK'
    OBVIOUS
  <2>1. ASSUME NEW sender \in Accounts, Administer(sender) PROVE TypeOK'
    BY <2>1 DEF Administer, TransferOwnership, SetEnclaveAddress, SetFdc,
                MockVerifyDeposit, OnlyOwner
  <2>2. ASSUME NEW sender \in Accounts, NEW txHash \in TxHashes,
               NEW d \in AssetType, NEW r \in AssetType,
               NEW p \in Payloads \cup {NoPayload},
               SubmitDarkOrder(sender, txHash, d, r, p)
        PROVE TypeOK'
    <3> DEFINE id == OrderId(sender, txHash, block)
    <3>1. id \in OrderIds
      BY DEF OrderId, OrderIds
    <3>2. [trader |-> sender, depositAsset |-> d, receiveAsset |-> r,
           depositTxHash |-> txHash, encryptedPayload |-> p,
           status |-> "Open", submittedAt |-> block] \in EncryptedOrder
      BY DarkPoolAssumption DEF DarkPoolAssumption, EncryptedOrder, OrderStatus
    <3> HIDE DEF id
    <3>3. orders' \in [OrderIds -> EncryptedOrder]
      BY <2>2, <3>1, <3>2 DEF SubmitDarkOrder, DepositIsFresh, id
    <3> QED
      BY <2>2, <3>1, <3>3 DEF SubmitDarkOrder, DepositIsFresh, id
  <2>3. ASSUME NEW sender \in Accounts, NEW id \in OrderIds,
               CancelOrder(sender, id)
        PROVE TypeOK'
    BY <2>3 DEF CancelOrder, IsOpen, EncryptedOrder, OrderStatus
  <2>4. ASSUME NEW sender \in Accounts, NEW idA \in OrderIds,
               NEW idB \in OrderIds, SettleDarkOrders(sender, idA, idB)
        PROVE TypeOK'
    <3>1. orders' \in [OrderIds -> EncryptedOrder]
      BY <2>4 DEF SettleDarkOrders, EncryptedOrder, OrderStatus
    <3>2. orderSettled' \subseteq [ids : OrderIds \X OrderIds, announced : SUBSET OrderIds]
      BY <2>4 DEF SettleDarkOrders
    <3> QED
      BY <2>4, <3>1, <3>2 DEF SettleDarkOrders
  <2>5. CASE NextBlock
    BY <2>5, DarkPoolAssumption DEF NextBlock, DarkPoolAssumption
  <2>6. CASE UNCHANGED vars
    BY <2>6 DEF vars
  <2> QED
    BY <2>1, <2>2, <2>3, <2>4, <2>5, <2>6 DEF Next, Trade, Settle
<1> QED
  BY <1>1, <1>2, PTL DEF Spec

\* Nothing is submitted, cancelled or settled after the constructor.
LEMMA InitIInv == Init => IInv
<1> SUFFICES ASSUME Init PROVE IInv
  OBVIOUS
<1>1. TypeOK
  BY DarkPoolAssumption
     DEF Init, DarkPoolAssumption, ZeroOrder, EncryptedOrder, AssetType,
         OrderStatus, TypeOK
<1>2. OrdersInv /\ DepositsInv /\ DepositsWereProven
  BY DEF Init, OrdersInv, ZeroOrder, DepositsInv, DepositBacksOneOrder,
         DepositsWereProven
<1>3. SettlementsInv /\ CancellationsInv
  BY DEF Init, SettlementsInv, RealSettlements, CancellationsInv
<1> QED
  BY <1>1, <1>2, <1>3 DEF IInv

\* An action that touches no order and no event keeps the invariant.
LEMMA BystanderIInv ==
    ASSUME IInv, TypeOK', Bystander
    PROVE  IInv'
<1> USE DEF Bystander, events, IInv
<1>1. OrdersInv'
  BY DEF OrdersInv
<1>2. DepositsInv' /\ DepositsWereProven'
  BY DEF DepositsInv, DepositBacksOneOrder, DepositsWereProven
<1>3. SettlementsInv' /\ CancellationsInv'
  BY DEF SettlementsInv, RealSettlements, CrossMatch, CancellationsInv
<1> QED
  BY <1>1, <1>2, <1>3

\* The order a submission writes is new: its id embeds a deposit that no
\* earlier order used.
LEMMA SubmissionIsFresh ==
    ASSUME IInv, NEW sender, NEW txHash, txHash \notin usedDepositTxHashes
    PROVE  OrderId(sender, txHash, block) \notin orderSubmitted
BY DEF IInv, DepositsInv, OrderId

\* submitDarkOrder keeps the invariant: it spends a deposit no order had.
LEMMA SubmitIInv ==
    ASSUME IInv, TypeOK', NEW sender \in Accounts, NEW txHash \in TxHashes,
           NEW d \in AssetType, NEW r \in AssetType,
           NEW p \in Payloads \cup {NoPayload},
           SubmitDarkOrder(sender, txHash, d, r, p)
    PROVE  IInv'
<1> DEFINE new == OrderId(sender, txHash, block)
<1>1. new \in OrderIds /\ new.trader = sender /\ new.depositTxHash = txHash
  BY DEF OrderId, OrderIds, IInv, TypeOK
<1>2. new \notin orderSubmitted
  BY SubmissionIsFresh DEF SubmitDarkOrder, DepositIsFresh
<1>3. /\ orders'[new].trader = sender
      /\ orders'[new].depositTxHash = txHash
      /\ orders'[new].depositAsset = d
      /\ orders'[new].receiveAsset = r
      /\ orders'[new].status = "Open"
      /\ \A id \in OrderIds \ {new} : orders'[id] = orders[id]
  BY <1>1 DEF SubmitDarkOrder, DepositIsFresh, IInv, TypeOK
<1>4. /\ orderSubmitted' = orderSubmitted \cup {new}
      /\ usedDepositTxHashes' = usedDepositTxHashes \cup {txHash}
      /\ UNCHANGED <<orderSettled, orderCancelled, verifiedDeposits>>
      /\ d # r
      /\ txHash \notin usedDepositTxHashes
      /\ VerifyDeposit(fdc, txHash)
  BY DEF SubmitDarkOrder, DepositIsFresh
<1>5. orderSubmitted \subseteq OrderIds /\ fdc \in Fdcs /\ orderCancelled \subseteq OrderIds
  BY DEF IInv, TypeOK
<1> HIDE DEF new
<1>6. OrdersInv'
  BY <1>1, <1>3, <1>4 DEF IInv, OrdersInv
<1>7. DepositsInv'
  <2>1. \A id \in orderSubmitted : orders[id].depositTxHash # txHash
    BY <1>4, <1>5 DEF IInv, OrdersInv, DepositsInv
  <2> QED
    BY <1>1, <1>2, <1>3, <1>4, <1>5, <2>1 DEF IInv, DepositsInv, DepositBacksOneOrder
<1>8. DepositsWereProven'
  BY <1>2, <1>3, <1>4, <1>5 DEF IInv, DepositsWereProven, VerifyDeposit
<1>9. SettlementsInv'
  BY <1>2, <1>3, <1>4, <1>5 DEF IInv, SettlementsInv, RealSettlements, CrossMatch
<1>10. CancellationsInv'
  BY <1>2, <1>3, <1>4, <1>5 DEF IInv, CancellationsInv
<1> QED
  BY <1>6, <1>7, <1>8, <1>9, <1>10 DEF IInv

\* cancelOrder keeps the invariant: the order it closes was open, so in no
\* settlement event.
LEMMA CancelIInv ==
    ASSUME IInv, TypeOK', NEW sender \in Accounts, NEW id \in OrderIds,
           CancelOrder(sender, id)
    PROVE  IInv'
<1>1. /\ orderCancelled' = orderCancelled \cup {id}
      /\ UNCHANGED <<orderSubmitted, orderSettled, usedDepositTxHashes, verifiedDeposits>>
      /\ orders[id].status = "Open"
      /\ orders' = [orders EXCEPT ![id].status = "Cancelled"]
  BY DEF CancelOrder, IsOpen
<1>2. orderSubmitted \subseteq OrderIds /\ orders \in [OrderIds -> EncryptedOrder]
  BY DEF IInv, TypeOK
<1>3. \A i \in OrderIds :
         /\ orders'[i].trader = orders[i].trader
         /\ orders'[i].depositTxHash = orders[i].depositTxHash
         /\ orders'[i].depositAsset = orders[i].depositAsset
         /\ orders'[i].receiveAsset = orders[i].receiveAsset
         /\ orders'[i].status = IF i = id THEN "Cancelled" ELSE orders[i].status
  BY <1>1, <1>2 DEF EncryptedOrder
\* An id nobody submitted belongs to address(0), which sends no transaction.
<1>4. id \in orderSubmitted
  BY DarkPoolAssumption DEF CancelOrder, IsOpen, IInv, OrdersInv, DarkPoolAssumption
<1>5. OrdersInv'
  <2> SUFFICES ASSUME NEW i \in OrderIds PROVE OrdersInv!(i)'
    BY DEF OrdersInv
  <2> QED
    BY <1>1, <1>3 DEF IInv, OrdersInv
<1>6. DepositsInv' /\ DepositsWereProven'
  BY <1>1, <1>2, <1>3
     DEF IInv, DepositsInv, DepositBacksOneOrder, DepositsWereProven
<1>7. SettlementsInv'
  BY <1>1, <1>2, <1>3 DEF IInv, SettlementsInv, RealSettlements, CrossMatch
<1>8. CancellationsInv'
  BY <1>1, <1>3, <1>4 DEF IInv, CancellationsInv
<1> QED
  BY <1>5, <1>6, <1>7, <1>8 DEF IInv

\* settleDarkOrders keeps the invariant: both orders were open, so in no earlier
\* event, and they cross.
LEMMA SettleIInv ==
    ASSUME IInv, TypeOK', NEW sender \in Accounts, NEW idA \in OrderIds,
           NEW idB \in OrderIds, SettleDarkOrders(sender, idA, idB)
    PROVE  IInv'
<1> DEFINE event == [ids |-> <<idA, idB>>, announced |-> {idA, idB} \cap orderSubmitted]
<1>1. /\ orderSettled' = orderSettled \cup {event}
      /\ UNCHANGED <<orderSubmitted, orderCancelled, usedDepositTxHashes, verifiedDeposits>>
      /\ orders[idA].status = "Open" /\ orders[idB].status = "Open"
      /\ CrossMatch(orders[idA], orders[idB])
  BY DEF SettleDarkOrders, IsOpen
<1>2. /\ event.ids[1] = idA /\ event.ids[2] = idB
      /\ event.announced = {idA, idB} \cap orderSubmitted
  OBVIOUS
<1>3. orderSubmitted \subseteq OrderIds /\ orders \in [OrderIds -> EncryptedOrder]
  BY DEF IInv, TypeOK
<1>4. orders' = [orders EXCEPT ![idA].status = "Settled", ![idB].status = "Settled"]
  BY DEF SettleDarkOrders, IsOpen
<1> HIDE DEF event
<1>5. \A i \in OrderIds :
         /\ orders'[i].trader = orders[i].trader
         /\ orders'[i].depositTxHash = orders[i].depositTxHash
         /\ orders'[i].depositAsset = orders[i].depositAsset
         /\ orders'[i].receiveAsset = orders[i].receiveAsset
         /\ orders'[i].status = IF i \in {idA, idB} THEN "Settled" ELSE orders[i].status
  BY <1>3, <1>4 DEF EncryptedOrder
\* Either both ids are submitted, and differ, or neither is.
<1>6. \/ idA \in orderSubmitted /\ idB \in orderSubmitted /\ idA # idB
      \/ event.announced = {}
  BY <1>1, <1>2 DEF IInv, OrdersInv, CrossMatch
<1>7. OrdersInv'
  <2> SUFFICES ASSUME NEW i \in OrderIds PROVE OrdersInv!(i)'
    BY DEF OrdersInv
  <2> QED
    BY <1>1, <1>5 DEF IInv, OrdersInv
<1>8. DepositsInv' /\ DepositsWereProven'
  BY <1>1, <1>3, <1>5
     DEF IInv, DepositsInv, DepositBacksOneOrder, DepositsWereProven
<1>9. CancellationsInv'
  BY <1>1, <1>5 DEF IInv, CancellationsInv
<1>10. SettlementsInv'
  <2>1. ASSUME NEW s \in RealSettlements
        PROVE  /\ s.ids[1] \in orderSubmitted /\ s.ids[2] \in orderSubmitted
               /\ s.ids[1] # s.ids[2]
               /\ orders[s.ids[1]].status = "Settled"
               /\ orders[s.ids[2]].status = "Settled"
               /\ CrossMatch(orders[s.ids[1]], orders[s.ids[2]])
               /\ {s.ids[1], s.ids[2]} \cap {idA, idB} = {}
    BY <1>1, <2>1 DEF IInv, SettlementsInv
  <2>2. CASE event.announced = {}
    <3>1. RealSettlements' = RealSettlements
      BY <1>1, <2>2 DEF RealSettlements
    <3>2. idA \notin orderSubmitted /\ idB \notin orderSubmitted
      BY <1>2, <2>2
    <3> QED
      BY <1>1, <1>3, <1>5, <2>1, <3>1, <3>2 DEF IInv, SettlementsInv, CrossMatch
  <2>3. CASE idA \in orderSubmitted /\ idB \in orderSubmitted /\ idA # idB
    <3>1. RealSettlements' = RealSettlements \cup {event}
      BY <1>1, <1>2, <2>3 DEF RealSettlements
    <3>2. SettlementsInv!1'
      BY <1>1, <1>2, <1>3, <1>5, <2>1, <2>3, <3>1 DEF CrossMatch
    <3>3. SettlementsInv!2'
      BY <1>2, <2>1, <3>1 DEF IInv, SettlementsInv
    <3>4. SettlementsInv!3'
      BY <1>1, <1>2, <1>3, <1>5, <3>1 DEF IInv, SettlementsInv
    <3> QED
      BY <3>2, <3>3, <3>4 DEF SettlementsInv
  <2> QED
    BY <1>6, <2>2, <2>3
<1> QED
  BY <1>7, <1>8, <1>9, <1>10 DEF IInv

\* Every step is a submission, a cancellation, a settlement or a bystander.
LEMMA NextIInv == IInv /\ TypeOK' /\ [Next]_vars => IInv'
<1> SUFFICES ASSUME IInv, TypeOK', [Next]_vars PROVE IInv'
  OBVIOUS
<1>1. ASSUME NEW sender \in Accounts, Administer(sender) PROVE IInv'
  BY <1>1, BystanderIInv
     DEF Administer, TransferOwnership, SetEnclaveAddress, SetFdc,
         MockVerifyDeposit, Bystander, events, IInv, TypeOK
<1>2. ASSUME NEW sender \in Accounts, Trade(sender) PROVE IInv'
  BY <1>2, SubmitIInv, CancelIInv DEF Trade
<1>3. ASSUME NEW sender \in Accounts, Settle(sender) PROVE IInv'
  BY <1>3, SettleIInv DEF Settle
<1>4. CASE NextBlock \/ UNCHANGED vars
  BY <1>4, BystanderIInv DEF NextBlock, vars, Bystander, events
<1> QED
  BY <1>1, <1>2, <1>3, <1>4 DEF Next

\* IInv holds of every reachable state: storage, used hashes and event logs of
\* the contract tell one story.
THEOREM Inductive == Spec => []IInv
<1>1. IInv /\ TypeOK' /\ [Next]_vars => IInv'
  BY NextIInv
<1> QED
  BY InitIInv, <1>1, TypeCorrect, PTL DEF Spec

------------------------------------------------------------------------------
\* The invariant says all that SettledInCrossingPairs asks.
LEMMA PairsFromIInv == IInv => SettledInCrossingPairs
<1> SUFFICES ASSUME IInv, NEW i \in orderSubmitted
             PROVE  SettledInCrossingPairs!(i)
  BY DEF SettledInCrossingPairs
<1> DEFINE naming == {s \in RealSettlements : i \in {s.ids[1], s.ids[2]}}
<1>1. \A s \in RealSettlements :
         /\ s.ids[1] \in orderSubmitted /\ s.ids[2] \in orderSubmitted
         /\ s.ids[1] # s.ids[2]
         /\ orders[s.ids[1]].status = "Settled"
         /\ orders[s.ids[2]].status = "Settled"
         /\ CrossMatch(orders[s.ids[1]], orders[s.ids[2]])
  BY DEF IInv, SettlementsInv
<1>2. \A s, t \in naming : s = t
  BY DEF IInv, SettlementsInv
<1>3. CASE orders[i].status = "Settled"
  <2>1. PICK s \in RealSettlements : i \in {s.ids[1], s.ids[2]}
    BY <1>3 DEF IInv, SettlementsInv
  <2>2. s \in naming /\ naming = {s}
    <3>1. s \in naming
      BY <2>1
    <3> QED
      BY <1>2, <3>1
  <2> DEFINE j == IF i = s.ids[1] THEN s.ids[2] ELSE s.ids[1]
  <2>3. j \in orderSubmitted \ {i} /\ orders[j].status = "Settled"
    BY <1>1, <2>1
  <2>4. s.ids \in {<<i, j>>, <<j, i>>}
    <3>1. s.ids = <<s.ids[1], s.ids[2]>>
      BY DEF IInv, TypeOK, RealSettlements
    <3> QED
      BY <2>1, <3>1
  <2>5. CrossMatch(orders[i], orders[j])
    BY <1>1, <2>1 DEF CrossMatch
  <2> HIDE DEF naming, j
  <2>6. \E e \in naming, k \in orderSubmitted \ {i} :
           /\ naming = {e}
           /\ e.ids \in {<<i, k>>, <<k, i>>}
           /\ CrossMatch(orders[i], orders[k])
           /\ orders[k].status = "Settled"
    BY <2>2, <2>3, <2>4, <2>5
  <2> QED
    BY <1>3, <2>6 DEF naming
<1>4. CASE orders[i].status # "Settled"
  <2>1. naming = {}
    BY <1>1, <1>4
  <2> QED
    BY <1>4, <2>1
<1> QED
  BY <1>3, <1>4

\* DepositBacksOneOrder: however the calls interleave, a deposit hash is spent
\* on one order only.
THEOREM DepositSafety == Spec => []DepositBacksOneOrder
<1>1. IInv => DepositBacksOneOrder
  BY DEF IInv, DepositsInv
<1> QED
  BY <1>1, Inductive, PTL

\* DepositsWereProven: no order without a verified deposit, whatever the owner
\* does to the connector.
THEOREM ProofSafety == Spec => []DepositsWereProven
<1>1. IInv => DepositsWereProven
  BY DEF IInv
<1> QED
  BY <1>1, Inductive, PTL

\* SettledInCrossingPairs: submitted orders are settled two by two, across.
THEOREM PairSafety == Spec => []SettledInCrossingPairs
BY PairsFromIInv, Inductive, PTL

\* RefundOrSwapNotBoth: no deposit is both refunded and swapped away.
THEOREM RefundSafety == Spec => []RefundOrSwapNotBoth
<1>1. IInv => RefundOrSwapNotBoth
  BY DEF IInv, TypeOK, SettlementsInv, CancellationsInv, RefundOrSwapNotBoth
<1> QED
  BY <1>1, Inductive, PTL

\* SubmittedOrdersAreImmutable: terms and final statuses are never rewritten.
THEOREM Immutability == Spec => SubmittedOrdersAreImmutable
<1> DEFINE Kept(i) ==
       /\ orders'[i] = [orders[i] EXCEPT !.status = orders'[i].status]
       /\ orders[i].status # "Open" => orders'[i].status = orders[i].status
<1>1. ASSUME IInv, [Next]_vars PROVE [\A i \in orderSubmitted : Kept(i)]_orders
  <2>1. orderSubmitted \subseteq OrderIds /\ orders \in [OrderIds -> EncryptedOrder]
    BY <1>1 DEF IInv, TypeOK
  <2>2. ASSUME NEW sender \in Accounts, Administer(sender) PROVE UNCHANGED orders
    BY <2>2 DEF Administer, TransferOwnership, SetEnclaveAddress, SetFdc,
                MockVerifyDeposit
  <2>3. ASSUME NEW sender \in Accounts, NEW txHash \in TxHashes,
               NEW d \in AssetType, NEW r \in AssetType,
               NEW p \in Payloads \cup {NoPayload},
               SubmitDarkOrder(sender, txHash, d, r, p)
        PROVE \A i \in orderSubmitted : Kept(i)
    <3>1. OrderId(sender, txHash, block) \notin orderSubmitted
      BY <1>1, <2>3, SubmissionIsFresh DEF SubmitDarkOrder, DepositIsFresh
    <3>2. \A i \in orderSubmitted : orders'[i] = orders[i]
      BY <2>1, <2>3, <3>1 DEF SubmitDarkOrder, DepositIsFresh
    <3> QED
      BY <2>1, <3>2 DEF EncryptedOrder
  <2>4. ASSUME NEW sender \in Accounts, NEW id \in OrderIds, CancelOrder(sender, id)
        PROVE \A i \in orderSubmitted : Kept(i)
    BY <2>1, <2>4 DEF CancelOrder, IsOpen, EncryptedOrder
  <2>5. ASSUME NEW sender \in Accounts, NEW idA \in OrderIds, NEW idB \in OrderIds,
               SettleDarkOrders(sender, idA, idB)
        PROVE \A i \in orderSubmitted : Kept(i)
    BY <2>1, <2>5 DEF SettleDarkOrders, IsOpen, EncryptedOrder
  <2>6. CASE NextBlock \/ UNCHANGED vars
    BY <2>6 DEF NextBlock, vars
  <2> QED
    BY <1>1, <2>2, <2>3, <2>4, <2>5, <2>6 DEF Next, Trade, Settle
<1> QED
  BY <1>1, Inductive, PTL DEF Spec, SubmittedOrdersAreImmutable

------------------------------------------------------------------------------
\* The record DepositEscrow keeps of a submitted order.
Deposit(i) == [deposit |-> orders[i].depositTxHash, asset |-> orders[i].depositAsset]

\* What an order that is neither settled nor cancelled means for its deposit.
LEMMA OpenIsPending ==
    ASSUME IInv, NEW i \in orderSubmitted, orders[i].status = "Open"
    PROVE  Escrow!Pending(orders[i].depositTxHash)
<1>1. orders[i].depositTxHash \notin RefundedDeposits
  BY DEF IInv, TypeOK, CancellationsInv, DepositsInv, DepositBacksOneOrder,
         RefundedDeposits
<1>2. orders[i].depositTxHash \notin UNION SwappedDeposits
  <2>1. ASSUME NEW s \in RealSettlements
        PROVE  /\ orders[i].depositTxHash # orders[s.ids[1]].depositTxHash
               /\ orders[i].depositTxHash # orders[s.ids[2]].depositTxHash
    BY DEF IInv, SettlementsInv, DepositsInv, DepositBacksOneOrder
  <2> QED
    BY <2>1 DEF SwappedDeposits
<1> QED
  BY <1>1, <1>2 DEF Escrow!Pending

\* submitDarkOrder is the escrow taking one deposit into custody.
LEMMA SubmitHolds ==
    ASSUME IInv, NEW sender \in Accounts, NEW txHash \in TxHashes,
           NEW d \in AssetType, NEW r \in AssetType,
           NEW p \in Payloads \cup {NoPayload},
           SubmitDarkOrder(sender, txHash, d, r, p)
    PROVE  Escrow!Hold(txHash, d)
<1> DEFINE new == OrderId(sender, txHash, block)
<1>1. new \in OrderIds
  BY DEF OrderId, OrderIds, IInv, TypeOK
<1>2. new \notin orderSubmitted
  BY SubmissionIsFresh DEF SubmitDarkOrder, DepositIsFresh
<1>3. /\ orders'[new].depositTxHash = txHash
      /\ orders'[new].depositAsset = d
      /\ \A id \in OrderIds \ {new} : orders'[id] = orders[id]
  BY <1>1 DEF SubmitDarkOrder, DepositIsFresh, IInv, TypeOK
<1>4. /\ orderSubmitted' = orderSubmitted \cup {new}
      /\ UNCHANGED <<orderSettled, orderCancelled>>
      /\ txHash \notin usedDepositTxHashes
  BY DEF SubmitDarkOrder, DepositIsFresh
<1>5. orderSubmitted \subseteq OrderIds
  BY DEF IInv, TypeOK
<1> HIDE DEF new
<1>6. \A h \in HeldDeposits : h.deposit # txHash
  BY <1>4, <1>5 DEF HeldDeposits, IInv, OrdersInv, DepositsInv
<1>7. HeldDeposits' = HeldDeposits \cup {[deposit |-> txHash, asset |-> d]}
  BY <1>2, <1>3, <1>4, <1>5 DEF HeldDeposits
<1>8. RefundedDeposits' = RefundedDeposits
  <2>1. orderCancelled \subseteq orderSubmitted
    BY DEF IInv, TypeOK, CancellationsInv
  <2> QED
    BY <1>2, <1>3, <1>4, <1>5, <2>1 DEF RefundedDeposits
<1>9. SwappedDeposits' = SwappedDeposits
  <2>1. RealSettlements' = RealSettlements
    BY <1>4 DEF RealSettlements
  <2>2. \A s \in RealSettlements :
           /\ orders'[s.ids[1]] = orders[s.ids[1]]
           /\ orders'[s.ids[2]] = orders[s.ids[2]]
    BY <1>2, <1>3, <1>5 DEF IInv, SettlementsInv
  <2> QED
    BY <2>1, <2>2 DEF SwappedDeposits
<1> QED
  BY <1>6, <1>7, <1>8, <1>9 DEF Escrow!Hold

\* Cancellations and settlements write statuses only.
LEMMA StatusOnly ==
    ASSUME IInv, UNCHANGED orderSubmitted,
           NEW ids \in SUBSET OrderIds, NEW status,
           \A i \in OrderIds : orders'[i] =
              IF i \in ids THEN [orders[i] EXCEPT !.status = status] ELSE orders[i]
    PROVE  /\ \A i \in OrderIds : orders'[i].depositTxHash = orders[i].depositTxHash
           /\ HeldDeposits' = HeldDeposits
<1>1. \A i \in OrderIds : orders[i] \in EncryptedOrder
  BY DEF IInv, TypeOK
<1>2. \A i \in OrderIds : /\ orders'[i].depositTxHash = orders[i].depositTxHash
                          /\ orders'[i].depositAsset = orders[i].depositAsset
  BY <1>1 DEF EncryptedOrder
<1>3. orderSubmitted \subseteq OrderIds
  BY DEF IInv, TypeOK
<1> QED
  BY <1>2, <1>3 DEF HeldDeposits

\* cancelOrder is the escrow giving one deposit back: only a submitted order has
\* a trader who could cancel it.
LEMMA CancelRefunds ==
    ASSUME IInv, NEW sender \in Accounts, NEW id \in OrderIds,
           CancelOrder(sender, id)
    PROVE  \E h \in HeldDeposits : Escrow!Refund(h)
<1>1. id \in orderSubmitted
  BY DarkPoolAssumption DEF CancelOrder, IsOpen, IInv, OrdersInv, DarkPoolAssumption
<1>2. /\ \A i \in OrderIds : orders'[i].depositTxHash = orders[i].depositTxHash
      /\ HeldDeposits' = HeldDeposits
  <2>1. \A i \in OrderIds : orders'[i] =
           IF i \in {id} THEN [orders[i] EXCEPT !.status = "Cancelled"] ELSE orders[i]
    BY DEF CancelOrder, IsOpen, IInv, TypeOK
  <2> QED
    BY <2>1, StatusOnly DEF CancelOrder, IsOpen
<1>3. Deposit(id) \in HeldDeposits /\ Deposit(id).deposit = orders[id].depositTxHash
  BY <1>1 DEF Deposit, HeldDeposits
<1>4. RefundedDeposits' = RefundedDeposits \cup {orders[id].depositTxHash}
  BY <1>2 DEF CancelOrder, IsOpen, RefundedDeposits, IInv, TypeOK
<1>5. SwappedDeposits' = SwappedDeposits
  <2>1. RealSettlements' = RealSettlements
    BY DEF CancelOrder, IsOpen, RealSettlements
  <2> QED
    BY <1>2, <2>1 DEF SwappedDeposits, IInv, TypeOK, RealSettlements
<1>6. Escrow!Pending(orders[id].depositTxHash)
  BY <1>1, OpenIsPending DEF CancelOrder, IsOpen
<1> QED
  BY <1>2, <1>3, <1>4, <1>5, <1>6 DEF Escrow!Refund

\* settleDarkOrders is the escrow swapping two deposits when both orders were
\* submitted, and nothing it can see when neither was; no other case crosses.
LEMMA SettleSwaps ==
    ASSUME IInv, NEW sender \in Accounts, NEW idA \in OrderIds,
           NEW idB \in OrderIds, SettleDarkOrders(sender, idA, idB)
    PROVE  \/ \E h, g \in HeldDeposits : Escrow!Swap(h, g)
           \/ UNCHANGED Escrow!vars
<1> DEFINE event == [ids |-> <<idA, idB>>, announced |-> {idA, idB} \cap orderSubmitted]
<1>1. /\ orderSettled' = orderSettled \cup {event}
      /\ UNCHANGED <<orderSubmitted, orderCancelled>>
      /\ orders[idA].status = "Open" /\ orders[idB].status = "Open"
      /\ CrossMatch(orders[idA], orders[idB])
  BY DEF SettleDarkOrders, IsOpen
<1>2. /\ event.ids[1] = idA /\ event.ids[2] = idB
      /\ event.announced = {idA, idB} \cap orderSubmitted
  OBVIOUS
<1> HIDE DEF event
<1>3. /\ \A i \in OrderIds : orders'[i].depositTxHash = orders[i].depositTxHash
      /\ HeldDeposits' = HeldDeposits
  <2>1. \A i \in OrderIds : orders'[i] =
           IF i \in {idA, idB} THEN [orders[i] EXCEPT !.status = "Settled"] ELSE orders[i]
    BY DEF SettleDarkOrders, IsOpen, IInv, TypeOK
  <2> QED
    BY <1>1, <2>1, StatusOnly
<1>4. RefundedDeposits' = RefundedDeposits
  BY <1>1, <1>3 DEF RefundedDeposits, IInv, TypeOK
<1>5. \A s \in RealSettlements : s.ids[1] \in OrderIds /\ s.ids[2] \in OrderIds
  BY DEF IInv, TypeOK, RealSettlements
<1>6. CASE event.announced = {}
  <2>1. RealSettlements' = RealSettlements
    BY <1>1, <1>6 DEF RealSettlements
  <2>2. SwappedDeposits' = SwappedDeposits
    BY <1>3, <1>5, <2>1 DEF SwappedDeposits
  <2> QED
    BY <1>3, <1>4, <2>2 DEF Escrow!vars
<1>7. CASE idA \in orderSubmitted /\ idB \in orderSubmitted
  <2>1. RealSettlements' = RealSettlements \cup {event}
    BY <1>1, <1>2, <1>7 DEF RealSettlements
  <2>2. SwappedDeposits' =
           SwappedDeposits \cup {{orders[idA].depositTxHash, orders[idB].depositTxHash}}
    BY <1>2, <1>3, <1>5, <2>1 DEF SwappedDeposits
  <2>3. /\ Deposit(idA) \in HeldDeposits /\ Deposit(idB) \in HeldDeposits
        /\ Deposit(idA).deposit = orders[idA].depositTxHash
        /\ Deposit(idB).deposit = orders[idB].depositTxHash
        /\ Deposit(idA).asset # Deposit(idB).asset
    BY <1>1, <1>7 DEF Deposit, HeldDeposits, CrossMatch, IInv, OrdersInv
  <2>4. /\ Escrow!Pending(orders[idA].depositTxHash)
        /\ Escrow!Pending(orders[idB].depositTxHash)
    BY <1>1, <1>7, OpenIsPending
  <2>5. Escrow!Swap(Deposit(idA), Deposit(idB))
    BY <1>3, <1>4, <2>2, <2>3, <2>4 DEF Escrow!Swap
  <2> QED
    BY <2>3, <2>5
<1> QED
  BY <1>1, <1>2, <1>6, <1>7 DEF IInv, OrdersInv, CrossMatch

\* ImplementsEscrow: the contract is a correct escrow of deposits, for any
\* number of traders, deposits and blocks and any enclave.
THEOREM Refinement == Spec => ImplementsEscrow
<1>1. Init => Escrow!Init
  BY DEF Init, Escrow!Init, HeldDeposits, RefundedDeposits, SwappedDeposits,
         RealSettlements
<1>2. ASSUME IInv, [Next]_vars PROVE [Escrow!Next]_(Escrow!vars)
  <2>1. ASSUME UNCHANGED <<orders, events>> PROVE UNCHANGED Escrow!vars
    BY <2>1 DEF events, Escrow!vars, HeldDeposits, RefundedDeposits,
                SwappedDeposits, RealSettlements
  <2>2. ASSUME NEW sender \in Accounts, Administer(sender)
        PROVE  UNCHANGED <<orders, events>>
    BY <2>2 DEF Administer, TransferOwnership, SetEnclaveAddress, SetFdc,
                MockVerifyDeposit
  <2>3. ASSUME NEW sender \in Accounts, Trade(sender) PROVE Escrow!Next
    BY <1>2, <2>3, SubmitHolds, CancelRefunds DEF Trade, Escrow!Next
  <2>4. ASSUME NEW sender \in Accounts, Settle(sender)
        PROVE  Escrow!Next \/ UNCHANGED Escrow!vars
    BY <1>2, <2>4, SettleSwaps DEF Settle, Escrow!Next
  <2>5. CASE NextBlock \/ UNCHANGED vars
    BY <2>1, <2>5 DEF NextBlock, vars
  <2> QED
    BY <1>2, <2>1, <2>2, <2>3, <2>4, <2>5 DEF Next
<1> QED
  BY <1>1, <1>2, Inductive, PTL DEF Spec, ImplementsEscrow, Escrow!Spec
==============================================================================
