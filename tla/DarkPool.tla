------------------------------- MODULE DarkPool -------------------------------
(***************************************************************************)
(* The DarkPoolOrchestrator contract and the MockFDC it asks about         *)
(* deposits.  Each external function is one action: a transaction runs to  *)
(* its end or reverts, and a reverted call changes nothing, so its         *)
(* require()s are guards.  The order of transactions is arbitrary: any     *)
(* account may call anything at any time.                                  *)
(***************************************************************************)
EXTENDS Naturals, FiniteSets

CONSTANTS
    Accounts,     \* addresses that can send a transaction
    NoAccount,    \* address(0)
    Deployer,     \* the account that ran Deploy.s.sol
    Fdcs,         \* deployed data connectors (instances of MockFDC)
    TxHashes,     \* transaction hashes of external deposits
    NoHash,       \* bytes32(0) of an order that was never written
    Payloads,     \* non-empty encrypted payloads
    NoPayload,    \* the empty byte string
    MaxBlock,     \* bound on the number of blocks
    Guessable     \* ids that the enclave may settle though nobody submitted them

ASSUME DarkPoolAssumption ==
    /\ Deployer \in Accounts
    /\ NoAccount \notin Accounts
    /\ NoPayload \notin Payloads
    /\ MaxBlock \in Nat \ {0}

AssetType   == {"BTC", "XRP"}
OrderStatus == {"Open", "Settled", "Cancelled"}

(***************************************************************************)
(* keccak256 is taken to be injective, so the id computed from             *)
(* (msg.sender, depositTxHash, block.timestamp, block.prevrandao) is that  *)
(* tuple; time and randomness change together, with the block.             *)
(***************************************************************************)
OrderIds == [trader : Accounts, depositTxHash : TxHashes, block : 1..MaxBlock]

OrderId(sender, txHash, b) ==
    [trader |-> sender, depositTxHash |-> txHash, block |-> b]

EncryptedOrder ==
    [trader           : Accounts \cup {NoAccount},
     depositAsset     : AssetType,
     receiveAsset     : AssetType,
     depositTxHash    : TxHashes \cup {NoHash},
     encryptedPayload : Payloads \cup {NoPayload},
     status           : OrderStatus,
     submittedAt      : 0..MaxBlock]

\* What a Solidity mapping returns for an id nobody wrote: every field zero.
ZeroOrder ==
    [trader           |-> NoAccount,
     depositAsset     |-> "BTC",
     receiveAsset     |-> "BTC",
     depositTxHash    |-> NoHash,
     encryptedPayload |-> NoPayload,
     status           |-> "Open",
     submittedAt      |-> 0]

VARIABLES
    owner,               \* DarkPoolOrchestrator.owner
    fdc,                 \* the data connector in force
    fccEnclaveAddress,   \* the only account that may settle
    orders,              \* mapping(bytes32 => EncryptedOrder)
    usedDepositTxHashes, \* mapping(bytes32 => bool), as a set
    verifiedDeposits,    \* MockFDC.verifiedDeposits of each connector
    block,               \* number of the block being built
    orderSubmitted,      \* ids of all OrderSubmitted events
    orderSettled,        \* all OrderSettled events: the two ids, and which of
                         \* them an OrderSubmitted event had announced before
    orderCancelled       \* ids of all OrderCancelled events

adminVars == <<owner, fdc, fccEnclaveAddress>>
events    == <<orderSubmitted, orderSettled, orderCancelled>>
vars      == <<adminVars, orders, usedDepositTxHashes, verifiedDeposits,
               block, events>>

------------------------------------------------------------------------------
\* The constructor, called by the deployment script: the deployer owns the
\* contract and any non-zero address may be the first enclave.
Init ==
    /\ owner = Deployer
    /\ fdc \in Fdcs
    /\ fccEnclaveAddress \in Accounts
    /\ orders = [id \in OrderIds |-> ZeroOrder]
    /\ usedDepositTxHashes = {}
    /\ verifiedDeposits = [f \in Fdcs |-> {}]
    /\ block = 1
    /\ orderSubmitted = {}
    /\ orderSettled = {}
    /\ orderCancelled = {}

\* modifier onlyOwner
OnlyOwner(sender) == sender = owner

\* modifier onlyEnclave
OnlyEnclave(sender) == sender = fccEnclaveAddress

\* A slip to compare with: no check of the new owner.
TransferOwnership_unchecked(sender, newOwner) ==
    /\ OnlyOwner(sender)
    /\ owner' = newOwner
    /\ UNCHANGED <<fdc, fccEnclaveAddress, orders, usedDepositTxHashes,
                   verifiedDeposits, block, events>>

TransferOwnership(sender, newOwner) ==
    /\ OnlyOwner(sender)
    /\ newOwner # NoAccount
    /\ owner' = newOwner
    /\ UNCHANGED <<fdc, fccEnclaveAddress, orders, usedDepositTxHashes,
                   verifiedDeposits, block, events>>

SetEnclaveAddress(sender, newEnclave) ==
    /\ OnlyOwner(sender)
    /\ newEnclave # NoAccount
    /\ fccEnclaveAddress' = newEnclave
    /\ UNCHANGED <<owner, fdc, orders, usedDepositTxHashes,
                   verifiedDeposits, block, events>>

\* Fdcs holds contracts only, so the require(_fdc != address(0)) always passes.
SetFdc(sender, newFdc) ==
    /\ OnlyOwner(sender)
    /\ fdc' = newFdc
    /\ UNCHANGED <<owner, fccEnclaveAddress, orders, usedDepositTxHashes,
                   verifiedDeposits, block, events>>

\* MockFDC.mockVerifyDeposit: the connector's own owner is whoever deployed it
\* and never changes.
MockVerifyDeposit(sender, f, txHash) ==
    /\ sender = Deployer
    /\ verifiedDeposits' = [verifiedDeposits EXCEPT ![f] = @ \cup {txHash}]
    /\ UNCHANGED <<adminVars, orders, usedDepositTxHashes, block, events>>

\* A slip to compare with: the connector's answer is ignored.
VerifyDeposit_ignored(f, txHash) == txHash \in TxHashes

\* MockFDC.verifyDeposit looks at the hash only, not at amount or depositor.
VerifyDeposit(f, txHash) == txHash \in verifiedDeposits[f]

\* A slip to compare with: a cancelled order gives its deposit hash back.
DepositIsFresh_reusable(txHash) ==
    \A id \in orderSubmitted \ orderCancelled : orders[id].depositTxHash # txHash

\* require(!usedDepositTxHashes[depositTxHash])
DepositIsFresh(txHash) == txHash \notin usedDepositTxHashes

SubmitDarkOrder(sender, txHash, deposit, receive, payload) ==
    LET orderId == OrderId(sender, txHash, block)
    IN  /\ deposit # receive
        /\ DepositIsFresh(txHash)
        /\ payload # NoPayload
        /\ VerifyDeposit(fdc, txHash)
        /\ usedDepositTxHashes' = usedDepositTxHashes \cup {txHash}
        /\ orders' = [orders EXCEPT ![orderId] =
                        [trader           |-> sender,
                         depositAsset     |-> deposit,
                         receiveAsset     |-> receive,
                         depositTxHash    |-> txHash,
                         encryptedPayload |-> payload,
                         status           |-> "Open",
                         submittedAt      |-> block]]
        /\ orderSubmitted' = orderSubmitted \cup {orderId}
        /\ UNCHANGED <<adminVars, verifiedDeposits, block, orderSettled,
                       orderCancelled>>

\* Slips to compare with: one of the final statuses counts as open.
IsOpen_unlessSettled(orderId) == orders[orderId].status # "Settled"
IsOpen_unlessCancelled(orderId) == orders[orderId].status # "Cancelled"

\* require(status == OrderStatus.Open); Open is also the status of an id that
\* nobody submitted.
IsOpen(orderId) == orders[orderId].status = "Open"

CancelOrder(sender, orderId) ==
    /\ orders[orderId].trader = sender
    /\ IsOpen(orderId)
    /\ orders' = [orders EXCEPT ![orderId].status = "Cancelled"]
    /\ orderCancelled' = orderCancelled \cup {orderId}
    /\ UNCHANGED <<adminVars, usedDepositTxHashes, verifiedDeposits, block,
                   orderSubmitted, orderSettled>>

CrossMatch(a, b) == /\ a.depositAsset = b.receiveAsset
                    /\ b.depositAsset = a.receiveAsset

\* Nothing asks whether the two ids were ever submitted, or differ.
SettleDarkOrders(sender, idA, idB) ==
    /\ OnlyEnclave(sender)
    /\ IsOpen(idA) /\ IsOpen(idB)
    /\ CrossMatch(orders[idA], orders[idB])
    /\ orders' = [orders EXCEPT ![idA].status = "Settled",
                                ![idB].status = "Settled"]
    /\ orderSettled' = orderSettled \cup
          {[ids |-> <<idA, idB>>, announced |-> {idA, idB} \cap orderSubmitted]}
    /\ UNCHANGED <<adminVars, usedDepositTxHashes, verifiedDeposits, block,
                   orderSubmitted, orderCancelled>>

\* The chain moves on; block.timestamp and block.prevrandao change with it.
NextBlock ==
    /\ block < MaxBlock
    /\ block' = block + 1
    /\ UNCHANGED <<adminVars, orders, usedDepositTxHashes, verifiedDeposits,
                   events>>

Administer(sender) ==
    \/ \E a \in Accounts \cup {NoAccount} :
          TransferOwnership(sender, a) \/ SetEnclaveAddress(sender, a)
    \/ \E f \in Fdcs : SetFdc(sender, f)
    \/ \E f \in Fdcs, t \in TxHashes : MockVerifyDeposit(sender, f, t)

Trade(sender) ==
    \/ \E t \in TxHashes, d, r \in AssetType, p \in Payloads \cup {NoPayload} :
          SubmitDarkOrder(sender, t, d, r, p)
    \/ \E id \in OrderIds : CancelOrder(sender, id)

\* The enclave may name any two ids, submitted or not; Guessable bounds the
\* latter for TLC.
Settle(sender) ==
    \E idA, idB \in OrderIds :
        /\ {idA, idB} \subseteq orderSubmitted \cup Guessable
        /\ SettleDarkOrders(sender, idA, idB)

Next ==
    \/ \E sender \in Accounts : Administer(sender) \/ Trade(sender) \/ Settle(sender)
    \/ NextBlock

Spec == Init /\ [][Next]_vars

------------------------------------------------------------------------------
TypeOK ==
    /\ owner \in Accounts
    /\ fdc \in Fdcs
    /\ fccEnclaveAddress \in Accounts
    /\ orders \in [OrderIds -> EncryptedOrder]
    /\ usedDepositTxHashes \subseteq TxHashes
    /\ verifiedDeposits \in [Fdcs -> SUBSET TxHashes]
    /\ block \in 1..MaxBlock
    /\ orderSubmitted \subseteq OrderIds
    /\ orderSettled \subseteq [ids : OrderIds \X OrderIds, announced : SUBSET OrderIds]
    /\ orderCancelled \subseteq OrderIds

\* The settlements that name an order submitted before them.
RealSettlements == {s \in orderSettled : s.announced # {}}

\* A deposit backs at most one order, whoever submits it and in whichever
\* block: usedDepositTxHashes keeps the promise of its comment, over any
\* sequence of submissions, cancellations and changes of connector.
DepositBacksOneOrder ==
    \A i, j \in orderSubmitted :
        orders[i].depositTxHash = orders[j].depositTxHash => i = j

\* Every submitted order rests on a deposit that some data connector has
\* verified, also after the owner replaced the connector.
DepositsWereProven ==
    \A i \in orderSubmitted :
        \E f \in Fdcs : orders[i].depositTxHash \in verifiedDeposits[f]

\* A submitted order is settled exactly when one OrderSettled event names it,
\* and that event names one other submitted order of the opposite direction,
\* settled too: no trader is left with one leg of a swap, no order trades
\* twice, with itself, or with an id nobody submitted.
SettledInCrossingPairs ==
    \A i \in orderSubmitted :
        LET naming == {s \in RealSettlements : i \in {s.ids[1], s.ids[2]}}
        IN  IF orders[i].status = "Settled"
            THEN \E s \in naming, j \in orderSubmitted \ {i} :
                    /\ naming = {s}
                    /\ s.ids \in {<<i, j>>, <<j, i>>}
                    /\ CrossMatch(orders[i], orders[j])
                    /\ orders[j].status = "Settled"
            ELSE naming = {}

\* The enclave refunds a deposit when it sees OrderCancelled and pays it out
\* when it settles: no order is named by events of both kinds, and nothing is
\* refunded that was never submitted.
RefundOrSwapNotBoth ==
    /\ orderCancelled \subseteq orderSubmitted
    /\ \A s \in RealSettlements :
          s.ids[1] \notin orderCancelled /\ s.ids[2] \notin orderCancelled

\* A submitted order keeps its terms for ever, and a final status stays: no
\* later submission, cancellation or settlement rewrites it, and no settlement
\* moves an order that is not open.
SubmittedOrdersAreImmutable ==
    [][\A i \in orderSubmitted :
          /\ orders'[i] = [orders[i] EXCEPT !.status = orders'[i].status]
          /\ orders[i].status # "Open" => orders'[i].status = orders[i].status
      ]_orders

\* What the README promises of the contract ("validates the match",
\* "validates settlement instructions"): a settlement names submitted orders.
SettlementsNameSubmittedOrders ==
    \A s \in orderSettled : s.announced = {s.ids[1], s.ids[2]}

\* The deposits behind the orders, as DepositEscrow sees them.
HeldDeposits ==
    {[deposit |-> orders[i].depositTxHash, asset |-> orders[i].depositAsset] :
        i \in orderSubmitted}
RefundedDeposits == {orders[i].depositTxHash : i \in orderCancelled}
SwappedDeposits ==
    {{orders[s.ids[1]].depositTxHash, orders[s.ids[2]].depositTxHash} :
        s \in RealSettlements}

Escrow == INSTANCE DepositEscrow
            WITH Deposits <- TxHashes, held <- HeldDeposits,
                 refunded <- RefundedDeposits, swaps <- SwappedDeposits

\* The contract implements the escrow: every transaction takes in, refunds or
\* swaps deposits as DepositEscrow allows, or leaves all deposits alone.
ImplementsEscrow == Escrow!Spec
==============================================================================
