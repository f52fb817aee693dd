------------------------------ MODULE MCDarkPool ------------------------------
(***************************************************************************)
(* Instances of DarkPool for TLC; the cfg files give the constants.        *)
(***************************************************************************)
EXTENDS DarkPool, TLC

\* Deposits are interchangeable: nothing in the contract orders them.
TxSymmetry == Permutations(TxHashes)

\* The enclave may settle ids of the first block's orders of the deployer
\* before, or without, their being submitted.
FewGuessable == {id \in OrderIds : id.trader = Deployer /\ id.block = 1}

\* The enclave may settle any id.
AllGuessable == OrderIds
==============================================================================
