----------------------------- MODULE EquityTokenV2 -----------------------------
(***************************************************************************)
(* contracts/EquityTokenV2.sol: the token of the policy experiment.  Every *)
(* transfer asks transferPolicy first; mint does not; the two balance      *)
(* updates of transfer are unchecked, that is modulo 2^256.                *)
(***************************************************************************)
EXTENDS CompositePolicy

CONSTANTS
  Composite,    \* the address of the CompositePolicy
  MaxUint256    \* largest value of a uint256

ASSUME TokenV2Assumption ==
  /\ Composite \in Account /\ Composite \notin {FreezePolicy, GatePolicy, MinPolicy}
  /\ MaxUint256 \in Nat \ {0}

VARIABLES
  tokenAdmin,       \* address admin: no function changes it
  transferPolicy,   \* ITransferPolicy transferPolicy
  balanceOf,        \* mapping(address => uint256) balanceOf, address(0) included
  totalSupply       \* uint256 totalSupply

tokenVars == <<tokenAdmin, transferPolicy, balanceOf, totalSupply>>

Holder == Account \cup {ZeroAddress}

TokenTypeOK ==
  /\ tokenAdmin \in Account /\ transferPolicy \in Account
  /\ balanceOf \in [Holder -> 0 .. MaxUint256]
  /\ totalSupply \in 0 .. MaxUint256

TokenInit ==
  /\ tokenAdmin = Deployer
  /\ transferPolicy = Composite
  /\ balanceOf = [a \in Holder |-> 0]
  /\ totalSupply = 0

\* transferPolicy.canTransfer(this, from, to, amount)
PolicyVerdict(from, to, amount) ==
  IF transferPolicy = Composite THEN CompositeCanTransfer(from, to, amount)
  ELSE Decide(transferPolicy, from, to, amount)

SetTransferPolicy(sender, newPolicy) ==
  /\ sender = tokenAdmin
  /\ newPolicy # ZeroAddress
  /\ transferPolicy' = newPolicy
  /\ UNCHANGED <<tokenAdmin, balanceOf, totalSupply>>

\* Mutant: the recipient's balance is read before the sender's is written.
TransferStaleRecipient(sender, to, amount) ==
  /\ PolicyVerdict(sender, to, amount) = Allow
  /\ balanceOf[sender] >= amount
  /\ balanceOf' = [balanceOf EXCEPT ![sender] = @ - amount,
                                    ![to] = (balanceOf[to] + amount) % (MaxUint256 + 1)]
  /\ UNCHANGED <<tokenAdmin, transferPolicy, totalSupply>>

\* Mutant: the transfer does not ask the policy.
TransferWithoutPolicy(sender, to, amount) ==
  LET debited == [balanceOf EXCEPT ![sender] = @ - amount]
  IN  /\ balanceOf[sender] >= amount
      /\ balanceOf' = [debited EXCEPT ![to] = (@ + amount) % (MaxUint256 + 1)]
      /\ UNCHANGED <<tokenAdmin, transferPolicy, totalSupply>>

Transfer(sender, to, amount) ==
  LET debited == [balanceOf EXCEPT ![sender] = @ - amount]
  IN  /\ PolicyVerdict(sender, to, amount) = Allow
      /\ balanceOf[sender] >= amount
      /\ balanceOf' = [debited EXCEPT ![to] = (@ + amount) % (MaxUint256 + 1)]
      /\ UNCHANGED <<tokenAdmin, transferPolicy, totalSupply>>

Mint(sender, to, amount) ==
  /\ sender = tokenAdmin
  /\ to # ZeroAddress
  /\ totalSupply + amount <= MaxUint256
  /\ balanceOf[to] + amount <= MaxUint256
  /\ totalSupply' = totalSupply + amount
  /\ balanceOf' = [balanceOf EXCEPT ![to] = @ + amount]
  /\ UNCHANGED <<tokenAdmin, transferPolicy>>

=============================================================================
