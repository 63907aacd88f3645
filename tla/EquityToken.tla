----------------------------- MODULE EquityToken -----------------------------
(***************************************************************************)
(* contracts/EquityToken.sol: the share ledger.  The admin mints to and    *)
(* burns from any account; holders transfer; both sides of a transfer and  *)
(* the receiver of a mint are looked up in the IdentityRegistry during the *)
(* call.  += is checked uint256 arithmetic: an overflow reverts.           *)
(***************************************************************************)
EXTENDS IdentityRegistry, VestingMath

CONSTANTS
  NewTokenAdmin   \* the arguments the token's setAdmin is called with

ASSUME TokenAssumption == NewTokenAdmin \subseteq Account \cup {ZeroAddress}

VARIABLES
  totalSupply,   \* uint256 totalSupply
  tokenAdmin,    \* address admin
  balances       \* mapping(address => uint256) _balances

tokenVars == <<totalSupply, tokenAdmin, balances>>

TokenTypeOK ==
  /\ totalSupply \in Uint256
  /\ tokenAdmin \in Account
  /\ balances \in [Account -> Uint256]

TokenInit ==
  /\ totalSupply = 0
  /\ tokenAdmin = Deployer
  /\ balances = [a \in Account |-> 0]

\* Mutant: onlyAdmin is missing.
TokenSetAdminOpen(sender, newAdmin) ==
  /\ newAdmin # ZeroAddress
  /\ tokenAdmin' = newAdmin
  /\ UNCHANGED <<totalSupply, balances>>

TokenSetAdmin(sender, newAdmin) ==
  /\ sender = tokenAdmin
  /\ newAdmin # ZeroAddress
  /\ tokenAdmin' = newAdmin
  /\ UNCHANGED <<totalSupply, balances>>

\* Mutant: totalSupply += amount in an unchecked block of a wider type.
MintUnchecked(sender, to, amount) ==
  /\ sender = tokenAdmin
  /\ to # ZeroAddress
  /\ IsVerified(to)
  /\ totalSupply' = totalSupply + amount
  /\ balances' = [balances EXCEPT ![to] = @ + amount]
  /\ UNCHANGED tokenAdmin

Mint(sender, to, amount) ==
  /\ sender = tokenAdmin
  /\ to # ZeroAddress
  /\ IsVerified(to)
  /\ totalSupply + amount <= MaxUint256
  /\ balances[to] + amount <= MaxUint256
  /\ totalSupply' = totalSupply + amount
  /\ balances' = [balances EXCEPT ![to] = @ + amount]
  /\ UNCHANGED tokenAdmin

Burn(sender, from, amount) ==
  /\ sender = tokenAdmin
  /\ from # ZeroAddress
  /\ balances[from] >= amount
  /\ totalSupply >= amount
  /\ balances' = [balances EXCEPT ![from] = @ - amount]
  /\ totalSupply' = totalSupply - amount
  /\ UNCHANGED tokenAdmin

\* Mutant: both balances are read before either is written.
TransferCachedBalances(sender, to, amount) ==
  /\ to # ZeroAddress
  /\ balances[sender] >= amount
  /\ IsVerified(sender) /\ IsVerified(to)
  /\ balances[to] + amount <= MaxUint256
  /\ balances' = [balances EXCEPT ![sender] = @ - amount, ![to] = balances[to] + amount]
  /\ UNCHANGED <<totalSupply, tokenAdmin>>

\* Mutant: only the sender is looked up in the registry.
TransferSenderChecked(sender, to, amount) ==
  LET debited == [balances EXCEPT ![sender] = @ - amount]
  IN  /\ to # ZeroAddress
      /\ balances[sender] >= amount
      /\ IsVerified(sender)
      /\ debited[to] + amount <= MaxUint256
      /\ balances' = [debited EXCEPT ![to] = @ + amount]
      /\ UNCHANGED <<totalSupply, tokenAdmin>>

\* The two updates run in order, so a transfer to oneself leaves the balance.
Transfer(sender, to, amount) ==
  LET debited == [balances EXCEPT ![sender] = @ - amount]
  IN  /\ to # ZeroAddress
      /\ balances[sender] >= amount
      /\ IsVerified(sender) /\ IsVerified(to)
      /\ debited[to] + amount <= MaxUint256
      /\ balances' = [debited EXCEPT ![to] = @ + amount]
      /\ UNCHANGED <<totalSupply, tokenAdmin>>

=============================================================================
