------------------------------- MODULE Addresses -------------------------------
(***************************************************************************)
(* The addresses of a deployment.  Account holds every address but         *)
(* address(0), those of contracts included; Deployer is the msg.sender or  *)
(* constructor argument that first administers a contract.                 *)
(***************************************************************************)
EXTENDS Integers, FiniteSets

CONSTANTS
  Account,      \* addresses other than address(0)
  ZeroAddress,  \* address(0)
  Deployer,     \* the first administrator of every contract
  NewAdmin      \* the addresses the contracts' setAdmin is called with

\* Account is finite: an address has 160 bits.
ASSUME AccountAssumption ==
  /\ IsFiniteSet(Account)
  /\ ZeroAddress \notin Account
  /\ Deployer \in Account
  /\ NewAdmin \subseteq Account \cup {ZeroAddress}

=============================================================================
