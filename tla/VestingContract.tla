--------------------------- MODULE VestingContract ---------------------------
(***************************************************************************)
(* contracts/VestingContract.sol: one grant per employee, vested by block  *)
(* time, paid by minting through the EquityToken's admin role.  The token  *)
(* and the registry are the modules this one extends, so release is one    *)
(* atomic transaction over the three contracts.                            *)
(*                                                                         *)
(* history is the GrantRevoked event log: what the last revocation of an   *)
(* employee's grant reported.                                              *)
(***************************************************************************)
EXTENDS EquityToken

CONSTANTS
  Vesting       \* the address of the VestingContract itself

ASSUME VestingAssumption == Vesting \in Account /\ Vesting # Deployer

VARIABLES
  vestingAdmin,     \* address admin
  grants,           \* mapping(address => Grant) grants
  blockTimestamp,   \* block.timestamp of the block transactions execute in
  revocationLog     \* employee -> GrantRevoked event, or NoEvent

vestingVars == <<vestingAdmin, grants, revocationLog>>

NoEvent == [claimable |-> 0, canceled |-> 0, released |-> 0]

VestingTypeOK ==
  /\ vestingAdmin \in Account
  /\ grants \in [Account -> Grant]
  /\ blockTimestamp \in Uint64
  /\ revocationLog \in [Account -> [claimable : Uint256, canceled : Uint256,
                                    released : Uint256]]

VestingInit ==
  /\ vestingAdmin = Deployer
  /\ grants = [a \in Account |-> NoGrant]
  /\ revocationLog = [a \in Account |-> NoEvent]

VestedAmount(employee) ==
  IF grants[employee].exists THEN VestedAmountAt(grants[employee], blockTimestamp) ELSE 0

\* The view reverts: so does every function that calls it.
VestedAmountReverts(employee) ==
  grants[employee].exists /\ MulOverflows(grants[employee], blockTimestamp)

VestingSetAdmin(sender, newAdmin) ==
  /\ sender = vestingAdmin
  /\ newAdmin # ZeroAddress
  /\ vestingAdmin' = newAdmin
  /\ UNCHANGED <<grants, revocationLog>>

\* What createGrant stores.
NewGrant(total, start, cliff, duration) ==
  [total |-> total, released |-> 0, start |-> start, cliff |-> cliff,
   duration |-> duration, exists |-> TRUE, revoked |-> FALSE, revokedAt |-> 0]

\* Mutant: the GrantAlreadyExists check is missing.
CreateGrantOverwriting(sender, employee, total, start, cliff, duration) ==
  /\ sender = vestingAdmin
  /\ employee # ZeroAddress
  /\ total > 0 /\ duration > 0 /\ cliff >= start
  /\ grants' = [grants EXCEPT ![employee] = NewGrant(total, start, cliff, duration)]
  /\ UNCHANGED <<vestingAdmin, revocationLog>>

\* Mutant: the "Cliff before start" check is missing.
CreateGrantAnyCliff(sender, employee, total, start, cliff, duration) ==
  /\ sender = vestingAdmin
  /\ employee # ZeroAddress
  /\ total > 0 /\ duration > 0
  /\ ~ grants[employee].exists
  /\ grants' = [grants EXCEPT ![employee] = NewGrant(total, start, cliff, duration)]
  /\ UNCHANGED <<vestingAdmin, revocationLog>>

CreateGrant(sender, employee, total, start, cliff, duration) ==
  /\ sender = vestingAdmin
  /\ employee # ZeroAddress
  /\ total > 0 /\ duration > 0 /\ cliff >= start
  /\ ~ grants[employee].exists
  /\ grants' = [grants EXCEPT ![employee] = NewGrant(total, start, cliff, duration)]
  /\ UNCHANGED <<vestingAdmin, revocationLog>>

\* Mutant: the revocation takes effect in the parent block.
RevokeGrantParentBlock(sender, employee) ==
  LET g      == grants[employee]
      vested == VestedAmountAt(g, blockTimestamp)
  IN  /\ sender = vestingAdmin
      /\ g.exists /\ ~ g.revoked
      /\ ~ MulOverflows(g, blockTimestamp)
      /\ vested >= g.released /\ g.total >= vested
      /\ grants' = [grants EXCEPT ![employee].revoked = TRUE,
                                  ![employee].revokedAt = blockTimestamp - 1]
      /\ revocationLog' = [revocationLog EXCEPT ![employee] =
                             [claimable |-> vested - g.released,
                              canceled  |-> g.total - vested,
                              released  |-> g.released]]
      /\ UNCHANGED vestingAdmin

RevokeGrant(sender, employee) ==
  LET g      == grants[employee]
      time   == blockTimestamp % (MaxUint64 + 1)     \* uint64(block.timestamp)
      vested == VestedAmountAt(g, time)
  IN  /\ sender = vestingAdmin
      /\ g.exists /\ ~ g.revoked
      /\ ~ MulOverflows(g, time)
      /\ vested >= g.released /\ g.total >= vested   \* checked subtractions
      /\ grants' = [grants EXCEPT ![employee].revoked = TRUE,
                                  ![employee].revokedAt = time]
      /\ revocationLog' = [revocationLog EXCEPT ![employee] =
                             [claimable |-> vested - g.released,
                              canceled  |-> g.total - vested,
                              released  |-> g.released]]
      /\ UNCHANGED vestingAdmin

\* Mutant: mints what has vested instead of what is unreleased.
ReleaseMintsVested(employee) ==
  LET g      == grants[employee]
      vested == VestedAmount(employee)
  IN  /\ g.exists
      /\ ~ VestedAmountReverts(employee)
      /\ vested > g.released
      /\ IsVerified(employee)
      /\ grants' = [grants EXCEPT ![employee].released = vested]
      /\ Mint(Vesting, employee, vested)
      /\ UNCHANGED <<vestingAdmin, revocationLog>>

\* Mutant: the payment is stored where the sum of all payments belongs.
ReleaseStoresPayment(employee) ==
  LET g          == grants[employee]
      unreleased == VestedAmount(employee) - g.released
  IN  /\ g.exists
      /\ ~ VestedAmountReverts(employee)
      /\ unreleased > 0
      /\ IsVerified(employee)
      /\ grants' = [grants EXCEPT ![employee].released = unreleased]
      /\ Mint(Vesting, employee, unreleased)
      /\ UNCHANGED <<vestingAdmin, revocationLog>>

\* Mutant: a revoked grant pays nothing any more.
ReleaseActiveOnly(employee) ==
  LET g      == grants[employee]
      vested == VestedAmount(employee)
  IN  /\ g.exists /\ ~ g.revoked
      /\ ~ VestedAmountReverts(employee)
      /\ vested > g.released
      /\ IsVerified(employee)
      /\ grants' = [grants EXCEPT ![employee].released = vested]
      /\ Mint(Vesting, employee, vested - g.released)
      /\ UNCHANGED <<vestingAdmin, revocationLog>>

\* Anyone may send it; the mint goes to the employee.
Release(employee) ==
  LET g          == grants[employee]
      vested     == VestedAmount(employee)
      unreleased == vested - g.released
  IN  /\ g.exists
      /\ ~ VestedAmountReverts(employee)
      /\ vested >= g.released                        \* checked subtraction
      /\ unreleased # 0
      /\ IsVerified(employee)
      /\ grants' = [grants EXCEPT ![employee].released = vested]
      /\ Mint(Vesting, employee, unreleased)
      /\ UNCHANGED <<vestingAdmin, revocationLog>>

=============================================================================
