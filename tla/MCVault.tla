------------------------------ MODULE MCVault ------------------------------
(* Small instances of Vault for TLC. *)
EXTENDS VaultProofs, FiniteSets, TLC

CONSTANTS d1, d2, w1, w2

Symmetry == Permutations(Devices)

\* Four revisions without a fault, three with one.
ThreeAfterFault == faults = 0 \/ HeadRev <= 3

NoneDeleted == leaving = {} /\ pending = {} /\ \A r \in DOMAIN hist : hist[r].alive

\* Liveness is checked with deletions or with a fault, not with both, and a
\* linked work that was deleted in the vault twice is not deleted once more. The
\* steps this cuts off, faults and deletions, have no fairness; whatever is fair
\* in a state that is left can still be taken there.
OneSetback ==
  /\ faults = 0 \/ NoneDeleted
  /\ leaving # {} /\ pending # {} => Cardinality({r \in DOMAIN hist : ~hist[r].alive}) <= 1

=============================================================================
