--------------------------- MODULE MCBrokerDaemon ---------------------------
EXTENDS BrokerDaemon, TLC

\* For checks of the invariants alone: AddressBound is a liveness property.
Symmetry == Permutations(Commands) \cup Permutations(Brokers) \cup Permutations(Versions)
============================================================================
