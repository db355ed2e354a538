------------------------ MODULE MCContainerDiscovery ------------------------
EXTENDS ContainerDiscovery, TLC
HostSymmetry == Permutations(Hosts)
=============================================================================
