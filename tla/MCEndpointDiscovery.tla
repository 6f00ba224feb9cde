------------------------ MODULE MCEndpointDiscovery ------------------------
(* Instances of EndpointDiscovery for TLC. *)
EXTENDS EndpointDiscovery, TLC

Interchangeable == Permutations(Clients) \cup Permutations(Ports)
=============================================================================
