------------------------------ MODULE MCAccess ------------------------------
(* Small instances of Access for TLC: clients in the manner of               *)
(* keycloak/machine-clients.yaml, with some of their claims missing.         *)
EXTENDS Access, TLC

ReadWrite == {"sdep_read", "sdep_write"}

MCClients ==
  {[roles |-> {"sdep_ca"} \cup ReadWrite, id |-> "valid", named |-> TRUE],
   [roles |-> {"sdep_str"} \cup ReadWrite, id |-> "valid", named |-> FALSE],
   [roles |-> {"sdep_str", "sdep_read"}, id |-> "missing", named |-> TRUE],
   [roles |-> {"sdep_ca"} \cup ReadWrite, id |-> "invalid", named |-> TRUE]}

Symmetry == Permutations(Processes)
=============================================================================
