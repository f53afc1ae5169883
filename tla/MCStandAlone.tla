---------------------------- MODULE MCStandAlone -----------------------------
(***************************************************************************)
(* Three workstations, a server and a tenant; targets an operator might    *)
(* give: a group, and a pattern that is none.                              *)
(***************************************************************************)
EXTENDS StandAlone

MCGroups ==
  [all           |-> {"w1", "w2", "w3", "s1", "t1"},
   windows       |-> {"w1", "w2", "w3", "s1"},
   entra_tenants |-> {"t1"}]

ExceptServers == "windows:!s1"

MCPatterns == [p \in {"windows", ExceptServers} |->
                 IF p = "windows" THEN MCGroups["windows"] ELSE {"w1", "w2", "w3"}]

=============================================================================
