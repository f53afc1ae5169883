----------------------------- MODULE MCWorkflow -----------------------------
(***************************************************************************)
(* A small estate for TLC: two workstations of one collect node, a server  *)
(* of another, and a tenant that no node's limit selects.                  *)
(***************************************************************************)
EXTENDS WorkflowProperties

MCHosts  == {"w1", "w2", "l1", "t1"}
MCNodes  == {"windows", "linux"}
MCNodeOf == [w1 |-> "windows", w2 |-> "windows", l1 |-> "linux", t1 |-> "no node"]
MCRoles  == [windows |-> 2, linux |-> 1]

MCRunIds == {"local", "first", "second"}

\* Every run called the same, as the shipped workflow does.
LocalRunId == <<"local", "local">>

\* A run identifier of its own for every run.
FreshRunId == <<"first", "second">>

\* The inventory changes between runs: a host is retired, or there is nothing.
ServersAndStations == {{"w1", "w2", "l1"}, {"w1", "w2"}, {}}
OneScope           == {{"w1", "w2", "l1"}}
WithTenant         == {{"w1", "l1", "t1"}}

=============================================================================
