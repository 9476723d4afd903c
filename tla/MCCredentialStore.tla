-------------------------- MODULE MCCredentialStore --------------------------
(***************************************************************************)
(* Instances of CredentialStore: two types of credential, of which an      *)
(* engine accepts the first, and a request that lacks a required field.    *)
(***************************************************************************)
EXTENDS CredentialStore, TLC

SqlInput == [type |-> "sql", fields |-> Required["sql"]]
WebInput == [type |-> "web_iq", fields |-> {"api_key"}]
Requests == {SqlInput, WebInput, [SqlInput EXCEPT !.fields = @ \ {"password"}]}

AllFaults == FaultKinds
NoFaults == {}

Symmetry == Permutations(Secrets) \cup Permutations(Procs)
=============================================================================
