---------------------------- MODULE MCModuleLoad ----------------------------
(* Instances of ModuleLoad for TLC.                                         *)
EXTENDS ModuleLoad

A == <<"a">>
AB == <<"a", "b">>
ABC == <<"a", "b", "c">>
N == <<"native">>

MCPreloaded == <<[path |-> N, canonical |-> "native"]>>

MCCanonicals == {"main", "native", "one", "two"}
MCPaths == {A, AB, ABC, N}

\* A host that may answer anything, except that it has no module a.b.c.
MCLocate == [c \in MCCanonicals |-> [p \in MCPaths |->
  IF p = ABC THEN {Missing} ELSE MCCanonicals \cup {Missing}]]
=============================================================================
