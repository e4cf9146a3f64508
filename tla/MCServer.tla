------------------------------ MODULE MCServer ------------------------------
(* Server with three servers, one of them the administrator's.             *)
EXTENDS Server, TLC

Kinds(kind) == [s \in Servers |-> [kind |-> IF s = Admin THEN "admin" ELSE kind, upstream |-> s]]

\* Registries with upstreams of their own; or two entries of "proxies", which
\* share a name.
MCConfigs == {Kinds("oci"), Kinds("proxy")}
=============================================================================
