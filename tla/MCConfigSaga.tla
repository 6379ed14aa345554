---------------------------- MODULE MCConfigSaga ----------------------------
(* ConfigSaga with two resources that exist or not: a provider, and one     *)
(* that needs it and is not hot-reloadable.                                 *)
EXTENDS ConfigSaga

CONSTANTS provider, user, a

MCResources == {provider, user}
MCValues == {a}
\* The table of the provider is read first.
MCTableOf == [r \in MCResources |-> IF r = provider THEN 1 ELSE 2]
\* validateTransform: what is referred to must exist.
MCValid == {c \in [MCResources -> MCValues \cup {Absent}] :
              c[user] # Absent => c[provider] # Absent}
MCSeed == [r \in MCResources |-> a]
=============================================================================
