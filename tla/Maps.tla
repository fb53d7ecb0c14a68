-------------------------------- MODULE Maps --------------------------------
(* std::map and std::unordered_map: functions whose domain is the key set. *)
EXTENDS Functions

IsMap(f, Keys) == DOMAIN f \subseteq Keys /\ f = [k \in DOMAIN f |-> f[k]]

(* f[key] = v, and f.erase(key). *)
Put(f, key, v) == [k \in DOMAIN f \cup {key} |-> IF k = key THEN v ELSE f[k]]
Erase(f, key) == Restrict(f, DOMAIN f \ {key})

(* *f.find(key), or what the caller uses when there is no entry. *)
Lookup(f, key, default) == IF key \in DOMAIN f THEN f[key] ELSE default
=============================================================================
