------------------------------ MODULE MCJobServer ------------------------------
(* Servers that register one type each: types share nothing but the nodes. *)
EXTENDS JobServer

OneType == {{t} : t \in Types}
=============================================================================
