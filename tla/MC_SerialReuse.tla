--------------------------- MODULE MC_SerialReuse ---------------------------
(***************************************************************************)
(* VersionTree with a history variable: the highest serial version_create *)
(* has ever returned.                                                      *)
(***************************************************************************)
EXTENDS MC_VersionTree

VARIABLE issued

HistSpec ==
    /\ Init /\ issued = 0
    /\ [][Next /\ issued' = Max({issued} \cup {s \in Serials : versions'[s] # NONE})]_<<vars, issued>>

(* Spec 3: a version's serial is an auto-increment integer, its sole      *)
(* identity.  version_create never returns a serial it has returned before *)
(* (the versions table declares "serial integer primary key").            *)
SerialNeverReused ==
    [][\A s \in Serials : versions[s] = NONE /\ versions'[s] # NONE => s > issued]_<<vars, issued>>
=============================================================================
