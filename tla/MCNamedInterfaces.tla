------------------------- MODULE MCNamedInterfaces -------------------------
(* Small instances of NamedInterfaces. *)
EXTENDS NamedInterfaces, FiniteSets

CONSTANTS n1, s1, g1

(* One interface or two.  n1 goes through all security groups, and through *)
(* the subnets when it is alone; the others have one group.  The floating  *)
(* IP belongs to one interface.                                            *)
Chosen ==
  {c \in AnyInterfaces :
     /\ Cardinality(DOMAIN c) \in 1..2
     /\ \A n \in DOMAIN c :
          /\ c[n].groups # {} /\ (n # n1 => c[n].groups = {g1})
          /\ c[n].subnet # s1 => DOMAIN c = {n1}
     /\ \A n, m \in DOMAIN c : c[n].fip = c[m].fip => n = m \/ c[n].fip = None}
=============================================================================
