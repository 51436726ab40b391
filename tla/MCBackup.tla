------------------------------ MODULE MCBackup ------------------------------
(* Two cameras whose ids do not begin with 1, one of them tagged and with a *)
(* button's rule and an assignment; a section with a secret, and a plugin.  *)
EXTENDS Backup, TLC
CONSTANTS host, password, ip, red, blue, sand, p1, p2
MCSection == [core |-> <<host, password>>, plugin |-> <<ip>>]
In(n, d) == [name |-> n, data |-> d]
MCInputs == [mask |-> {In("night", 0)}, tag |-> {In("yard", 0)},
             device |-> {In("gate", 3), In("attic", 3)}, button |-> {In("leave", 0)}]
MCDb == [mask |-> {[id |-> 1, name |-> "day", data |-> 0]},
         tag |-> {[id |-> 1, name |-> "street", data |-> 0]},
         device |-> {[id |-> 2, name |-> "gate", data |-> 1], [id |-> 3, name |-> "door", data |-> 2]},
         button |-> {[id |-> 1, name |-> "leave", data |-> 0]},
         tagged |-> {<<2, 1>>}, assigned |-> {<<3, 1>>}, rule |-> {<<1, 1, 1>>},
         command |-> 0]
MCLast == [mask |-> 1, tag |-> 1, device |-> 3, button |-> 1]
Symmetry == Permutations(Posts) \cup Permutations(Colours)
=============================================================================
