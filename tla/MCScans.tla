-------------------------------- MODULE MCScans --------------------------------
(* The nodes, channels, starts and forms on which TLC runs Scans. *)
EXTENDS Scans

CONSTANTS n1, a

Everywhere == [n \in Nodes |-> Channels]

Started == {[node |-> n1, full |-> TRUE,  own |-> {},  adopted |-> NoneAdopted],
            [node |-> n1, full |-> FALSE, own |-> {a}, adopted |-> NoneAdopted]}

Posted == {[node |-> n1,     full |-> FALSE, own |-> {}],
           [node |-> n1,     full |-> TRUE,  own |-> {a}],
           [node |-> NoNode, full |-> FALSE, own |-> {a}]}
================================================================================
