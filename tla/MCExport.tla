------------------------------ MODULE MCExport ------------------------------
(* Every history of four events under one genesis, in every relation to the *)
(* byte order of their addresses; every set of heads and of known heads;    *)
(* limits that bind by count, by bytes, by neither, or leave a page to the  *)
(* response cap.                                                            *)
EXTENDS Export

MCIdOrder == <<1, 2, 3, 4>>
MCSize == [e \in EventId |-> IF e = 3 THEN 2 ELSE 1]
MCProjectionLimits == {[events |-> 4, bytes |-> 5], [events |-> 3, bytes |-> 5],
                       [events |-> 4, bytes |-> 3]}
MCPageLimits == {[events |-> 4, bytes |-> 9, cap |-> 10], [events |-> 2, bytes |-> 4, cap |-> 9],
                 [events |-> 3, bytes |-> 3, cap |-> 9], [events |-> 3, bytes |-> 6, cap |-> 6]}
=============================================================================
