------------------------------ MODULE WriteSet ------------------------------
(***************************************************************************)
(* The write set of a transaction (write-set.c): a singly linked list of   *)
(* nodes [address, value], appended to at its tail.  The list is the       *)
(* sequence of its nodes from first_write_node on; a pointer to a node is  *)
(* its position and NULL is position 0.                                    *)
(***************************************************************************)
EXTENDS Naturals, Sequences

NULL == 0

WriteNode(A, V) == [address : A, value : V]

\* The node for address a, or NULL.  The code returns the first one it meets;
\* WritePut, the only caller of write_set_add, sees to it that there is one.
write_node_find(ws, a) ==
    IF \E i \in DOMAIN ws : ws[i].address = a
    THEN CHOOSE i \in DOMAIN ws : ws[i].address = a
    ELSE NULL

\* write_set_add, with its first and next cases: both leave the new node last.
write_set_add(ws, a, v) == Append(ws, [address |-> a, value |-> v])

write_node_overwrite(ws, i, v) == [ws EXCEPT ![i] = [@ EXCEPT !.value = v]]

\* A bug tm_write could have: appending without looking for an older node.
WritePut_NoFind(ws, a, v) == write_set_add(ws, a, v)

\* The body of tm_write's loop: overwrite the node of the address or add one.
WritePut(ws, a, v) ==
    LET i == write_node_find(ws, a)
    IN  IF i = NULL THEN write_set_add(ws, a, v)
                    ELSE write_node_overwrite(ws, i, v)

\* No two nodes for one address.
Distinct(ws) ==
    \A i, j \in DOMAIN ws : ws[i].address = ws[j].address => i = j
=============================================================================
