----------------------------- MODULE MCSessions -----------------------------
(***************************************************************************)
(* Three addresses, of which 2 is the master's; each may be a processing   *)
(* host with up to three agents, and the first node of a swarm.            *)
(***************************************************************************)
EXTENDS Sessions

Node(h, n) == [address |-> h, agents |-> n]
NodeLists == {<<Node(1, m), Node(3, n)>> : m \in 0 .. 3, n \in 0 .. 2}
             \cup {<<Node(1, 1), Node(2, 1), Node(3, 1)>>,
                   <<Node(2, 1), Node(3, 2)>>, <<>>}
MCNetworks == [nodes : NodeLists, swarms : {<<>>, <<3>>}]
              \cup [nodes : {<<>>, <<Node(3, 1)>>},
                    swarms : {<<1, 2, 1>>, <<3, 3>>}]
=============================================================================
