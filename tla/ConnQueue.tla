------------------------------ MODULE ConnQueue ------------------------------
(***************************************************************************)
(* What the pool of database connections (DBEnv, CDBConn) promises to its  *)
(* users: a free connection goes to one user at a time, the one that has   *)
(* been free longest first, and a connection that is given back is free    *)
(* again.  A pool that could not log in is empty and stays so.             *)
(***************************************************************************)
EXTENDS Naturals, Sequences

CONSTANTS Conns,   \* the connections
          Users,   \* the threads that use them
          Nobody   \* no connection

VARIABLES queue,   \* the free connections, the next one to be taken first
          inUse    \* the connection of every user, or Nobody

vars == <<queue, inUse>>

Init ==
  /\ \/ queue = <<>>
     \/ /\ queue \in Seq(Conns)
        /\ \A c \in Conns : \E i \in DOMAIN queue : queue[i] = c
        /\ \A i, j \in DOMAIN queue : queue[i] = queue[j] => i = j
  /\ inUse = [u \in Users |-> Nobody]

Take(u) ==
  /\ queue # <<>> /\ inUse[u] = Nobody
  /\ inUse' = [inUse EXCEPT ![u] = Head(queue)]
  /\ queue' = Tail(queue)

Give(u) ==
  /\ inUse[u] # Nobody
  /\ queue' = Append(queue, inUse[u])
  /\ inUse' = [inUse EXCEPT ![u] = Nobody]

Next == \E u \in Users : Take(u) \/ Give(u)

Spec == Init /\ [][Next]_vars
=============================================================================
