--------------------------- MODULE MCNgxWorkers ---------------------------
(***************************************************************************)
(* Servers of two or three workers, of which one may die and be replaced.  *)
(***************************************************************************)
EXTENDS NgxWorkers

CONSTANTS p1, p2, p3, p4

MCSetups ==
    {[workers |-> {p1, p2}, locks |-> {"accept"}, crashes |-> 1],
     [workers |-> {p1, p2, p3}, locks |-> {"zone"}, crashes |-> 1],
     [workers |-> {p1, p2, p3}, locks |-> {"peers"}, crashes |-> 1],
     [workers |-> {p1, p2}, locks |-> {"zone", "peers"}, crashes |-> 1]}
=============================================================================
