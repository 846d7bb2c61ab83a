------------------------------- MODULE Graph -------------------------------
(***************************************************************************)
(* The property graph HydraDB holds, as far as tracegraph/loader.py and    *)
(* the readers depend on it.  A graph is a record of two sets: its         *)
(* vertices, each a <<label, key>> pair, and its edges, each a record with *)
(* a type and two endpoints.  Ids are derived from natural keys and both   *)
(* writers MERGE on the id, so writing a row twice changes nothing: a set  *)
(* is all the store can tell apart.  Vertex properties that the code reads *)
(* back (a mention's status) are kept by the modules that use them.        *)
(***************************************************************************)

EmptyGraph == [nodes |-> {}, edges |-> {}]

Node(label, key) == <<label, key>>

Edge(type, src, dst) == [type |-> type, src |-> src, dst |-> dst]

(***************************************************************************)
(* One UNWIND batch is one statement: it is applied whole or not at all.   *)
(***************************************************************************)
UpsertNodes(g, rows) == [g EXCEPT !.nodes = @ \cup rows]

(***************************************************************************)
(* The statement MATCHes both endpoints by label and id first, so the      *)
(* engine silently skips a row whose endpoint is absent.                   *)
(***************************************************************************)
UpsertEdges(g, rows) ==
    [g EXCEPT !.edges = @ \cup {e \in rows : e.src \in g.nodes /\ e.dst \in g.nodes}]

Joined(g, type, src, dst) == Edge(type, src, dst) \in g.edges

(* Where the edges of one type that leave a vertex lead. *)
Targets(g, type, src) == {e.dst : e \in {f \in g.edges : f.type = type /\ f.src = src}}

=============================================================================
