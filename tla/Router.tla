-------------------------------- MODULE Router --------------------------------
(***************************************************************************)
(* src/http/Router.{h,cpp}: the tree addRoute builds, one level per path   *)
(* segment, and the search route() makes in it.                            *)
(*                                                                         *)
(* A segment of a pattern is a record: its text, ":" for every parameter,  *)
(* and the parameter's name.  A node is known by its path: the method,     *)
(* then the texts on the way from the method's root, so that the one       *)
(* paramChild of a node is its child ":".                                  *)
(***************************************************************************)
EXTENDS Integers, Sequences

CONSTANTS
    Word,       \* segments of request paths, percent-encoded as they come
    Decode      \* what urlDecode makes of each

ASSUME RouterAssumption == ":" \notin Word /\ DOMAIN Decode = Word

None == 0       \* no handler; the others are numbered as they are added

(* A router: its nodes, the name each parameter node keeps, the handlers.  *)
EmptyTree == [nodes |-> {}, pname |-> <<>>, handler |-> <<>>]

Node(m, p, i) == <<m>> \o [j \in 1 .. i |-> p[j].text]

(* The nodes of a pattern. *)
Path(m, p) == {Node(m, p, i) : i \in 0 .. Len(p)}

(* addRoute: a node on the way is created once, a parameter node with the  *)
(* name of the pattern that creates it; the last one takes the handler.    *)
AddRoute(t, m, p, h) ==
    LET all     == t.nodes \cup Path(m, p)
        name(n) == IF Len(n) = 1 THEN "" ELSE p[Len(n) - 1].name
        old(n)  == IF n \in t.nodes THEN t.handler[n] ELSE None
    IN  [nodes   |-> all,
         pname   |-> [n \in all |-> IF n \in t.nodes THEN t.pname[n] ELSE name(n)],
         handler |-> [n \in all |-> IF n = Node(m, p, Len(p)) THEN h ELSE old(n)]]

(* What a parameter is given.  Seeded fault: the segment as it came. *)
ValueRaw(seg) == seg
Value(seg)    == Decode[seg]

(* At a node, after the literal child was searched with a result.  Seeded  *)
(* fault: the parameter is not tried where there is a literal child.       *)
TriesParamGreedy(t, n, seg, result) ==
    Append(n, seg) \notin t.nodes /\ Append(n, ":") \in t.nodes
TriesParam(t, n, seg, result) ==
    result.h = None /\ Append(n, ":") \in t.nodes

Miss == [h |-> None, set |-> <<>>]

(* match at node n, with what it finds below: the literal child comes      *)
(* before the parameter.  set is what the search assigns in pathParams_,   *)
(* in order: a branch that fails leaves there what it has assigned.        *)
MatchAt(t, segs, found, n) ==
    LET i   == Len(n)
        lit == IF Append(n, segs[i]) \in t.nodes THEN found[Append(n, segs[i])] ELSE Miss
        par == Append(n, ":")
    IN  IF i > Len(segs) THEN [Miss EXCEPT !.h = t.handler[n]]
        ELSE IF TriesParam(t, n, segs[i], lit)
        THEN [h   |-> found[par].h,
              set |-> lit.set \o <<<<t.pname[par], Value(segs[i])>>>> \o found[par].set]
        ELSE lit

(* match at every node: a search depth first. *)
Match(t, segs) == LET found[n \in t.nodes] == MatchAt(t, segs, found, n) IN found

(* route, but for the default handler: a method nobody added has no root.  *)
Route(t, m, segs) == IF <<m>> \in t.nodes THEN Match(t, segs)[<<m>>] ELSE Miss

(* pathParam: the last value assigned to a name; "" if there is none.      *)
PathParam(set, name) ==
    LET at == {i \in DOMAIN set : set[i][1] = name}
    IN  IF at = {} THEN "" ELSE set[CHOOSE i \in at : \A j \in at : j <= i][2]
=============================================================================
