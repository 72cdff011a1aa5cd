-------------------------- MODULE ConditionGrammar --------------------------
(***************************************************************************)
(* The condition grammar of app/turn/expression_evaluator.py, which        *)
(* core-api mirrors in app/services/condition_state.py.  A node compares a *)
(* field with a value or with another field and has at most one            *)
(* connective, so an expression is a chain of nodes: a sequence.  The      *)
(* evaluator associates to the right: "a AND b OR c" is a AND (b OR c).    *)
(*                                                                         *)
(* Numbers, flags, choices and names are integers; a field that is missing *)
(* reads as None.  The list and substring operators (in, contains,         *)
(* matches) are the same sort of leaf and are left out.                    *)
(***************************************************************************)
EXTENDS Integers, Sequences

CONSTANT None   \* what state_paths.get_field_value returns for a missing field

NoField == "no field"

(* a node with a leaf, and one that only has a connective *)
Leaf(field, op, value, conn) ==
  [field |-> field, op |-> op, value |-> value, ref |-> NoField, conn |-> conn]
Against(field, op, ref, conn) ==
  [field |-> field, op |-> op, value |-> 0, ref |-> ref, conn |-> conn]
Bare(conn) ==
  [field |-> NoField, op |-> "==", value |-> 0, ref |-> NoField, conn |-> conn]

HasLeaf(n) == n.field # NoField

(* extract_field_paths *)
Paths(e) == UNION {{e[i].field, e[i].ref} : i \in DOMAIN e} \ {NoField}

(* _COMPARISON_OPS: None equals only None, and orders with nothing (NaN) *)
Compare(a, op, b) ==
  \/ op = "==" /\ a = b
  \/ op = "!=" /\ a # b
  \/ /\ None \notin {a, b}
     /\ \/ op = "<" /\ a < b
        \/ op = "<=" /\ a <= b
        \/ op = ">" /\ a > b
        \/ op = ">=" /\ a >= b

(* _evaluate_leaf *)
LeafHolds(n, s) == Compare(s[n.field], n.op, IF n.ref = NoField THEN n.value ELSE s[n.ref])

(* evaluate and _evaluate_connective: the truth of the chain from node i on *)
Evaluate(e, s) ==
  LET from[i \in 1..Len(e)] ==
        LET n == e[i] IN
        CASE n.conn = "AND" -> (HasLeaf(n) => LeafHolds(n, s)) /\ from[i + 1]
          [] n.conn = "OR"  -> (HasLeaf(n) /\ LeafHolds(n, s)) \/ from[i + 1]
          [] n.conn = "NOT" -> (HasLeaf(n) => LeafHolds(n, s)) /\ ~from[i + 1]
          [] OTHER -> HasLeaf(n) /\ LeafHolds(n, s)
  IN e # <<>> /\ from[1]

(* An expression is read through the paths extract_field_paths names. *)
Holds(e, s) == Evaluate(e, [f \in Paths(e) |-> s[f]])
=============================================================================
