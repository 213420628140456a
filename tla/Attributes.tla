----------------------------- MODULE Attributes -----------------------------
(***************************************************************************)
(* The attributes and policy tables of node.py, on top of VersionTree:    *)
(* attribute_set / attribute_del / attribute_copy, policy_set, the         *)
(* ON DELETE CASCADE that ties attributes to versions and policy rows to   *)
(* nodes, and the attribute filter of the listing (_parse_filters,         *)
(* _construct_filters).                                                    *)
(*                                                                         *)
(* A version's attributes are a function from Keys to Values or NONE, one *)
(* value per (serial, key): the table's primary key.                       *)
(***************************************************************************)
EXTENDS VersionTree

CONSTANTS
    Keys,         \* attribute keys
    PolicyKeys,   \* policy keys
    Values,       \* attribute and policy values, ordered like sqlite text
    EMPTYVALUE,   \* the empty string as a filter term's value
    FilterArgs    \* filter queries: sequences of parsed terms

ASSUME EMPTYVALUE \notin Values

VARIABLES
    attributes,   \* attributes[s][k]: the value of key k of serial s, or NONE
    policy        \* policy[n][k]: the value of key k of node n, or NONE

avars == <<vars, attributes, policy>>

NoAttributes == [k \in Keys |-> NONE]
NoPolicy     == [k \in PolicyKeys |-> NONE]

\* The (key, value) pairs a caller passes: a non-empty partial function.
Items(K) == UNION {[D -> Values] : D \in (SUBSET K) \ {{}}}

AInit ==
    /\ Init
    /\ attributes = [s \in Serials |-> NoAttributes]
    /\ policy = [n \in NodeIds |-> NoPolicy]

(* Mutant: attributes.serial without ON DELETE CASCADE.                    *)
AttrNoCascade == attributes' = attributes

(* attributes.serial references versions(serial) on delete cascade: a     *)
(* statement that deletes a version row deletes its attribute rows.        *)
AttrCascade ==
    attributes' = [s \in Serials |->
                     IF versions'[s] = NONE THEN NoAttributes ELSE attributes[s]]

(* Mutant: policy.node without ON DELETE CASCADE.                          *)
PolicyNoCascade == policy' = policy

(* policy.node references nodes(node) on delete cascade.                   *)
PolicyCascade ==
    policy' = [n \in NodeIds |-> IF nodes'[n] = NONE THEN NoPolicy ELSE policy[n]]

(* "insert or replace" of each pair: a missing serial fails the foreign   *)
(* key, so the caller's serial must name a version.                        *)
attribute_set(serial, items) ==
    /\ versions[serial] # NONE
    /\ attributes' = [attributes EXCEPT ![serial] =
                        [k \in Keys |-> IF k \in DOMAIN items THEN items[k]
                                        ELSE @[k]]]
    /\ UNCHANGED <<vars, policy>>

(* The given keys, or every key when none are given.                       *)
attribute_del(serial, keys) ==
    /\ attributes' = [attributes EXCEPT ![serial] =
                        [k \in Keys |-> IF keys = {} \/ k \in keys THEN NONE
                                        ELSE @[k]]]
    /\ UNCHANGED <<vars, policy>>

(* "insert or replace into attributes select dest, key, value ... where   *)
(* serial = source": the source's pairs overwrite the destination's, and   *)
(* the destination keeps its other keys. With pairs to copy, a missing     *)
(* destination fails the foreign key.                                      *)
attribute_copy(source, dest) ==
    LET copied == {k \in Keys : attributes[source][k] # NONE}
    IN  /\ copied # {} => versions[dest] # NONE
        /\ attributes' = [attributes EXCEPT ![dest] =
                            [k \in Keys |-> IF k \in copied THEN attributes[source][k]
                                            ELSE @[k]]]
        /\ UNCHANGED <<vars, policy>>

(* "insert or replace into policy" of each pair; the node must exist.      *)
policy_set(node, pairs) ==
    /\ nodes[node] # NONE
    /\ policy' = [policy EXCEPT ![node] =
                    [k \in PolicyKeys |-> IF k \in DOMAIN pairs THEN pairs[k] ELSE @[k]]]
    /\ UNCHANGED <<vars, attributes>>

ANext ==
    \/ Next /\ AttrCascade /\ PolicyCascade
    \/ \E s \in LiveSerials, items \in Items(Keys) : attribute_set(s, items)
    \/ \E s \in Serials, ks \in SUBSET Keys : attribute_del(s, ks)
    \/ \E src, dst \in Serials : attribute_copy(src, dst)
    \/ \E n \in LiveNodes, pairs \in Items(PolicyKeys) : policy_set(n, pairs)

ASpec == AInit /\ [][ANext]_avars
-----------------------------------------------------------------------------
(* The attribute filter of latest_version_list. A term is what            *)
(* _regexfilter captures: the '!', the key, the operator (NOOP when the    *)
(* group is empty) and the value (EMPTYVALUE when empty).                  *)

NOOP == ""
Ops  == {"==", "!=", "<=", ">=", "<", ">"}
Term == [neg : BOOLEAN, key : Keys, op : Ops \cup {NOOP}, value : Values \cup {EMPTYVALUE}]

(* A '!' makes an excluded key whatever follows it; an empty value an      *)
(* included key whatever the operator; an operator with a value a          *)
(* comparison; a value without an operator is dropped.                     *)
parse_filters(fq) ==
    LET T == {fq[i] : i \in DOMAIN fq}
    IN  [included |-> {t.key : t \in {t \in T : ~t.neg /\ t.value = EMPTYVALUE}},
         excluded |-> {t.key : t \in {t \in T : t.neg}},
         opers    |-> {t \in T : ~t.neg /\ t.value # EMPTYVALUE /\ t.op # NOOP}]

\* "a.value op ?", values ordered like text.
Compare(x, op, y) ==
    CASE op = "==" -> x = y  [] op = "!=" -> x # y
      [] op = "<=" -> x <= y [] op = ">=" -> x >= y
      [] op = "<"  -> x < y  [] op = ">"  -> x > y

(* The subquery "a.key in (..) and a.key not in (..) and ((a.key = ? and   *)
(* a.value op ?) or ...)": a condition on ONE attribute row a. With no     *)
(* term the join with attributes is dropped and every version passes;      *)
(* otherwise "select distinct" keeps a version when one of its attribute  *)
(* rows satisfies the whole condition.                                     *)
construct_filters(fq, attrs) ==
    LET P == parse_filters(fq)
        Row(k) ==
            /\ P.included # {} => k \in P.included
            /\ P.excluded # {} => k \notin P.excluded
            /\ P.opers # {} =>
                   \E t \in P.opers : t.key = k /\ Compare(attrs[k], t.op, t.value)
    IN  \/ P.included \cup P.excluded = {} /\ P.opers = {}
        \/ \E k \in Keys : attrs[k] # NONE /\ Row(k)

(* The filter as the docstring and the spec (section 4.5) define it: each *)
(* bare key must exist, each !key must not exist, and one of the          *)
(* comparisons holds on an existing attribute.                             *)
SpecFilter(fq, attrs) ==
    LET P == parse_filters(fq)
    IN  /\ \A k \in P.included : attrs[k] # NONE
        /\ \A k \in P.excluded : attrs[k] = NONE
        /\ P.opers # {} =>
               \E t \in P.opers : attrs[t.key] # NONE /\ Compare(attrs[t.key], t.op, t.value)

-----------------------------------------------------------------------------
ATypeOK ==
    /\ TypeOK
    /\ attributes \in [Serials -> [Keys -> Values \cup {NONE}]]
    /\ policy \in [NodeIds -> [PolicyKeys -> Values \cup {NONE}]]

(* Ids are reused (NewRowId), so a version or node created at an id that  *)
(* was deleted must not inherit the attribute or policy rows of the one   *)
(* before it: the cascades of version_remove, the purges and node_remove  *)
(* must have taken them.                                                   *)
FreshRowsStartEmpty ==
    [][/\ \A s \in Serials :
             versions[s] = NONE /\ versions'[s] # NONE => attributes'[s] = NoAttributes
       /\ \A n \in NodeIds :
             nodes[n] = NONE /\ nodes'[n] # NONE => policy'[n] = NoPolicy]_avars

(* The listing keeps exactly the versions whose attributes satisfy the    *)
(* filter as specified: "color==red,!archived" keeps only versions with   *)
(* color=red and no archived attribute.                                    *)
FilterAsSpecified ==
    \A s \in LiveSerials, fq \in FilterArgs :
        construct_filters(fq, attributes[s]) = SpecFilter(fq, attributes[s])
=============================================================================
