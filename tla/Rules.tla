-------------------------------- MODULE Rules --------------------------------
(***************************************************************************)
(* The rule engine: which rules of a policy match a request.               *)
(*                                                                         *)
(* The data a rule reads is a function from dotted paths to values; a path *)
(* outside its domain is a missing field.  A value is a record             *)
(* [kind, v]: "num" a JSON number (true is 1, as Python has it), "digits"  *)
(* a text that float() can parse (v is the number), "text" any other text, *)
(* "list" a sequence of values, "null" null.                               *)
(***************************************************************************)
EXTENDS Lists

CONSTANT Contained(_, _)   \* the text of a is part of the text of b, ignoring case

Num(n)  == [kind |-> "num", v |-> n]
Text(t) == [kind |-> "text", v |-> t]
List(s) == [kind |-> "list", v |-> s]
Null    == [kind |-> "null", v |-> 0]

\* Python's ==, which never equates values of different kinds here.
Same(a, b) == a.kind = b.kind /\ a.v = b.v

Among(x, list) == \E i \in DOMAIN list.v : Same(list.v[i], x)

IsNumber(x) == x.kind \in {"num", "digits"}

\* float() of either side may raise, and then nothing matches.
NumericCompare(operator, actual, expected) ==
  /\ IsNumber(actual) /\ IsNumber(expected)
  /\ \/ operator = "gt"  /\ actual.v > expected.v
     \/ operator = "gte" /\ actual.v >= expected.v
     \/ operator = "lt"  /\ actual.v < expected.v
     \/ operator = "lte" /\ actual.v <= expected.v

ContainsValue(actual, expected) ==
  \/ actual.kind \in {"text", "digits"} /\ Contained(expected, actual)
  \/ actual.kind = "list" /\ Among(expected, actual)

Holds(operator, actual, expected) ==
  \/ operator = "exists"
  \/ operator = "eq"  /\ Same(actual, expected)
  \/ operator = "neq" /\ ~Same(actual, expected)
  \/ NumericCompare(operator, actual, expected)
  \/ operator = "in"  /\ expected.kind = "list" /\ Among(actual, expected)
  \/ /\ operator = "not_in"
     /\ expected.kind = "list"
     /\ ~Among(actual, expected)
  \/ operator = "contains" /\ ContainsValue(actual, expected)

\* A missing field matches no operator, not even neq or not_in.
EvaluateCondition(c, data) ==
  c.field \in DOMAIN data /\ Holds(c.operator, data[c.field], c.value)

\* An empty list of conditions counts as one that is not given.
EvaluateGroup(group, data) ==
  /\ \A i \in DOMAIN group.all : EvaluateCondition(group.all[i], data)
  /\ \/ group.any = <<>>
     \/ \E i \in DOMAIN group.any : EvaluateCondition(group.any[i], data)

\* The matching rules, in the order of the policy.
EvaluateRules(rules, data) ==
  Picked(rules, {i \in DOMAIN rules : EvaluateGroup(rules[i].condition, data)})

=============================================================================
