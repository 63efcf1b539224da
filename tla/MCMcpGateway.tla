----------------------------- MODULE MCMcpGateway -----------------------------
(***************************************************************************)
(* Messages and rules for McpGateway.                                      *)
(***************************************************************************)
EXTENDS McpGateway, TLC

Num(n)  == [kind |-> "num", n |-> n]
True    == [kind |-> "bool", n |-> 1]

Message(kind, token, tool, tenant, args) ==
  [kind |-> kind, token |-> token, tool |-> tool, tenant |-> tenant,
   args |-> args]

One  == "amount" :> Num(1)
Two  == "amount" :> Num(2)
Yes  == "amount" :> True

MCRequests ==
  {Message("call", "valid", "pay", "t1", One), Message("call", "valid", "pay", "t1", Yes),
   Message("call", "valid", "wipe", "t2", One), Message("batch", "valid", "pay", "t1", One),
   Message("other", "valid", "pay", "t1", One), Message("call", "invalid", "pay", "t1", One)}

\* A rule leaves the payload, replaces the amount, or adds a field.
MCRewrites ==
  {<<One, One>>, <<One, Two>>, <<Yes, Yes @@ ("reviewed" :> Num(1))>>}

Symmetry == Permutations(Calls) \cup Permutations(Workers)

=============================================================================
