------------------------------ MODULE MCDecision ------------------------------
(***************************************************************************)
(* Policies, requests and callers for Decision.  Every operator, branch of *)
(* the engine and boundary of a score occurs in some combination of them.  *)
(***************************************************************************)
EXTENDS Decision

MCContained(a, b) ==
  \/ a = Text("gift") /\ b = Text("Gift card")
  \/ a = Num(7) /\ b.kind = "digits" /\ b.v = 7

Cond(f, o, x) == [field |-> f, operator |-> o, value |-> x]
AllOf(cs) == [all |-> cs, any |-> <<>>]
AnyOf(cs) == [all |-> <<>>, any |-> cs]

NoFields == [k \in {} |-> NoValue]

Rule(id, cond, decision, role) ==
  [id |-> id, condition |-> cond, decision |-> decision, penalty |-> 0,
   riskDelta |-> 4, payload |-> NoFields, flags |-> {}, role |-> role]

Amount  == <<"payload", "amount">>
Kind    == <<"payload", "kind">>
Vip     == <<"context", "vip">>
Balance == <<"verified", "ledger", "balance">>

Large   == Rule("large", AllOf(<<Cond(Amount, "gt", Num(5))>>), "CONFIRM", "boss")
Small   == Rule("small", AllOf(<<Cond(Amount, "lte", Num(8))>>), "SUGGEST",
                "clerk")
IsVip   == Rule("vip", AllOf(<<Cond(Vip, "exists", Num(0))>>), "ALLOW", NoValue)
Gift    == [Rule("gift", AnyOf(<<Cond(Kind, "contains", Text("gift")),
                                 Cond(Kind, "in", List(<<Text("coins")>>))>>),
                 "CONFIRM", "clerk")
              EXCEPT !.payload = ("reviewed" :> Num(1)), !.penalty = 3]
Odd     == Rule("odd", [all |-> <<Cond(Kind, "neq", Text("plain")),
                                  Cond(Kind, "not_in", List(<<Text("coins")>>))>>,
                        any |-> <<Cond(Amount, "gte", Num(9)),
                                  Cond(Amount, "eq", Num(1))>>],
                "CONFIRM", "boss")
Poor    == Rule("poor", AllOf(<<Cond(Balance, "lt", Num(3))>>), "BLOCK", NoValue)
Marked  == [Rule("marked", AllOf(<<Cond(Vip, "exists", Num(0))>>), "CONFIRM",
                 NoValue)
              EXCEPT !.flags = {"passport_signing_failed"}, !.riskDelta = 20]

\* Rules on what the engine itself reads, and on what it does not.
Sure    == Rule("sure", AllOf(<<Cond(<<"llm", "confidence">>, "gte", Num(17))>>),
                "CONFIRM", "boss")
Unsure  == Rule("unsure", AllOf(<<Cond(<<"llm", "confidence">>, "lt", Num(13))>>),
                "SUGGEST", NoValue)
Guess   == Rule("guess",
                AnyOf(<<Cond(<<"intent", "original">>, "eq", Text("unknown")),
                        Cond(<<"intent", "fallback_used">>, "eq", Num(1)),
                        Cond(<<"source">>, "eq", Text("chat"))>>),
                "CONFIRM", NoValue)
Agent   == Rule("agent",
                AnyOf(<<Cond(<<"agent", "permissions">>, "contains", Text("pay")),
                        Cond(<<"metadata", "flow">>, "contains", Text("gift"))>>),
                "ALLOW", NoValue)
Seven   == Rule("seven", AllOf(<<Cond(Amount, "contains", Num(7))>>), "CONFIRM",
                "seventh")

Pay(context, role) ==
  "pay" :> [permissions |-> {"pay"}, baseRisk |-> 5, role |-> role,
            context |-> context]

Gate(actions, threshold) ==
  [actions |-> actions, sources |-> {"chat"}, threshold |-> threshold,
   flag |-> "write_requires_confirmation"]

Plugin(actions, rules, gate) ==
  [allowMin |-> 17, suggestMin |-> 13, highRisk |-> 14, actions |-> actions,
   rules |-> rules, gate |-> gate, defaultRole |-> "end_user"]

MCPlugins ==
  {Plugin(Pay({}, NoValue), <<>>, Gate({"pay"}, 14)),
   Plugin(Pay({}, "owner"), <<Small, Large, IsVip>>, Gate({}, 14)),
   Plugin(Pay({"ledger"}, NoValue), <<Poor, IsVip>>, Gate({"wipe"}, 19)),
   Plugin(Pay({}, NoValue), <<Gift, Odd, Marked>>, Gate({"pay", "wipe"}, 16)),
   Plugin(Pay({}, NoValue), <<Agent, Seven, Sure, Unsure, Guess>>, Gate({}, 14))}

Intent(original, fallback, resolved) ==
  [given |-> TRUE, original |-> original, fallback |-> fallback,
   resolved |-> resolved]

NoIntent == [Intent(NoValue, FALSE, Null) EXCEPT !.given = FALSE]

Intents == {NoIntent, Intent("unknown", FALSE, Null),
            Intent("unknown", TRUE, Text("wipe")),
            Intent("known", TRUE, Text("pay")),
            Intent("known", FALSE, List(<<Text("pay")>>))}

Payload(amount, kind) == ("amount" :> amount) @@ ("kind" :> kind)

Request(action, permissions, source, payload, context, confidence, intent,
        shadow, tokens) ==
  [action |-> action, permissions |-> permissions, source |-> source,
   payload |-> payload, context |-> context, confidence |-> confidence,
   intent |-> intent, shadow |-> shadow, tokens |-> tokens,
   tenant |-> "t1", user |-> "ana",
   others |-> (<<"metadata", "flow">> :> Text("Gift card"))]

\* Every combination, without signed context.
Plain ==
  {Request(a, ps, s, p, c, n, i, sh, <<>>) :
     a \in {"pay", "wipe"}, ps \in {NoValue, {}, {"pay"}},
     s \in {"api", "chat"},
     p \in {NoFields, Payload(Num(1), Text("Gift card")),
            Payload(Num(9), Text("coins")),
            Payload([kind |-> "digits", v |-> 7], List(<<Text("gift")>>)),
            Payload(Text("many"), Text("odd"))
              @@ ("proposed_action" :> Text("wipe"))
              @@ ("proposed_category" :> Text("food"))},
     c \in {NoFields, "vip" :> Num(1)}, n \in {12, 13, 17},
     i \in Intents, sh \in BOOLEAN}

\* Tokens on both sides of every boundary, at Clocks 3 and 4.
Token(iss, iat, exp) ==
  [iss |-> iss, iat |-> iat, exp |-> exp, tenant |-> "t1", sub |-> "ana",
   sound |-> TRUE, object |-> TRUE, nbf |-> NoValue,
   context |-> ("balance" :> Num(iat))]

Good  == Token("ledger.internal", 3, 9)
Tokens ==
  {Good, Token("ledger.internal", 0, 9), Token("ledger.internal", 2, 3),
   Token("ledger.internal", 5, 9), Token("crm.internal", 3, 9),
   [Good EXCEPT !.tenant = "t2"], [Good EXCEPT !.sub = "bob"],
   [Good EXCEPT !.sub = NoValue, !.context = ("balance" :> Num(1))],
   [Good EXCEPT !.nbf = 5], [Good EXCEPT !.sound = FALSE],
   [Good EXCEPT !.object = FALSE]}

Signed ==
  {Request("pay", {"pay"}, "api", NoFields, c, 17, NoIntent, FALSE, ts) :
     c \in {NoFields},
     ts \in UNION {[1 .. n -> Tokens] : n \in 1 .. 2}}

MCRequests == Plain \cup Signed

Caller(authenticated, permissions) ==
  [authenticated |-> authenticated, permissions |-> permissions]

\* TRUSTED_LOCAL, clients with each kind of ceiling, and ANONYMOUS.
MCCallers ==
  {Caller(TRUE, NoValue), Caller(TRUE, {"*"}), Caller(TRUE, {"pay"}),
   Caller(TRUE, {"mail"}), Caller(TRUE, {}), Caller(FALSE, {})}

Ledger == [id |-> "ledger", issuer |-> "ledger.internal", maxAge |-> 2]
Crm    == [id |-> "crm", issuer |-> "crm.internal", maxAge |-> 2]

MCProviders == {<<Ledger, Crm>>, <<Ledger, [Crm EXCEPT !.id = "ledger"]>>}
MCClocks == {3, 4}

=============================================================================
