------------------------------- MODULE MCHttpApi -------------------------------
(***************************************************************************)
(* Environments and requests for HttpApi.                                  *)
(***************************************************************************)
EXTENDS HttpApi

Client(id, key, apps, approves) ==
  [id |-> id, key |-> key, apps |-> apps, approves |-> approves]

\* k1 was given to two clients by mistake, and b uses two keys.
MCClients ==
  <<Client("a", "k1", {"shop", "bank"}, TRUE), Client("b", "k1", {"shop"}, FALSE),
    Client("b", "k2", {"*"}, TRUE)>>

Config(optional, admin, limit, webhook) ==
  [clients |-> MCClients, optional |-> optional, admin |-> admin,
   limit |-> limit, webhook |-> webhook]

MCConfigs == {Config(TRUE, NoValue, 1, FALSE), Config(FALSE, "root", 0, TRUE)}

Request(route, auth, app, declared, chunks) ==
  [route |-> route, auth |-> auth, app |-> app, declared |-> declared,
   chunks |-> chunks]

\* With BodyLimit 2: at the limit, over it, in one chunk or in two.
MCRequests ==
  {Request("decide", "k1", "shop", NoValue, <<1, 1>>),
   Request("decide", NoValue, "bank", 2, <<2>>),
   Request("decide", "k1", "bank", 3, <<3>>),
   Request("introspect", "k2", "bank", NoValue, <<0>>),
   Request("introspect", "k1", "bank", NoValue, <<2>>),
   Request("introspect", NoValue, "shop", NoValue, <<2>>),
   Request("decide", "k1", "bank", NoValue, <<2, 1>>),
   Request("decide", "k1", "bank", NoValue, <<2>>),
   Request("approve", "k2", "shop", NoValue, <<2>>),
   Request("approve", "k1", "shop", NoValue, <<2>>),
   Request("reload", "root", "shop", NoValue, <<1, 0>>)}

=============================================================================
