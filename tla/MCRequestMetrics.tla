-------------------------- MODULE MCRequestMetrics --------------------------
(***************************************************************************)
(* One request of every kind against every kind of answer.                 *)
(***************************************************************************)
EXTENDS RequestMetrics

Req(method, watch, info) == [method |-> method, watch |-> watch, info |-> info]
Resp(status, stream, proto) == [status |-> status, stream |-> stream, proto |-> proto]

(* A watch by name and by ?watch=1, which only the resolver understands; a *)
(* single object and a mutation with a stray watch=true; a request that is *)
(* refused and one that cannot be resolved.                                *)
MCKinds ==
    { Req("get", TRUE, "watch"), Req("get", FALSE, "watch"), Req("get", FALSE, "list"),
      Req("get", TRUE, "get"), Req("post", FALSE, "create"), Req("post", TRUE, "create"),
      Req("get", TRUE, "rejected"), Req("get", FALSE, "unresolved") }

MCAnswers ==
    { Resp(200, TRUE, "HTTP/2.0"), Resp(200, FALSE, "HTTP/1.1"), Resp(503, FALSE, "HTTP/2.0"),
      Resp(101, FALSE, "HTTP/1.1") }
=============================================================================
