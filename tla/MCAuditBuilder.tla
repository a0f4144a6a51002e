--------------------------- MODULE MCAuditBuilder ---------------------------
(* Bodies around the capture limit, spellings that only trimming tells     *)
(* apart, and metadata that request and response disagree about.           *)
EXTENDS AuditBuilder, TLC

MCText == {"", " ", "a", " a", "b"}

MCTrim == [t \in MCText |-> CASE t = " " -> "" [] t = " a" -> "a" [] OTHER -> t]

MetaOf(name, uid) ==
    [name |-> name, namespace |-> "", uid |-> uid, resourceVersion |-> uid]

(* Lengths on both sides of the limit of 3, in every part of the body.     *)
Shapes == { [lead |-> l, doc |-> d, tail |-> t] : l \in {0, 3}, d \in {0, 2, 3, 4}, t \in {0, 1} }

MCBodies ==
    { [lead |-> s.lead, doc |-> s.doc, tail |-> s.tail, json |-> j[1], kind |-> j[2],
       code |-> j[3], meta |-> j[4]] :
        s \in Shapes,
        j \in { <<"object", "other", 0, MetaOf("a", "b")>>,
                <<"object", "other", 0, MetaOf(" ", "a")>>,
                <<"object", "Status", 0, MetaOf("", "")>>,
                <<"object", "Status", 409, MetaOf("", "")>>,
                <<"digits", "other", 0, MetaOf("", "")>>,
                <<"garbage", "other", 0, MetaOf("", "")>> } }

MCInfos == { [name |-> n, namespace |-> ns] : n \in {"", "b"}, ns \in {"a"} }

(* Chains of up to three proxies, with repetitions and padding, under two  *)
(* audit IDs and with and without X-Real-IP.                               *)
Chains == { <<"">>, <<" a">>, <<"a", "b">>, <<"b", " a", "b">>, <<" ", "a", " a">>, <<"a", "", "b">> }

MCHeaders ==
    { [auditID |-> id, forwardedFor |-> xff, realIP |-> real, remote |-> "b"] :
        id \in {" ", " a"}, xff \in Chains, real \in {"", " a"} }
=============================================================================
