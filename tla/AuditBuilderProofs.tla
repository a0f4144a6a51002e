-------------------------- MODULE AuditBuilderProofs --------------------------
(***************************************************************************)
(* What Build makes of an exchange, for any capture limit and bodies of    *)
(* any size: no object is part of a body, truncation shows, the reference  *)
(* follows the response, a status is the backend's, and a chain of proxies *)
(* of any length is listed in its order.                                   *)
(***************************************************************************)
EXTENDS AuditBuilder, SequenceTheorems, WellFoundedInduction, TLAPS

Exchange ==
    [request : Bodies, response : Bodies, info : Infos, headers : Headers, code : StatusCodes]

(* The event, once there is one, is the one Build makes of its exchange.   *)
BuildInv == input \in Exchange /\ (Built => event = BuildOf(input))

(* Build runs once per exchange and nothing else writes the event.         *)
THEOREM BuildInvariant == Spec => []BuildInv
<1>1. Init => BuildInv
  BY DEF Init, BuildInv, Built, Exchange
<1>2. BuildInv /\ [Build]_vars => BuildInv'
  BY DEF BuildInv, Build, Built, vars
<1> QED BY <1>1, <1>2, PTL DEF Spec

----------------------------------------------------------------------------
(* Captures                                                                *)

(* What the first n bytes of a body are, part by part.                     *)
LEMMA CaptureFields ==
    ASSUME NEW body \in Body, NEW n \in Nat
    PROVE  LET lead == Least(body.lead, n)
               doc == Least(body.doc, n - lead)
               capture == CapturedPrefix(body, n)
           IN /\ capture.lead = lead
              /\ capture.doc = doc
              /\ capture.tail = Least(body.tail, n - lead - doc)
              /\ capture.json =
                   IF body.json = "object" /\ doc < body.doc THEN "garbage" ELSE body.json
              /\ capture.kind = body.kind /\ capture.code = body.code /\ capture.meta = body.meta
BY DEF CapturedPrefix, Body

(* The lesser of two lengths is a length.                                  *)
LEMMA LeastType ==
    ASSUME NEW a \in Nat, NEW b \in Nat
    PROVE  Least(a, b) \in Nat /\ Least(a, b) <= a /\ Least(a, b) <= b
BY DEF Least

(* A body within the limit is captured as it is.                           *)
LEMMA CaptureWhole ==
    ASSUME NEW body \in Body, ~Truncated(body)
    PROVE  CapturedPrefix(body, MaxBodyBytes) = body
<1>a. body.lead \in Nat /\ body.doc \in Nat /\ body.tail \in Nat /\ MaxBodyBytes \in Nat
  BY BuilderAssumption DEF Body
<1>1. body.lead + body.doc + body.tail <= MaxBodyBytes
  BY <1>a DEF Truncated, SizeOf
<1>2. /\ Least(body.lead, MaxBodyBytes) = body.lead
      /\ Least(body.doc, MaxBodyBytes - body.lead) = body.doc
      /\ Least(body.tail, MaxBodyBytes - body.lead - body.doc) = body.tail
      /\ ~(body.doc < body.doc)
  BY <1>a, <1>1 DEF Least
<1> QED BY <1>2 DEF CapturedPrefix, Body

(* Of a longer one exactly the limit is captured.                          *)
LEMMA CaptureCut ==
    ASSUME NEW body \in Body, Truncated(body)
    PROVE  SizeOf(CapturedPrefix(body, MaxBodyBytes)) = MaxBodyBytes
<1>1. /\ body.lead \in Nat /\ body.doc \in Nat /\ body.tail \in Nat /\ MaxBodyBytes \in Nat
      /\ body.lead + body.doc + body.tail > MaxBodyBytes
  BY BuilderAssumption DEF Body, Truncated, SizeOf
<1> QED BY <1>1, CaptureFields DEF SizeOf, Least

(* A captured part is blank only when the body is, or starts with as much  *)
(* white space as the limit allows.                                        *)
LEMMA CaptureBlank ==
    ASSUME NEW body \in Body, body.lead < MaxBodyBytes, body.doc > 0
    PROVE  ~IsBlank(CapturedPrefix(body, MaxBodyBytes))
<1>1. body.lead \in Nat /\ body.doc \in Nat /\ MaxBodyBytes \in Nat
  BY BuilderAssumption DEF Body
<1> QED BY <1>1, CaptureFields DEF IsBlank, Least

(* A body that is cut in its document decodes into nothing.                *)
LEMMA CutNeverDecodes ==
    ASSUME NEW body \in Body, Truncated(body), body.tail = 0
    PROVE  ~Decodes(CapturedPrefix(body, MaxBodyBytes))
<1>a. body.lead \in Nat /\ body.doc \in Nat /\ MaxBodyBytes \in Nat
  BY BuilderAssumption DEF Body
<1>1. body.lead + body.doc > MaxBodyBytes
  BY <1>a DEF Truncated, SizeOf
<1>2. \/ Least(body.doc, MaxBodyBytes - Least(body.lead, MaxBodyBytes)) = 0
      \/ Least(body.doc, MaxBodyBytes - Least(body.lead, MaxBodyBytes)) < body.doc
  BY <1>a, <1>1 DEF Least
<1> QED BY <1>a, <1>2, CaptureFields DEF Decodes, IsBlank

(* The bytes of a body: lead and tail are white space, and the document    *)
(* starts with something else.                                             *)
Spells(s, body, Space) ==
    /\ Len(s) = SizeOf(body)
    /\ \A i \in 1 .. body.lead : s[i] \in Space
    /\ body.doc > 0 => s[body.lead + 1] \notin Space
    /\ \A i \in body.lead + body.doc + 1 .. Len(s) : s[i] \in Space

(* How a cut divides the parts of a body.                                  *)
LEMMA CutParts ==
    ASSUME NEW body \in Body, NEW n \in Nat
    PROVE  LET cut == CapturedPrefix(body, n)
               k == Least(n, SizeOf(body))
           IN  /\ cut.lead \in Nat /\ cut.doc \in Nat /\ cut.tail \in Nat
               /\ cut.lead + cut.doc + cut.tail = k
               /\ cut.lead <= body.lead
               /\ cut.doc > 0 => cut.lead = body.lead /\ body.doc > 0
               /\ (cut.doc = body.doc /\ cut.lead = body.lead) \/ cut.lead + cut.doc = k
<1> DEFINE cut == CapturedPrefix(body, n)
           k == Least(n, SizeOf(body))
<1>1. body.lead \in Nat /\ body.doc \in Nat /\ body.tail \in Nat
  BY DEF Body
<1>2. /\ cut.lead = Least(body.lead, n)
      /\ cut.doc = Least(body.doc, n - cut.lead)
      /\ cut.tail = Least(body.tail, n - cut.lead - cut.doc)
      /\ k = Least(n, body.lead + body.doc + body.tail)
  BY CaptureFields DEF SizeOf
<1> HIDE DEF cut, k
<1>3. CASE n <= body.lead
  <2>1. cut.lead = n /\ k = n
    BY <1>1, <1>2, <1>3 DEF Least
  <2>2. cut.doc = 0
    BY <1>1, <1>2, <2>1 DEF Least
  <2>3. cut.tail = 0
    BY <1>1, <1>2, <2>1, <2>2 DEF Least
  <2> QED BY <1>1, <1>3, <2>1, <2>2, <2>3 DEF cut, k
<1>4. CASE body.lead < n /\ n <= body.lead + body.doc
  <2>1. cut.lead = body.lead /\ k = n
    BY <1>1, <1>2, <1>4 DEF Least
  <2>2. cut.doc = n - body.lead
    BY <1>1, <1>2, <1>4, <2>1 DEF Least
  <2>3. cut.tail = 0
    BY <1>1, <1>2, <2>1, <2>2 DEF Least
  <2> QED BY <1>1, <1>4, <2>1, <2>2, <2>3 DEF cut, k
<1>5. CASE body.lead + body.doc < n
  <2>1. cut.lead = body.lead
    BY <1>1, <1>2, <1>5 DEF Least
  <2>2. cut.doc = body.doc
    BY <1>1, <1>2, <1>5, <2>1 DEF Least
  <2>3. cut.tail = k - body.lead - body.doc /\ cut.tail \in Nat /\ k \in Nat
    BY <1>1, <1>2, <1>5, <2>1, <2>2 DEF Least
  <2> QED BY <1>1, <2>1, <2>2, <2>3 DEF cut, k
<1> QED BY <1>1, <1>3, <1>4, <1>5 DEF cut, k

(* CapturedPrefix is right about what BodySpool captures, the first bytes  *)
(* of a body up to the limit (CapturedIsPrefix there): it spells them, and *)
(* is blank exactly if bytes.TrimSpace leaves nothing of them.             *)
THEOREM CaptureSpelled ==
    ASSUME NEW Byte, NEW Space, NEW s \in Seq(Byte), NEW body \in Body, Spells(s, body, Space),
           NEW n \in Nat
    PROVE  LET captured == SubSeq(s, 1, Least(n, Len(s)))
               capture == CapturedPrefix(body, n)
           IN  /\ Spells(captured, capture, Space)
               /\ IsBlank(capture) <=> \A i \in DOMAIN captured : captured[i] \in Space
<1> DEFINE k == Least(n, Len(s))
           captured == SubSeq(s, 1, k)
           capture == CapturedPrefix(body, n)
<1>1. /\ body.lead \in Nat /\ body.doc \in Nat /\ body.tail \in Nat
      /\ Len(s) = body.lead + body.doc + body.tail
  BY DEF Body, Spells, SizeOf
<1>2. k \in Nat /\ k <= Len(s) /\ k <= n /\ (k = n \/ k = Len(s))
  BY <1>1 DEF Least
<1>3. /\ captured \in Seq(Byte) /\ Len(captured) = k /\ DOMAIN captured = 1 .. k
      /\ \A i \in 1 .. k : captured[i] = s[i]
  <2>1. \A i \in 1 .. k : s[i] \in Byte
    BY <1>1, <1>2
  <2> HIDE DEF k
  <2> QED BY <1>2, <2>1
<1>4. /\ capture.lead \in Nat /\ capture.doc \in Nat /\ capture.tail \in Nat
      /\ capture.lead + capture.doc + capture.tail = k
      /\ capture.lead <= body.lead
      /\ capture.doc > 0 => capture.lead = body.lead /\ body.doc > 0
      /\ (capture.doc = body.doc /\ capture.lead = body.lead) \/ capture.lead + capture.doc = k
  <2>1. k = Least(n, SizeOf(body))
    BY DEF Spells
  <2> QED BY <2>1, CutParts
<1> HIDE DEF k, captured, capture
<1>5. SizeOf(capture) = Len(captured)
  BY <1>3, <1>4 DEF SizeOf
<1>6. \A i \in 1 .. capture.lead : captured[i] \in Space
  <2> SUFFICES ASSUME NEW i \in 1 .. capture.lead PROVE captured[i] \in Space
    OBVIOUS
  <2>1. i \in 1 .. k /\ i \in 1 .. body.lead
    BY <1>1, <1>2, <1>4
  <2> QED BY <1>3, <2>1 DEF Spells
<1>7. capture.doc > 0 =>
        capture.lead + 1 \in 1 .. k /\ captured[capture.lead + 1] \notin Space
  <2> SUFFICES ASSUME capture.doc > 0
               PROVE  capture.lead + 1 \in 1 .. k /\ captured[capture.lead + 1] \notin Space
    OBVIOUS
  <2>1. capture.lead + 1 \in 1 .. k /\ capture.lead = body.lead /\ body.doc > 0
    BY <1>2, <1>4
  <2> QED BY <1>3, <2>1 DEF Spells
<1>8. \A i \in capture.lead + capture.doc + 1 .. k : captured[i] \in Space
  <2> SUFFICES ASSUME NEW i \in capture.lead + capture.doc + 1 .. k PROVE captured[i] \in Space
    OBVIOUS
  <2>1. i \in 1 .. k /\ i \in body.lead + body.doc + 1 .. Len(s)
    BY <1>1, <1>2, <1>4
  <2> QED BY <1>3, <2>1 DEF Spells
<1>9. Spells(captured, capture, Space)
  BY <1>3, <1>5, <1>6, <1>7, <1>8 DEF Spells
<1>10. ASSUME capture.doc = 0, NEW i \in 1 .. k PROVE captured[i] \in Space
  <2>1. i \in 1 .. capture.lead \/ i \in capture.lead + capture.doc + 1 .. k
    BY <1>2, <1>4, <1>10
  <2> QED BY <1>6, <1>8, <2>1
<1>11. capture.doc = 0 \/ capture.doc > 0
  BY <1>4
<1> QED BY <1>3, <1>7, <1>9, <1>10, <1>11 DEF IsBlank, captured, capture, k

----------------------------------------------------------------------------
(* Objects                                                                 *)

(* The object that Build makes of a body.                                  *)
ObjectOf(body) ==
    BuildUnknown(CapturedPrefix(body, MaxBodyBytes), SizeOf(body), Truncated(body))

(* The object is raw only for a whole body, a stub only for a cut one, and *)
(* then always, unless nothing but white space was captured.               *)
LEMMA ObjectForms ==
    ASSUME NEW body \in Body
    PROVE  /\ ObjectOf(body).form = "raw" => ObjectOf(body).size = SizeOf(body)
           /\ Truncated(body) /\ body.lead < MaxBodyBytes /\ body.doc > 0 =>
                ObjectOf(body) = [form |-> "stub", size |-> SizeOf(body), captured |-> MaxBodyBytes]
           /\ ~Truncated(body) => ObjectOf(body).form # "stub"
<1> DEFINE capture == CapturedPrefix(body, MaxBodyBytes)
<1>1. CASE Truncated(body)
  <2>1. ObjectOf(body) = IF IsBlank(capture) THEN NoObject
                         ELSE [form |-> "stub", size |-> SizeOf(body), captured |-> SizeOf(capture)]
    BY <1>1 DEF ObjectOf, BuildUnknown
  <2>2. ObjectOf(body).form # "raw"
    BY <2>1 DEF NoObject
  <2> QED BY <1>1, <2>1, <2>2, CaptureCut, CaptureBlank
<1>2. CASE ~Truncated(body)
  <2> DEFINE whole == [form |-> "raw", size |-> SizeOf(body), captured |-> SizeOf(body)]
  <2>1. ObjectOf(body) = BuildUnknown(body, SizeOf(body), Truncated(body))
    BY <1>2, CaptureWhole DEF ObjectOf
  <2>2. CASE IsBlank(body)
    BY <1>2, <2>1, <2>2 DEF BuildUnknown, NoObject
  <2>3. CASE ~IsBlank(body) /\ ValidJSON(body)
    <3>1. ObjectOf(body) = whole
      BY <1>2, <2>1, <2>3 DEF BuildUnknown
    <3> QED BY <1>2, <3>1
  <2>4. CASE ~IsBlank(body) /\ ~ValidJSON(body)
    BY <1>2, <2>1, <2>4 DEF BuildUnknown, NoObject
  <2> QED BY <2>2, <2>3, <2>4
<1> QED BY <1>1, <1>2

(* What an event holds.                                                    *)
LEMMA EventFields ==
    ASSUME BuildInv, Built
    PROVE  /\ event.requestObject = ObjectOf(input.request)
           /\ event.responseObject = ObjectOf(input.response)
           /\ "request" \in event.annotations <=> event.requestObject.form = "stub"
           /\ event.status = BuildResponseStatus(input.code,
                                 CapturedPrefix(input.response, MaxBodyBytes))
           /\ event.objectRef = BuildObjectReference(input.info,
                  DecodeObjectMeta(CapturedPrefix(input.request, MaxBodyBytes)),
                  DecodeObjectMeta(CapturedPrefix(input.response, MaxBodyBytes)))
<1>1. event = BuildOf(input)
  BY DEF BuildInv
<1> QED BY <1>1 DEF BuildOf, ObjectOf

(* The bodies of an exchange are bodies.                                   *)
LEMMA ExchangeTypes ==
    ASSUME BuildInv
    PROVE  /\ input.request \in Body /\ input.response \in Body
           /\ input.info \in [name : Text, namespace : Text]
           /\ input.code \in Nat \ {0}
BY ExchangeAssumption DEF BuildInv, Exchange

(* No event holds a part of a body for the object, whatever the limit and  *)
(* wherever it cuts.                                                       *)
THEOREM ObjectsWhole == Spec => []NoPartialObject
<1>1. BuildInv => NoPartialObject
  BY EventFields, ExchangeTypes, ObjectForms DEF NoPartialObject
<1> QED BY <1>1, BuildInvariant, PTL

(* A truncated body shows as a stub of its original size, a whole one      *)
(* never.                                                                  *)
THEOREM TruncationShows == Spec => []TruncationVisible
<1>1. BuildInv => TruncationVisible
  BY EventFields, ExchangeTypes, ObjectForms DEF TruncationVisible
<1> QED BY <1>1, BuildInvariant, PTL

(* The status of an event is never 0, and the HTTP status when the answer  *)
(* was cut.                                                                *)
THEOREM StatusTruthful == Spec => []StatusReported
<1>1. BuildInv => StatusReported
  BY EventFields, ExchangeTypes, CutNeverDecodes DEF StatusReported, BuildResponseStatus
<1> QED BY <1>1, BuildInvariant, PTL

----------------------------------------------------------------------------
(* References                                                              *)

(* The least of a set of positions is one of them, if there are any.       *)
LEMMA LeastPosition ==
    ASSUME NEW S \in SUBSET (1 .. 3), S # {}
    PROVE  Min(S) \in S /\ \A i \in S : Min(S) <= i
<1>1. \E x \in S : \A y \in S : x <= y
  <2>1. PICK i : i \in S
    OBVIOUS
  <2>2. \A j \in S : j = 1 \/ j = 2 \/ j = 3
    OBVIOUS
  <2>3. CASE 1 \in S
    BY <2>2, <2>3
  <2>4. CASE 1 \notin S /\ 2 \in S
    BY <2>2, <2>4
  <2>5. CASE 1 \notin S /\ 2 \notin S
    BY <2>1, <2>2, <2>5
  <2> QED BY <2>3, <2>4, <2>5
<1> QED BY <1>1 DEF Min

(* firstNonEmpty of two and of three values.                               *)
LEMMA FirstOfTwo ==
    ASSUME NEW a \in Text, NEW b \in Text, ~Blank(a)
    PROVE  FirstNonEmpty(<<a, b>>) = a
<1> DEFINE filled == { i \in DOMAIN <<a, b>> : ~Blank(<<a, b>>[i]) }
<1>1. 1 \in filled /\ filled \in SUBSET (1 .. 3)
  OBVIOUS
<1> HIDE DEF filled
<1>2. Min(filled) \in 1 .. 3 /\ Min(filled) <= 1
  BY <1>1, LeastPosition
<1>3. Min(filled) = 1
  BY <1>2
<1>4. FirstNonEmpty(<<a, b>>) = <<a, b>>[Min(filled)]
  BY <1>1 DEF FirstNonEmpty, filled
<1> QED BY <1>3, <1>4

(* Whatever of three values is there is found.                             *)
LEMMA SomeOfThree ==
    ASSUME NEW a \in Text, NEW b \in Text, NEW c \in Text, ~Blank(c)
    PROVE  ~Blank(FirstNonEmpty(<<a, b, c>>))
<1> DEFINE filled == { i \in DOMAIN <<a, b, c>> : ~Blank(<<a, b, c>>[i]) }
<1>1. 3 \in filled /\ filled \in SUBSET (1 .. 3)
  OBVIOUS
<1> HIDE DEF filled
<1>2. Min(filled) \in filled
  BY <1>1, LeastPosition
<1>3. ~Blank(<<a, b, c>>[Min(filled)])
  BY <1>2 DEF filled
<1> QED BY <1>1, <1>3 DEF FirstNonEmpty, filled

(* Metadata decodes into texts, all of them empty where there is none.     *)
LEMMA MetaType ==
    ASSUME NEW body, body.meta \in Meta PROVE DecodeObjectMeta(body) \in Meta
BY BuilderAssumption DEF DecodeObjectMeta, EmptyMeta, Meta

(* The object's identity and version are the response's, and its name is   *)
(* found there when neither URL nor request has it.                        *)
THEOREM RefIsResponses == Spec => []RefFollowsResponse
<1>1. BuildInv => RefFollowsResponse
  <2> SUFFICES ASSUME BuildInv, Built, ~Truncated(input.response), Decodes(input.response)
               PROVE  LET meta == input.response.meta IN
                      /\ ~Blank(meta.uid) => event.objectRef.uid = meta.uid
                      /\ ~Blank(meta.resourceVersion) =>
                            event.objectRef.resourceVersion = meta.resourceVersion
                      /\ ~Blank(meta.name) => ~Blank(event.objectRef.name)
    BY DEF RefFollowsResponse
  <2> DEFINE meta == input.response.meta
             sent == DecodeObjectMeta(CapturedPrefix(input.request, MaxBodyBytes))
  <2>1. meta \in Meta /\ input.info.name \in Text
    BY ExchangeTypes DEF Body
  <2>2. sent \in Meta
    <3>1. CapturedPrefix(input.request, MaxBodyBytes).meta = input.request.meta
      BY ExchangeTypes, BuilderAssumption, CaptureFields
    <3>2. input.request.meta \in Meta
      BY ExchangeTypes DEF Body
    <3> QED BY <3>1, <3>2, MetaType
  <2>3. DecodeObjectMeta(CapturedPrefix(input.response, MaxBodyBytes)) = meta
    BY ExchangeTypes, CaptureWhole DEF DecodeObjectMeta
  <2>4. event.objectRef = BuildObjectReference(input.info, sent, meta)
    BY <2>3, EventFields
  <2> HIDE DEF meta, sent
  <2>5. /\ event.objectRef.uid = FirstNonEmpty(<<meta.uid, sent.uid>>)
        /\ event.objectRef.resourceVersion
             = FirstNonEmpty(<<meta.resourceVersion, sent.resourceVersion>>)
        /\ event.objectRef.name = FirstNonEmpty(<<input.info.name, sent.name, meta.name>>)
    BY <2>4 DEF BuildObjectReference
  <2>6. /\ meta.uid \in Text /\ meta.resourceVersion \in Text /\ meta.name \in Text
        /\ sent.uid \in Text /\ sent.resourceVersion \in Text /\ sent.name \in Text
    BY <2>1, <2>2 DEF Meta
  <2> QED BY <2>1, <2>5, <2>6, FirstOfTwo, SomeOfThree DEF meta
<1> QED BY <1>1, BuildInvariant, PTL

----------------------------------------------------------------------------
(* Source addresses                                                        *)

(* Every nonempty set of natural numbers has a least element.              *)
LEMMA LeastNatural ==
    ASSUME NEW T, T \subseteq Nat, T # {}
    PROVE  \E m \in T : \A k \in T : m <= k
<1> DEFINE R == {ss \in Nat \X Nat : ss[1] < ss[2]}
<1>1. IsWellFoundedOn(R, Nat)
  BY NatLessThanWellFounded, Zenon DEF OpToRel
<1> HIDE DEF R
<1>2. PICK m \in T : \A k \in T : <<k, m>> \notin R
  BY <1>1, WFMin
<1>3. \A k \in T : k < m => <<k, m>> \in R
  BY DEF R
<1>4. \A k \in T : ~(k < m)
  BY <1>2, <1>3
<1>5. \A k \in T : m <= k
  BY <1>4
<1> QED BY <1>5

(* Induction up to n, for the set of the numbers that have the property.   *)
LEMMA InductionTo ==
    ASSUME NEW n \in Nat, NEW S, 0 \in S, \A k \in 0 .. n - 1 : k \in S => k + 1 \in S
    PROVE  \A k \in 0 .. n : k \in S
<1> DEFINE T == { k \in 0 .. n : k \notin S }
<1> SUFFICES ASSUME T # {} PROVE FALSE
  OBVIOUS
<1>1. T \subseteq Nat
  OBVIOUS
<1>2. PICK m \in T : \A k \in T : m <= k
  BY <1>1, LeastNatural
<1>3. m \in 0 .. n /\ m \notin S /\ m # 0
  OBVIOUS
<1>4. m - 1 \in 0 .. n - 1 /\ m - 1 \in S
  BY <1>2, <1>3
<1> QED BY <1>3, <1>4

(* What has been listed after n addresses of the chain: each of them once  *)
(* trimmed, none of them blank, and none before those that came earlier.   *)
Listed(ips, chain, n) ==
    /\ ips \in Seq(Text)
    /\ ToSet(ips) = { Trim[chain[i]] : i \in 1 .. n } \ {""}
    /\ \A i, j \in DOMAIN ips : i < j =>
          \A q \in 1 .. n : Trim[chain[q]] = ips[j] =>
             \E p \in 1 .. n : p < q /\ Trim[chain[p]] = ips[i]

(* The elements of a longer sequence.                                      *)
LEMMA AppendElements ==
    ASSUME NEW s \in Seq(Text), NEW x \in Text
    PROVE  /\ Append(s, x) \in Seq(Text) /\ DOMAIN s = 1 .. Len(s) /\ Len(s) \in Nat
           /\ DOMAIN Append(s, x) = 1 .. Len(s) + 1
           /\ Append(s, x)[Len(s) + 1] = x /\ \A i \in 1 .. Len(s) : Append(s, x)[i] = s[i]
           /\ ToSet(Append(s, x)) = ToSet(s) \cup {x}
<1>1. /\ Append(s, x) \in Seq(Text) /\ DOMAIN s = 1 .. Len(s) /\ Len(s) \in Nat
      /\ DOMAIN Append(s, x) = 1 .. Len(s) + 1
      /\ Append(s, x)[Len(s) + 1] = x /\ \A i \in 1 .. Len(s) : Append(s, x)[i] = s[i]
  OBVIOUS
<1> DEFINE t == Append(s, x)
           n == Len(s)
<1>2. ASSUME NEW y \in ToSet(t) PROVE y \in ToSet(s) \cup {x}
  <2>1. PICK i \in 1 .. n + 1 : t[i] = y
    BY <1>1, <1>2 DEF ToSet
  <2>2. CASE i = n + 1
    BY <1>1, <2>1, <2>2
  <2>3. CASE i # n + 1
    <3>1. i \in 1 .. n
      BY <1>1, <2>3
    <3> QED BY <1>1, <2>1, <3>1 DEF ToSet
  <2> QED BY <2>2, <2>3
<1>3. x \in ToSet(t)
  <2>1. n + 1 \in 1 .. n + 1
    BY <1>1
  <2> QED BY <1>1, <2>1 DEF ToSet
<1>4. ASSUME NEW y \in ToSet(s) PROVE y \in ToSet(t)
  <2>1. PICK i \in 1 .. n : s[i] = y
    BY <1>1, <1>4 DEF ToSet
  <2>2. i \in 1 .. n + 1
    BY <1>1
  <2> QED BY <1>1, <2>1, <2>2 DEF ToSet
<1> HIDE DEF t
<1>5. ToSet(t) = ToSet(s) \cup {x}
  BY <1>2, <1>3, <1>4
<1> QED BY <1>1, <1>5 DEF t

(* appendIP keeps it so.                                                   *)
LEMMA AppendIPListed ==
    ASSUME NEW chain \in Seq(Text), NEW n \in 0 .. Len(chain) - 1, NEW ips, Listed(ips, chain, n)
    PROVE  Listed(AppendIP(ips, chain[n + 1]), chain, n + 1)
<1> DEFINE value == chain[n + 1]
           v == Trim[value]
           at(i) == Trim[chain[i]]
           more == AppendIP(ips, value)
<1>1. n \in Nat /\ n + 1 \in 1 .. Len(chain) /\ value \in Text
  OBVIOUS
<1>2. v \in Text
  BY <1>1, BuilderAssumption
<1>3. ips \in Seq(Text) /\ ToSet(ips) = { at(i) : i \in 1 .. n } \ {""}
  BY DEF Listed
<1>4. \A i, j \in DOMAIN ips : i < j =>
         \A q \in 1 .. n : at(q) = ips[j] => \E p \in 1 .. n : p < q /\ at(p) = ips[i]
  BY DEF Listed
<1>5. /\ \A i \in 1 .. n : i \in 1 .. n + 1
      /\ \A i \in 1 .. n + 1 : i \in 1 .. n \/ i = n + 1
      /\ n + 1 \in 1 .. n + 1
  BY <1>1
<1>6. at(n + 1) = v
  OBVIOUS
<1>7. { at(i) : i \in 1 .. n + 1 } = { at(i) : i \in 1 .. n } \cup {v}
  BY <1>5, <1>6
<1>8. more = IF v = "" \/ v \in ToSet(ips) THEN ips ELSE Append(ips, v)
  BY DEF AppendIP, Blank
<1>9. \A i \in DOMAIN ips : ips[i] \in ToSet(ips)
  BY DEF ToSet
<1>10. \A i \in DOMAIN ips : ips[i] # "" /\ \E p \in 1 .. n : at(p) = ips[i]
  BY <1>3, <1>9
<1>11. DOMAIN ips = 1 .. Len(ips) /\ Len(ips) \in Nat
  <2> HIDE DEF at
  <2>1. ips \in Seq(Text)
    BY <1>3
  <2> QED BY <2>1
<1> HIDE DEF v, value, at, more
<1>12. ASSUME NEW i \in DOMAIN ips, NEW j \in DOMAIN ips, i < j, NEW q \in 1 .. n + 1, at(q) = ips[j]
       PROVE  \E p \in 1 .. n + 1 : p < q /\ at(p) = ips[i]
  <2>1. CASE q \in 1 .. n
    BY <1>4, <1>5, <1>12, <2>1
  <2>2. CASE q = n + 1
    <3>1. PICK p \in 1 .. n : at(p) = ips[i]
      BY <1>10
    <3>2. p < q /\ p \in 1 .. n + 1
      BY <1>1, <2>2
    <3> QED BY <3>1, <3>2
  <2> QED BY <1>5, <2>1, <2>2
<1>13. CASE v = "" \/ v \in ToSet(ips)
  <2>1. more = ips
    BY <1>8, <1>13
  <2>2. ToSet(more) = { at(i) : i \in 1 .. n + 1 } \ {""}
    BY <1>3, <1>7, <1>13, <2>1
  <2>3. \A i, j \in DOMAIN more : i < j =>
           \A q \in 1 .. n + 1 : at(q) = more[j] => \E p \in 1 .. n + 1 : p < q /\ at(p) = more[i]
    BY <1>12, <2>1
  <2> QED BY <1>3, <2>1, <2>2, <2>3 DEF Listed, more, at, value
<1>14. CASE ~(v = "" \/ v \in ToSet(ips))
  <2> DEFINE m == Len(ips)
  <2>1. more = Append(ips, v)
    BY <1>8, <1>14
  <2>2. /\ more \in Seq(Text) /\ DOMAIN more = 1 .. m + 1
        /\ more[m + 1] = v /\ \A i \in 1 .. m : more[i] = ips[i]
        /\ ToSet(more) = ToSet(ips) \cup {v}
    BY <1>2, <1>3, <2>1, AppendElements, ZenonT(60)
  <2>3. ToSet(more) = { at(i) : i \in 1 .. n + 1 } \ {""}
    BY <1>3, <1>7, <1>14, <2>2
  <2>4. ASSUME NEW i \in DOMAIN more, NEW j \in DOMAIN more, i < j,
               NEW q \in 1 .. n + 1, at(q) = more[j]
        PROVE  \E p \in 1 .. n + 1 : p < q /\ at(p) = more[i]
    <3>1. i \in DOMAIN ips /\ more[i] = ips[i]
      <4>1. i \in 1 .. m
        BY <1>11, <2>2, <2>4
      <4> QED BY <1>11, <2>2, <4>1
    <3>2. CASE j \in 1 .. m
      <4>1. j \in DOMAIN ips /\ more[j] = ips[j]
        BY <1>11, <2>2, <3>2
      <4> QED BY <1>12, <2>4, <3>1, <4>1
    <3>3. CASE j = m + 1
      <4>1. at(q) = v
        BY <2>2, <2>4, <3>3
      <4>2. q \notin 1 .. n
        BY <1>3, <1>14, <4>1
      <4>3. q = n + 1
        BY <1>5, <4>2
      <4>4. PICK p \in 1 .. n : at(p) = ips[i]
        BY <1>10, <3>1
      <4>5. p < q /\ p \in 1 .. n + 1
        BY <1>1, <4>3
      <4> QED BY <3>1, <4>4, <4>5
    <3> QED BY <1>11, <2>2, <3>2, <3>3
  <2> QED BY <2>2, <2>3, <2>4 DEF Listed, more, at, value
<1> QED BY <1>13, <1>14

(* f has at n what is collected of the first n addresses, up to k.         *)
Collects(f, chain, k) ==
    \A n \in 0 .. k : f[n] = IF n = 0 THEN << >> ELSE AppendIP(f[n - 1], chain[n])

(* There is such a function.                                               *)
LEMMA CollectsExist ==
    ASSUME NEW chain \in Seq(Text)
    PROVE  \E f : f = [n \in 0 .. Len(chain) |->
                         IF n = 0 THEN << >> ELSE AppendIP(f[n - 1], chain[n])]
<1> DEFINE S == { k \in 0 .. Len(chain) : \E f : DOMAIN f = 0 .. k /\ Collects(f, chain, k) }
<1>1. Len(chain) \in Nat
  OBVIOUS
<1>2. 0 \in S
  <2> DEFINE f == [n \in 0 .. 0 |-> << >>]
  <2>1. DOMAIN f = 0 .. 0 /\ Collects(f, chain, 0)
    BY DEF Collects
  <2> HIDE DEF f
  <2>2. \E g : DOMAIN g = 0 .. 0 /\ Collects(g, chain, 0)
    BY <2>1, Zenon
  <2> QED BY <1>1, <2>2
<1>3. ASSUME NEW k \in 0 .. Len(chain) - 1, k \in S PROVE k + 1 \in S
  <2>1. PICK f : DOMAIN f = 0 .. k /\ Collects(f, chain, k)
    BY <1>3
  <2> DEFINE g == [n \in 0 .. k + 1 |-> IF n <= k THEN f[n] ELSE AppendIP(f[k], chain[n])]
  <2>2. k \in Nat /\ k + 1 \in 0 .. Len(chain)
    BY <1>1
  <2>3. DOMAIN g = 0 .. k + 1 /\ \A n \in 0 .. k : g[n] = f[n]
    BY <2>2
  <2>4. g[k + 1] = AppendIP(f[k], chain[k + 1])
    BY <2>2
  <2> HIDE DEF g
  <2>5. ASSUME NEW n \in 0 .. k + 1
        PROVE  g[n] = IF n = 0 THEN << >> ELSE AppendIP(g[n - 1], chain[n])
    <3>1. CASE n = k + 1
      <4>1. n # 0 /\ n - 1 = k /\ k \in 0 .. k
        BY <2>2, <3>1
      <4> QED BY <2>3, <2>4, <3>1, <4>1
    <3>2. CASE n # k + 1
      <4>1. n \in 0 .. k /\ (n # 0 => n - 1 \in 0 .. k)
        BY <2>2, <3>2
      <4>2. f[n] = IF n = 0 THEN << >> ELSE AppendIP(f[n - 1], chain[n])
        BY <2>1, <4>1 DEF Collects
      <4> QED BY <2>3, <4>1, <4>2
    <3> QED BY <3>1, <3>2
  <2>6. Collects(g, chain, k + 1)
    BY <2>5 DEF Collects
  <2>7. \E h : DOMAIN h = 0 .. k + 1 /\ Collects(h, chain, k + 1)
    BY <2>3, <2>6, Zenon
  <2> QED BY <2>2, <2>7
<1> HIDE DEF S
<1>4. \A k \in 0 .. Len(chain) : k \in S
  BY <1>1, <1>2, <1>3, InductionTo
<1>5. Len(chain) \in S
  BY <1>1, <1>4
<1>6. PICK f : DOMAIN f = 0 .. Len(chain) /\ Collects(f, chain, Len(chain))
  BY <1>5 DEF S
<1> DEFINE g == [n \in 0 .. Len(chain) |-> f[n]]
<1>7. DOMAIN g = 0 .. Len(chain) /\ \A n \in 0 .. Len(chain) : g[n] = f[n]
  OBVIOUS
<1> HIDE DEF g
<1>8. \A n \in 0 .. Len(chain) : g[n] = IF n = 0 THEN << >> ELSE AppendIP(g[n - 1], chain[n])
  <2> SUFFICES ASSUME NEW n \in 0 .. Len(chain)
               PROVE  g[n] = IF n = 0 THEN << >> ELSE AppendIP(g[n - 1], chain[n])
    OBVIOUS
  <2>1. n # 0 => n - 1 \in 0 .. Len(chain)
    BY <1>1
  <2>2. f[n] = IF n = 0 THEN << >> ELSE AppendIP(f[n - 1], chain[n])
    BY <1>6 DEF Collects
  <2> QED BY <1>7, <2>1, <2>2
<1>9. g = [n \in 0 .. Len(chain) |-> IF n = 0 THEN << >> ELSE AppendIP(g[n - 1], chain[n])]
  <2>1. g = [n \in 0 .. Len(chain) |-> g[n]]
    BY <1>7 DEF g
  <2> QED BY <1>8, <2>1
<1> QED BY <1>9, Zenon

(* Collected from end to end, the whole chain is listed.                   *)
LEMMA ChainListed ==
    ASSUME NEW h, AddressChain(h) \in Seq(Text)
    PROVE  Listed(CollectSourceIPs(h), AddressChain(h), Len(AddressChain(h)))
<1> DEFINE chain == AddressChain(h)
           Meets(f) == f = [n \in 0 .. Len(chain) |->
                              IF n = 0 THEN << >> ELSE AppendIP(f[n - 1], chain[n])]
           collected == CHOOSE f : Meets(f)
<1>1. CollectSourceIPs(h) = collected[Len(chain)]
  BY DEF CollectSourceIPs
<1> HIDE DEF chain
<1>2. chain \in Seq(Text) /\ Len(chain) \in Nat
  BY DEF chain
<1>3. \E f : Meets(f)
  BY <1>2, CollectsExist, Zenon
<1>4. Meets(collected)
  BY <1>3, Zenon
<1> HIDE DEF collected
<1> DEFINE S == { n \in 0 .. Len(chain) : Listed(collected[n], chain, n) }
<1>5. 0 \in S
  <2>1. collected[0] = << >>
    BY <1>2, <1>4
  <2>2. << >> \in Seq(Text) /\ ToSet(<< >>) = {} /\ DOMAIN << >> = {}
    BY EmptySeq DEF ToSet
  <2>3. { Trim[chain[i]] : i \in 1 .. 0 } \ {""} = {}
    OBVIOUS
  <2>4. Listed(<< >>, chain, 0)
    BY <2>2, <2>3 DEF Listed
  <2> QED BY <1>2, <2>1, <2>4
<1>6. \A n \in 0 .. Len(chain) - 1 : n \in S => n + 1 \in S
  <2> SUFFICES ASSUME NEW n \in 0 .. Len(chain) - 1, Listed(collected[n], chain, n)
               PROVE  n + 1 \in S
    OBVIOUS
  <2>1. n + 1 \in 0 .. Len(chain) /\ n + 1 # 0 /\ (n + 1) - 1 = n
    BY <1>2
  <2>2. collected[n + 1] = AppendIP(collected[n], chain[n + 1])
    BY <1>4, <2>1
  <2>3. Listed(collected[n + 1], chain, n + 1)
    BY <1>2, <2>2, AppendIPListed
  <2> QED BY <2>1, <2>3
<1> HIDE DEF S
<1>7. \A n \in 0 .. Len(chain) : n \in S
  BY <1>2, <1>5, <1>6, InductionTo
<1>8. Len(chain) \in S
  BY <1>2, <1>7
<1>9. Listed(collected[Len(chain)], chain, Len(chain))
  BY <1>8 DEF S
<1> QED BY <1>1, <1>9 DEF chain

(* sourceIPs lists every address of the chain once, in the order in which  *)
(* the proxies added them, for a chain of any length and in any spelling.  *)
THEOREM SourceIPsInOrder == Spec => []SourceIPsFirstSeen
<1>1. BuildInv => SourceIPsFirstSeen
  <2> DEFINE chain == AddressChain(input.headers)
             ips == event.sourceIPs
             IsFirst(i, v) == Trim[chain[i]] = v /\ \A j \in 1 .. i - 1 : Trim[chain[j]] # v
             first(v) == CHOOSE i \in DOMAIN chain : IsFirst(i, v)
  <2> SUFFICES ASSUME BuildInv, Built
               PROVE  /\ ToSet(ips) = { Trim[value] : value \in ToSet(chain) } \ {""}
                      /\ \A i, j \in DOMAIN ips : i < j => first(ips[i]) < first(ips[j])
    BY DEF SourceIPsFirstSeen
  <2>1. chain \in Seq(Text)
    <3>1. /\ input.headers.forwardedFor \in Seq(Text)
          /\ input.headers.realIP \in Text /\ input.headers.remote \in Text
      BY ExchangeAssumption DEF BuildInv, Exchange
    <3>2. <<input.headers.realIP, input.headers.remote>> \in Seq(Text)
      BY <3>1
    <3> QED BY <3>1, <3>2, ConcatProperties DEF AddressChain
  <2>2. ips = CollectSourceIPs(input.headers)
    BY DEF BuildInv, BuildOf
  <2>3. Listed(ips, chain, Len(chain))
    BY <2>1, <2>2, ChainListed
  <2>4. Len(chain) \in Nat /\ DOMAIN chain = 1 .. Len(chain)
    BY <2>1
  <2> HIDE DEF chain, ips
  <2>5. ToSet(ips) = { Trim[value] : value \in ToSet(chain) } \ {""}
    <3>1. ToSet(ips) = { Trim[chain[i]] : i \in DOMAIN chain } \ {""}
      BY <2>3, <2>4 DEF Listed
    <3>2. ToSet(chain) = { chain[i] : i \in DOMAIN chain }
      BY DEF ToSet
    <3>3. { Trim[chain[i]] : i \in DOMAIN chain } = { Trim[value] : value \in ToSet(chain) }
      BY <3>2
    <3> QED BY <3>1, <3>3
  <2>6. ASSUME NEW v, NEW p \in DOMAIN chain, Trim[chain[p]] = v
        PROVE  first(v) \in DOMAIN chain /\ IsFirst(first(v), v) /\ first(v) <= p
    <3> DEFINE T == { i \in DOMAIN chain : Trim[chain[i]] = v }
    <3>1. T \subseteq Nat /\ T # {} /\ p \in T
      BY <2>4, <2>6
    <3>2. PICK m \in T : \A i \in T : m <= i
      BY <3>1, LeastNatural
    <3>3. m \in DOMAIN chain /\ IsFirst(m, v)
      BY <2>4, <3>2
    <3>4. first(v) \in DOMAIN chain /\ IsFirst(first(v), v)
      BY <3>3, Zenon
    <3> HIDE DEF first
    <3>5. ~(p < first(v))
      BY <2>4, <2>6, <3>4
    <3> QED BY <2>4, <3>4, <3>5
  <2>7. ASSUME NEW i \in DOMAIN ips, NEW j \in DOMAIN ips, i < j
        PROVE  first(ips[i]) < first(ips[j])
    <3> HIDE DEF first
    <3>1. ips[j] \in ToSet(ips)
      BY DEF ToSet
    <3>2. PICK q \in 1 .. Len(chain) : Trim[chain[q]] = ips[j]
      <4>1. ToSet(ips) = { Trim[chain[q]] : q \in 1 .. Len(chain) } \ {""}
        BY <2>3 DEF Listed
      <4> QED BY <3>1, <4>1
    <3>3. first(ips[j]) \in 1 .. Len(chain) /\ Trim[chain[first(ips[j])]] = ips[j]
      BY <2>4, <2>6, <3>2
    <3>4. PICK p \in 1 .. Len(chain) : p < first(ips[j]) /\ Trim[chain[p]] = ips[i]
      BY <2>3, <2>7, <3>3 DEF Listed
    <3>5. first(ips[i]) <= p /\ first(ips[i]) \in 1 .. Len(chain)
      BY <2>4, <2>6, <3>4
    <3> QED BY <2>4, <3>3, <3>4, <3>5
  <2> QED BY <2>5, <2>7
<1> QED BY <1>1, BuildInvariant, PTL
=============================================================================
