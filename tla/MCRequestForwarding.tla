------------------------ MODULE MCRequestForwarding ------------------------
(* Requests with every kind of header the two paths treat differently, and *)
(* extra keys that only an exact codec keeps apart.                        *)
EXTENDS RequestForwarding

(* "/" may not stand in a header name.                                     *)
MCIllegal == {"/"}

(* ASCII.                                                                  *)
MCHex == ("/" :> <<"2", "f">>) @@ ("%" :> <<"2", "5">>) @@ ("a" :> <<"6", "1">>)
           @@ ("A" :> <<"4", "1">>) @@ ("f" :> <<"6", "6">>)
           @@ [d \in {"1", "2", "3", "4", "5", "6"} |-> <<"3", d>>]

MCByte == DOMAIN MCHex

MCLower == [b \in MCByte |-> IF b = "A" THEN "a" ELSE b]

(* The suffixes of inbound extra headers: the keys "a", "/", "%2f" and "%" *)
(* as kube-apiserver escapes them, "%" again in a malformed spelling, "a"  *)
(* again as an escape nobody needs, and "A", which only an escape keeps.   *)
ExtraSuffixes == { <<"a">>, <<"%", "6", "1">>, <<"%", "2", "f">>, <<"%", "2", "5", "2", "f">>,
                   <<"%", "2", "5">>, <<"%">>, <<"%", "4", "1">> }

(* At most two of them at once, enough for two spellings of one key.       *)
UpTo(n, S) == { T \in SUBSET S : Cardinality(T) <= n }

ExtraHeaders ==
    { [n \in { <<RemoteExtra, s>> : s \in chosen } |-> <<n[2]>>] : chosen \in UpTo(2, ExtraSuffixes) }

UserHeaders ==
    { (Plain("x-remote-user") :> <<"alice">>) @@ more :
        more \in { << >>,
                   Plain("x-remote-group") :> <<"g1", "g2">>,
                   (Plain("x-remote-group") :> <<"g2">>) @@ (Plain("x-remote-uid") :> <<"u1">>) } }

(* Identity headers a client brought along.                                *)
ClientHeaders ==
    { << >>,
      (Authorization :> <<"token">>) @@ (Plain("impersonate-user") :> <<"bob">>)
        @@ (Plain("impersonate-uid") :> <<"u2">>)
        @@ (<<ImpersonateExtra, <<"a">>>> :> << <<"b">> >>)
        @@ (<<"impersonate-", <<"a">>>> :> <<"b">>) @@ (<<"x-remote-", <<"a">>>> :> <<"b">>) }

Xff == { << >>,
         ForwardedFor :> << <<"p1">> >>,
         (ForwardedFor :> << <<"p1">>, <<"p2">> >>) @@ (Plain("x-forwarded-proto") :> <<"https">>) }

ConnectionHeaders ==
    { << >>,
      UserAgent :> <<"kubectl">>,
      (Connection :> <<Upgrade>>) @@ (Upgrade :> <<"spdy">>),
      (Connection :> <<Plain("x-hop"), UserAgent>>) @@ (Plain("x-hop") :> <<"1">>)
        @@ (UserAgent :> <<"kubectl">>) @@ (TE :> <<"gzip">>),
      (Connection :> << <<RemoteExtra, <<"a">>>> >>) @@ (TE :> <<"gzip", "trailers">>) }

EndToEnd == (Plain("content-type") :> <<"json">>) @@ (Plain("accept") :> <<"a", "b">>)

HeaderInbound ==
    { [header |-> u @@ e @@ c @@ x @@ k @@ EndToEnd, remote |-> "p3", url |-> URL(<<"/", "a">>, {})] :
        u \in UserHeaders, e \in ExtraHeaders, c \in ClientHeaders, x \in Xff,
        k \in ConnectionHeaders }

(* Requests by their URLs: the root, a path, an escaped slash, a slash at  *)
(* the end; parameters that parse and one that does not; with and without  *)
(* a peer address.                                                         *)
URLs ==
    { URL(path, query) :
        path \in { <<"/">>, <<"/", "a", "/", "b">>, <<"/", "a", "%2f", "b">>, <<"/", "b", "/">> },
        query \in SUBSET {"watch=1", "%zz"} }

URLInbound ==
    { [header |-> (Plain("x-remote-user") :> <<"alice">>) @@ k @@ EndToEnd,
       remote |-> peer, url |-> u] :
        u \in URLs, k \in ConnectionHeaders, peer \in {"p3", ""} }

MCInbound == HeaderInbound \cup URLInbound

(* Backend URLs without a path, with one, with a slash at its end and a    *)
(* query, and with an escaped slash.                                       *)
MCBackends ==
    { URL(<< >>, {}), URL(<<"/", "a">>, {}), URL(<<"/", "a", "/">>, {"key=1"}),
      URL(<<"/", "c", "%2f", "d">>, {}) }

Answer(status, h) ==
    [status |-> status,
     header |-> h @@ (Plain("content-type") :> <<"json">>) @@ (Plain("warning") :> <<"w1", "w2">>)]

MCAnswers ==
    { Answer(200, (Connection :> <<Plain("x-hop")>>) @@ (Plain("x-hop") :> <<"1">>)
                    @@ (Plain("keep-alive") :> <<"5">>)),
      Answer(101, (Connection :> <<Upgrade>>) @@ (Upgrade :> <<"spdy">>)) }

MCIdentities ==
    [mode : {"requestheader", "impersonation"}, forwardAllExtras : {FALSE},
     extraKeys : {{}, {<<"/">>, <<"%", "2", "f">>}}, forwardUID : BOOLEAN]
    \cup [mode : {"impersonation"}, forwardAllExtras : {TRUE}, extraKeys : {{}},
          forwardUID : {FALSE}]
=============================================================================
