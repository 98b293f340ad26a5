-------------------------- MODULE MCVirtualServers --------------------------
(***************************************************************************)
(* VirtualServers and VirtualServerRoutes for VirtualServerSync.             *)
(***************************************************************************)
EXTENDS VirtualServerSync

Validator(plus, autoadjust) ==
  [isPlus |-> plus, isDosEnabled |-> FALSE, isCertManagerEnabled |-> FALSE,
   isExternalDNSEnabled |-> FALSE, isDirectiveAutoadjustEnabled |-> autoadjust]
NoProxyValues == [buffers |-> NoBuffers, bufferSize |-> NoSize, busySize |-> NoSize]
Parameters(lb, dynamic) == NoProxyValues @@ [lb |-> lb, weightChangesDynamicReload |-> dynamic]
DefaultMethod == "random two least_conn"

Plain(t) == [text |-> t, vars |-> {}]
With(t, special, name) == [text |-> t, vars |-> {[special |-> special, name |-> name]}]

Upstream(name) ==
  [name |-> name, service |-> [namespace |-> "", name |-> "svc"], port |-> 80, lb |-> "", type |-> "",
   useClusterIP |-> FALSE, subselector |-> {}, times |-> {"10s"}, nextUpstream |-> <<"error">>,
   counts |-> {0}, clientMaxBodySize |-> "", hc |-> None, slowStart |-> "", buffers |-> NoBuffers,
   bufferSize |-> NoSize, busySize |-> NoSize, bodySize |-> NoSize, queue |-> None,
   sessionCookie |-> None, backup |-> "", backupPort |-> None, ntlm |-> FALSE]
Grpc(name) == [Upstream(name) EXCEPT !.type = "grpc"]

NoAction == [pass |-> "", redirect |-> None, return |-> None, proxy |-> None]
Pass(u) == [NoAction EXCEPT !.pass = u]
RedirectTo(url, code) == [NoAction EXCEPT !.redirect = {[url |-> Plain(url), code |-> code]}]
Answer(body, code) ==
  [NoAction EXCEPT !.return = {[body |-> Plain(body), type |-> "", code |-> code, headers |-> << >>]}]
Proxy(u, rewrite) ==
  [NoAction EXCEPT !.proxy = {[upstream |-> u, requestHeaders |-> {}, responseHeaders |-> {},
                               rewritePath |-> [text |-> rewrite, regexp |-> FALSE]]}]

Split(weight, a) == [weight |-> weight, action |-> a]
Pair(w) == <<Split(w, Pass("u1")), Split(100 - w, Pass("u2"))>>
Triple == <<Split(20, Answer("two", 0)), Split(0, Pass("u1")), Split(80, Proxy("u2", "/r"))>>
Condition(kind, name, text) ==
  [kind |-> kind, name |-> name, value |-> [negative |-> FALSE, text |-> text]]
Not(c) == [c EXCEPT !.value.negative = TRUE]
MatchAction(conditions, a) == [conditions |-> conditions, action |-> {a}, splits |-> << >>]
MatchSplits(conditions, splits) == [conditions |-> conditions, action |-> None, splits |-> splits]

ReturnPage(codes, body) ==
  [codes |-> codes, redirect |-> None,
   return |-> {[body |-> Plain(body), type |-> "", code |-> 200, headers |-> << >>]}]
RedirectPage(codes, url) ==
  [codes |-> codes, return |-> None, redirect |-> {[url |-> Plain(url), code |-> 0]}]

Path(mod, uri) == [mod |-> mod, space |-> FALSE, uri |-> uri]
Spaced(path) == [path EXCEPT !.space = TRUE]
Route(path) ==
  [path |-> path, policies |-> << >>, action |-> None, splits |-> << >>, matches |-> << >>,
   routeSelector |-> None, route |-> None, errorPages |-> << >>, addHeaderInherit |-> "", dos |-> ""]
To(path, a) == [Route(path) EXCEPT !.action = {a}]
Splitting(path, splits) == [Route(path) EXCEPT !.splits = splits]
Matching(route, matches) == [route EXCEPT !.matches = matches]
Paged(route, pages) == [route EXCEPT !.errorPages = pages]
Named(path, name) == [Route(path) EXCEPT !.route = {[namespace |-> "", name |-> name]}]
Selecting(path, labels) == [Route(path) EXCEPT !.routeSelector = {labels}]

VS(upstreams, routes) ==
  [namespace |-> "ns", host |-> "h", tls |-> None, policies |-> << >>, upstreams |-> upstreams,
   routes |-> routes, dos |-> "", externalDNS |-> FALSE, addHeaderInherit |-> ""]
VSR(labels, upstreams, subroutes) ==
  [namespace |-> "ns", labels |-> labels, host |-> "h", upstreams |-> upstreams, subroutes |-> subroutes]
Key(name) == [namespace |-> "ns", name |-> name]
Two == <<Upstream("u1"), Upstream("u2")>>

\* A cluster whose resources change to the given versions of them.
Cluster(v, p, versions, routes, routeVersions, removes) ==
  [vsv |-> v, params |-> p, namespace |-> "ns", name |-> "vs", first |-> Head(versions),
   vs |-> Range(versions), routes |-> routes, vsrs |-> routeVersions, removes |-> removes]
Still(v, p, vs, routes) ==
  [Cluster(v, p, <<vs>>, routes, [k \in DOMAIN routes |-> {routes[k]}], FALSE) EXCEPT !.vs = {}]

-----------------------------------------------------------------------------
(* Every kind of route, alone and after others.                              *)

A == Condition("header", "a", "v")
B == Condition("cookie", "b", "default")
C == Condition("argument", "c", "hostnames")

Shapes(p) ==
  <<To(p, Pass("u1")),
    Paged(To(p, Proxy("u2", "/r")), <<RedirectPage(<<404>>, "away"), ReturnPage(<<500, 502>>, "sorry")>>),
    To(p, RedirectTo("there", 0)),
    To(p, Answer("hello", 204)),
    Paged(Splitting(p, Pair(30)), <<ReturnPage(<<503>>, "busy")>>),
    Splitting(p, <<Split(0, Answer("one", 0)), Split(100, RedirectTo("two", 302))>>),
    Splitting(p, Triple),
    Matching(To(p, Pass("u2")), <<MatchAction(<<A, Not(B)>>, Answer("match", 0)), MatchSplits(<<B>>, Pair(10))>>),
    Matching(Splitting(p, Pair(60)), <<MatchSplits(<<Not(A)>>, Triple), MatchSplits(<<C>>, Pair(40)),
                                       MatchAction(<<A, C>>, Proxy("u1", "/m"))>>)>>

Combined ==
  {Still(Validator(TRUE, TRUE), Parameters(DefaultMethod, dynamic),
         VS(Two, <<Shapes(Path("", <<"/a">>))[i], Paged(Named(Path("", <<"/b">>), "r1"), pages),
                   Shapes(Path(mod, <<"/c">>))[j]>>),
         Key("r1") :> VSR({}, <<Upstream("u1"), Grpc("u2")>>,
                          <<Shapes(Path("", <<"/b", "/x">>))[k], Shapes(Path("", <<"/b", "/y">>))[i]>>))
     : i \in 1..9, j \in {5, 9}, k \in 1..9, dynamic \in BOOLEAN, mod \in {"", "~"},
       pages \in {<< >>, <<ReturnPage(<<418>>, "teapot"), RedirectPage(<<400>>, "help")>>}}

-----------------------------------------------------------------------------
(* Upstreams whose parameters have to go together.                           *)

Methods == {"", "round_robin", "least_conn", "unknown"} \cup HashMethods \cup RandomMethods
             \cup PlusRandomMethods \cup LeastTimeMethods
HealthCheck(match) ==
  [grpcStatus |-> None, grpcService |-> "", path |-> "/", statusMatch |-> match, times |-> {},
   fails |-> 0, passes |-> 0, headers |-> << >>, port |-> 0, persistent |-> FALSE, mandatory |-> FALSE]

Balancing ==
  {Still(Validator(plus, TRUE), Parameters(default, FALSE),
         VS(<<[Upstream("u1") EXCEPT !.lb = lb, !.backup = backup[1], !.backupPort = backup[2],
                                     !.slowStart = slow, !.hc = hc]>>,
            <<To(Path("", <<"/">>), Pass("u1"))>>), << >>)
     : plus \in BOOLEAN, default \in {DefaultMethod, "least_conn"}, lb \in Methods,
       backup \in {<<"", None>>, <<"b", {80}>>, <<"b", None>>}, slow \in {"", "10s"},
       hc \in {None, {HealthCheck(<<<<200>>, <<300, 399>>>>)}}}

\* Sizes below and above the defaults, without a unit, zero, and a gigabyte; a few bytes only
\* where they are balanced.
Sizes(autoadjust) ==
  {NoSize, Size(0, "k"), Size(4, "k"), Size(16, "k"), Size(1, "m"), Size(1024, "m"), Size(1024, "")}
    \cup (IF autoadjust THEN {Size(3, "")} ELSE {})
Numbered(autoadjust, numbers) == [n : numbers, size : Sizes(autoadjust) \ {NoSize}]
Buffered(autoadjust, configMap, buffers, size, busy) ==
  Still(Validator(FALSE, autoadjust), configMap @@ Parameters(DefaultMethod, FALSE),
        VS(<<[Upstream("u1") EXCEPT !.buffers = buffers, !.bufferSize = size, !.busySize = busy]>>,
           <<To(Path("", <<"/">>), Pass("u1"))>>), << >>)

\* The values of an upstream, and those of the ConfigMap under an upstream without buffers.
Buffering ==
  UNION {{Buffered(a, NoProxyValues, buffers, size, busy)
            : size \in Sizes(a), busy \in Sizes(a), buffers \in {NoBuffers} \cup Numbered(a, {1, 2, 8, 2000})}
           : a \in BOOLEAN}
    \cup UNION {{Buffered(a, ConfigMapBuffers(buffers, size, busy, a), NoBuffers, own, NoSize)
            : size \in Sizes(a), busy \in Sizes(a), own \in {NoSize, Size(16, "k")},
              buffers \in {NoBuffers} \cup Numbered(a, {1, 2000})} : a \in BOOLEAN}

-----------------------------------------------------------------------------
(* How VirtualServerRoutes are found.                                        *)

Green == {<<"app", "green">>}
Leads == {<<Named(Path("", <<"/a">>), "r1"), Named(Path("", <<"/b">>), "r2")>>,
          <<Named(Path("", <<"/a">>), "r1"), Selecting(Path("", <<"/">>), Green)>>,
          <<Selecting(Path("", <<"/a">>), Green), Named(Path("", <<"/a", "/x">>), "r1")>>,
          <<Named(Path("~", <<"/a">>), "r1"), Named(Path("~", <<"/b">>), "r1"), Selecting(Path("", <<"/a">>), Green)>>,
          <<Named(Path("=", <<"/a">>), "r1"), Named(Spaced(Path("=", <<"/a">>)), "r2")>>,
          <<Named(Path("=", <<"/a">>), "r1"), Named(Path("~*", <<"/a">>), "r2")>>}
Subs == {<<To(Path("", <<"/a", "/x">>), Pass("u1")), To(Path("", <<"/a", "/y">>), Pass("u1"))>>,
         <<To(Path("", <<"/a", "/x">>), Pass("u1"))>>,
         <<To(Path("", <<"/b">>), Pass("u1"))>>,
         <<To(Path("=", <<"/a">>), Pass("u1"))>>,
         <<To(Path("~", <<"/a">>), Pass("u1")), To(Spaced(Path("~", <<"/b">>)), Pass("u1"))>>,
         <<To(Path("~", <<"/a">>), Pass("u1")), To(Path("~", <<"/a">>), Pass("u1"))>>,
         <<To(Path("~*", <<"/a">>), Pass("u1"))>>}
Finding ==
  {Still(Validator(TRUE, TRUE), Parameters(DefaultMethod, TRUE), VS(Two, lead),
         Key("r1") :> VSR(l1, Two, s1) @@ Key("r2") :> VSR(Green, Two, s2))
     : lead \in Leads, s1 \in Subs, s2 \in Subs, l1 \in {{}, Green}}

-----------------------------------------------------------------------------
(* Weights that change, with and without a reload.                           *)

P(uri) == Path("", uri)
Weighted(w1, w2, w3) ==
  VS(Two, <<Matching(Splitting(P(<<"/a">>), Pair(w1)), <<MatchSplits(<<A>>, Triple), MatchSplits(<<C>>, Pair(w2))>>),
            Named(P(<<"/b">>), "r1"), Named(P(<<"/c">>), "r2"), Splitting(P(<<"/d">>), Pair(w3))>>)
WeightedRoute(uri, w1, w2) ==
  VSR({}, Two, <<Splitting(P(<<uri, "/x">>), Pair(w1)),
                 Matching(To(P(<<uri, "/y">>), Pass("u1")), <<MatchSplits(<<A>>, Pair(w2))>>)>>)
Weighing(dynamic) ==
  Cluster(Validator(TRUE, TRUE), Parameters(DefaultMethod, dynamic),
          <<Weighted(10, 20, 30), Weighted(11, 20, 30), Weighted(10, 22, 30), Weighted(10, 20, 33),
            Weighted(120, 20, 30), VS(Two, <<Named(P(<<"/c">>), "r2"), Splitting(P(<<"/a">>), Pair(50))>>)>>,
          Key("r1") :> WeightedRoute("/b", 40, 50) @@ Key("r2") :> WeightedRoute("/c", 60, 70),
          Key("r1") :> {WeightedRoute("/b", 44, 50), WeightedRoute("/b", 40, 55), VSR({}, Two, <<To(P(<<"/b">>), Pass("u1"))>>)}
            @@ Key("r2") :> {WeightedRoute("/c", 66, 77), WeightedRoute("/c", 160, 70)},
          TRUE)

\* Weights that do not add up.
Unbalanced ==
  {Still(Validator(TRUE, TRUE), Parameters(DefaultMethod, FALSE),
         VS(Two, <<Splitting(P(<<"/">>), <<Split(w1, Pass("u1")), Split(w2, Pass("u2")), Split(w3, Pass("u1"))>>)>>), << >>)
     : w1 \in {0, 40, 100}, w2 \in {0, 60, 101}, w3 \in {-1, 0, 40, 60}}

\* Selected routes, whose order is left to chance.
Chosen(w1, w2) ==
  VS(Two, <<Splitting(P(<<"/a">>), Pair(w1)), Selecting(P(<<"/b">>), Green), Splitting(P(<<"/d">>), Pair(w2))>>)
ChosenRoute(labels, uri, w) == VSR(labels, Two, <<Splitting(P(<<"/b", uri>>), Pair(w))>>)
Choosing ==
  Cluster(Validator(TRUE, TRUE), Parameters(DefaultMethod, TRUE),
          <<Chosen(10, 20), Chosen(11, 20), Chosen(11, 22)>>,
          Key("r1") :> ChosenRoute(Green, "/x", 40) @@ Key("r2") :> ChosenRoute(Green, "/y", 50),
          Key("r1") :> {ChosenRoute(Green, "/x", 44), ChosenRoute({}, "/x", 40)} @@ Key("r2") :> {ChosenRoute(Green, "/y", 55), ChosenRoute(Green, "/x", 50)},
          FALSE)

VirtualServerWorkloads ==
  Unbalanced \cup Combined \cup Balancing \cup Buffering \cup Finding \cup {Weighing(d) : d \in BOOLEAN} \cup {Choosing}

-----------------------------------------------------------------------------
(* Where the code and what is said of it part.                               *)

\* A backup and no method of its own.
BackupWorkloads ==
  {Still(Validator(TRUE, TRUE), Parameters(DefaultMethod, FALSE),
         VS(<<[Upstream("u1") EXCEPT !.backup = "b", !.backupPort = {80}]>>, <<To(P(<<"/">>), Pass("u1"))>>), << >>)}

\* A rewritten URI behind splits of an exact path.
RewriteWorkloads ==
  {Still(Validator(TRUE, TRUE), Parameters(DefaultMethod, FALSE),
         VS(Two, <<Splitting(Path("=", <<"/a">>), <<Split(50, Proxy("u1", "/r")), Split(50, Proxy("u2", "/r"))>>)>>), << >>)}

\* Two splits that change at once.
TwoSplitsWorkloads ==
  {Cluster(Validator(TRUE, TRUE), Parameters(DefaultMethod, TRUE), <<Chosen(10, 20), Chosen(11, 22)>>,
           << >>, << >>, FALSE)}

\* Labels that change, and nothing else.
LabelWorkloads ==
  {Cluster(Validator(TRUE, TRUE), Parameters(DefaultMethod, TRUE), <<Chosen(10, 20)>>,
           Key("r1") :> ChosenRoute(Green, "/x", 40), Key("r1") :> {ChosenRoute({}, "/x", 40)}, FALSE)}
=============================================================================
