------------------------- MODULE VirtualServerRouting ------------------------
(***************************************************************************)
(* What NGINX does with a generated configuration, and what the resources    *)
(* ask for.  cfg is a configuration, weights the key-value zones as a        *)
(* function from the index of a split to the pair of weights in the zone,    *)
(* vals the values of headers, cookies, arguments and variables of a request *)
(* as a function from <<kind, name>>, where a missing one is "".             *)
(*                                                                           *)
(* An answer is a sequence of <<weight, outcome>>, an outcome [upstream,     *)
(* uri, pages]: where the request is passed, with which URI, and what is     *)
(* answered for the error codes of pages.                                    *)
(***************************************************************************)
EXTENDS VirtualServerGeneration

-----------------------------------------------------------------------------
(* NGINX.                                                                    *)

\* The result of the first parameter the value of the source satisfies, or of the default.
MapResult(m, weights, vals, env) ==
  LET Of(v) == IF v \in DOMAIN env THEN env[v]
               ELSE Lit(IF v.uri \in DOMAIN vals THEN vals[v.uri] ELSE "")
      Satisfies(p) ==
        CASE p.kind = "escaped" -> Of(m.source[1]) = Lit(p.value)
          [] p.kind = "string" -> p.value \notin specialMapParameters /\ Of(m.source[1]) = Lit(p.value)
          [] p.kind = "weights" -> p.n \in DOMAIN weights
          [] p.kind = "first" -> /\ Of(m.source[p.n]) = Lit("1")
                                 /\ \A i \in 1..(p.n - 1) : Of(m.source[i]) = Lit("0")
          [] p.kind = "default" -> FALSE
      Resolved(r) == IF r \in DOMAIN env THEN env[r] ELSE r
      Result(p) == Resolved(IF p.kind = "weights" THEN WeightsVariable(p.n, weights[p.n][1], weights[p.n][2])
                            ELSE p.result)
      First(hits) == IF hits = {} THEN Len(m.params) ELSE CHOOSE i \in hits : \A j \in hits : i <= j
  IN Result(m.params[First({i \in DOMAIN m.params : Satisfies(m.params[i])})])

\* A variable is evaluated when another one refers to it.
Variables(cfg, weights, vals) ==
  LET value[v \in {m.variable : m \in Range(cfg.maps)}] ==
        MapResult(CHOOSE m \in Range(cfg.maps) : m.variable = v, weights, vals, value)
  IN value

\* The distribution a text stands for: a location, or split clients.
Distribution(cfg, text) ==
  IF text.mod # "$" THEN <<<<100, text>>>>
  ELSE IF text.uri[1] = "split_clients"
  THEN SelectSeq(<<<<text.uri[3], SplitPath(text.uri[2], 0)>>, <<text.uri[4], SplitPath(text.uri[2], 1)>>>>,
                 LAMBDA w : w[1] # 0)
  ELSE (CHOOSE s \in Range(cfg.splits) : s.n = 1 /\ s.index = text.uri[2]).weights

\* The URI the upstream gets: an expression with a modifier in it matches nothing.
URIOf(l) ==
  LET rewrites == Range(l.rewrites)
  IN IF rewrites \cap {<<"regex", "">>, <<"prefix", "">>} # {} THEN "rewritten"
     ELSE IF rewrites \cap {<<"request_uri", "">>, <<"request_uri_no_args", "">>} # {} THEN "request"
     ELSE IF l.grpc THEN (IF l.internal THEN "internal" ELSE "request")
     ELSE IF l.requestURI THEN "request"
     ELSE IF l.internal THEN "internal"
     ELSE IF l.passRewrite THEN "rewritten" ELSE "request"

PageOf(cfg, e) ==
  [codes |-> e.codes, code |-> e.code,
   to |-> IF e.name[1] = "url" THEN [kind |-> "url", text |-> e.name[2], type |-> "", headers |-> << >>]
          ELSE LET named == Range(IF e.name[1] = "@return" THEN cfg.returns ELSE cfg.errorLocs)
                   l == CHOOSE l \in named : l.name = e.name
               IN [kind |-> "body", text |-> l.body, type |-> l.type, headers |-> l.headers]]

Outcome(cfg, path) ==
  LET l == CHOOSE l \in Range(cfg.locations) : l.path = path
  IN [upstream |-> l.upstream, uri |-> IF l.upstream = NoUpstream THEN "" ELSE URIOf(l),
      pages |-> [i \in DOMAIN l.errors |-> PageOf(cfg, l.errors[i])]]

\* A request the location of the path is chosen for.
Serve(cfg, weights, path, vals) ==
  LET Destination(r, env) == IF r.destination \in DOMAIN env THEN env[r.destination] ELSE r.destination
      Answers(dist) == [i \in DOMAIN dist |-> <<dist[i][1], Outcome(cfg, dist[i][2])>>]
      Chosen(redirects) ==
        Answers(IF redirects = {} THEN <<<<100, path>>>>
                ELSE Distribution(cfg, Destination(CHOOSE r \in redirects : TRUE, Variables(cfg, weights, vals))))
  IN Chosen({r \in Range(cfg.redirects) : r.path = path})

\* A size in kilobytes: a number without a unit is bytes, here whole kilobytes or less than one,
\* and there are no gigabytes.  What is not set has its default, by the size of a memory page.
PageSize == 4
Kilobytes(s) == CASE s.unit = "" -> s.n \div 1024 [] s.unit = "k" -> s.n [] s.unit = "m" -> s.n * MB
SizeOr(s, default) == IF s = NoSize THEN default ELSE Kilobytes(s)

\* v is anything with the fields buffers, bufferSize and busySize.
ProxyBuffersFit(v) ==
  /\ "g" \notin {v.buffers.size.unit, v.bufferSize.unit, v.busySize.unit}
  /\ LET n == IF v.buffers = NoBuffers THEN 8 ELSE v.buffers.n
         size == SizeOr(v.buffers.size, PageSize)
         first == SizeOr(v.bufferSize, PageSize)
     IN /\ v.buffers # NoBuffers => v.buffers.size.n > 0
        /\ Rules(n, size, first, SizeOr(v.busySize, 2 * AtLeast(first, size)))

\* Everything referred to is there once, and the parameters go together.
NginxAccepts(cfg) ==
  LET locs == [i \in DOMAIN cfg.locations |-> cfg.locations[i].path]
                \o [i \in DOMAIN cfg.redirects |-> cfg.redirects[i].path]
      named == [i \in DOMAIN cfg.returns |-> cfg.returns[i].name]
                 \o [i \in DOMAIN cfg.errorLocs |-> cfg.errorLocs[i].name]
      variables == [i \in DOMAIN cfg.maps |-> cfg.maps[i].variable]
                     \o [i \in DOMAIN cfg.splits |-> SplitVariable(cfg.splits[i].index)]
  IN /\ IsInjective(locs) /\ IsInjective(named) /\ IsInjective(variables)
     /\ \A m \in Range(cfg.maps) :
          Cardinality({p \in Range(m.params) :
            p.kind = "default" \/ (p.kind = "string" /\ p.value = "default")}) <= 1
     /\ \A s \in Range(cfg.splits) : FoldLeft(LAMBDA n, w : n + w[1], 0, s.weights) <= 100
     /\ \A l \in Range(cfg.locations) :
          /\ l.upstream = NoUpstream \/ \E u \in cfg.upstreams : u.name = l.upstream
          /\ \A e \in Range(l.errors) : e.name[1] = "url" \/ e.name \in Range(named)
          /\ ProxyBuffersFit(l)
     /\ \A u \in cfg.upstreams :
          /\ u.backup => u.lb \notin HashMethods \cup RandomMethods \cup PlusRandomMethods
          /\ u.slowStart # "" => u.lb \notin HashMethods \cup RandomMethods \cup PlusRandomMethods
          /\ \A hc \in u.healthCheck : hc.match => u.statusMatch

-----------------------------------------------------------------------------
(* The resources.                                                            *)

WantedPages(pages) ==
  [i \in DOMAIN pages |->
     IF pages[i].redirect # None
     THEN LET r == CHOOSE r \in pages[i].redirect : TRUE
          IN [codes |-> pages[i].codes, code |-> CodeOr(r.code, 301),
              to |-> [kind |-> "url", text |-> r.url.text, type |-> "", headers |-> << >>]]
     ELSE LET r == CHOOSE r \in pages[i].return : TRUE
          IN [codes |-> pages[i].codes, code |-> r.code,
              to |-> [kind |-> "body", text |-> r.body.text, type |-> TypeOr(r.type, "text/html"),
                      headers |-> r.headers]]]

WantedAction(owner, pages, a) ==
  IF a.redirect # None
  THEN LET r == CHOOSE r \in a.redirect : TRUE
       IN [upstream |-> NoUpstream, uri |-> "",
           pages |-> <<[codes |-> <<418>>, code |-> CodeOr(r.code, 301),
                        to |-> [kind |-> "url", text |-> r.url.text, type |-> "", headers |-> << >>]]>>]
  ELSE IF a.return # None
  THEN LET r == CHOOSE r \in a.return : TRUE
       IN [upstream |-> NoUpstream, uri |-> "",
           pages |-> <<[codes |-> <<418>>, code |-> CodeOr(r.code, 200),
                        to |-> [kind |-> "body", text |-> r.body.text, type |-> TypeOr(r.type, "text/plain"),
                                headers |-> r.headers]]>>]
  ELSE [upstream |-> GetNameForUpstreamFromAction(owner, a),
        uri |-> IF \E p \in a.proxy : p.rewritePath.text # "" THEN "rewritten" ELSE "request",
        pages |-> WantedPages(pages)]

Holds(c, vals) == (vals[<<c.kind, c.name>>] = c.value.text) # c.value.negative

\* The first match all of whose conditions hold; else the splits or the action of the route.
Wanted(owner, pages, route, vals) ==
  LET held == {i \in DOMAIN route.matches :
                 \A j \in DOMAIN route.matches[i].conditions : Holds(route.matches[i].conditions[j], vals)}
      chosen == IF held = {} THEN [splits |-> route.splits, action |-> route.action]
                ELSE LET m == route.matches[CHOOSE i \in held : \A j \in held : i <= j]
                     IN [splits |-> m.splits, action |-> m.action]
      positive == SelectSeq(chosen.splits, LAMBDA s : s.weight # 0)
  IN IF chosen.splits = << >>
     THEN <<<<100, WantedAction(owner, pages, CHOOSE a \in chosen.action : TRUE)>>>>
     ELSE [i \in DOMAIN positive |-> <<positive[i].weight, WantedAction(owner, pages, positive[i].action)>>]

\* The values that tell the conditions of a route apart: each expected value, the empty one
\* and one nobody expects.
Conditions(route) == UNION {Range(route.matches[i].conditions) : i \in DOMAIN route.matches}
Requests(route) ==
  [{<<c.kind, c.name>> : c \in Conditions(route)} ->
     {c.value.text : c \in Conditions(route)} \cup {"", "other"}]
=============================================================================
