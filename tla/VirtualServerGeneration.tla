----------------------- MODULE VirtualServerGeneration -----------------------
(***************************************************************************)
(* The part of the NGINX configuration of a VirtualServer that routes        *)
(* requests (internal/configs/virtualserver.go): upstreams, locations,       *)
(* internal redirects, maps, split clients and error pages.                  *)
(*                                                                           *)
(* Generated names and variables are paths of their own kind: [mod, space,   *)
(* uri] with mod = "$" for a variable.  The 101 split clients of a dynamic   *)
(* two-way split are one record of n = 101, so indices are those of the code.*)
(* params is the record of the ConfigMap and command-line parameters used.   *)
(***************************************************************************)
EXTENDS VirtualServerRoutes

splitClientAmount == 101

Text(mod, uri) == [mod |-> mod, space |-> FALSE, uri |-> uri]
Var(uri) == Text("$", uri)
Lit(t) == Text("", <<t>>)

\* An upstream of the VirtualServer, or of the VirtualServerRoute with that key.
NoOwner == [namespace |-> "", name |-> ""]
GetNameForUpstream(owner, name) == [owner |-> owner, name |-> name]
NoUpstream == GetNameForUpstream(NoOwner, "")

GetNameForUpstreamFromAction(owner, a) ==
  GetNameForUpstream(owner, IF a.proxy # None THEN (CHOOSE p \in a.proxy : TRUE).upstream
                            ELSE a.pass)

SplitVariable(sc) == Var(<<"splits", sc>>)
MapVariable(sc) == Var(<<"map_split_clients", sc>>)
WeightsVariable(sc, i, j) == Var(<<"split_clients", sc, i, j>>)
MatchVariable(index, i, j) == Var(<<"matches", index, i, j>>)
MainVariable(index) == Var(<<"matches", index>>)
SplitPath(sc, i) == Text("", <<"internal_splits", sc, i>>)
MatchPath(index, i) == Text("", <<"internal_matches", index, i>>)
DefaultPath(index) == Text("", <<"internal_default", index>>)

-----------------------------------------------------------------------------
(* Upstreams.                                                                *)

isGRPC(u) == u.type = "grpc"

generateLBMethod(method, default) ==
  IF method = "" THEN default ELSE ParseLBMethod(method).method

SlowStartIncompatible == HashMethods \cup RandomMethods \cup PlusRandomMethods

\* The method that counts is the one in effect.
generateSlowStartForPlus(u, lb) ==
  IF lb \in SlowStartIncompatible THEN "" ELSE u.slowStart

generateHealthCheck(u) ==
  {[match |-> hc.statusMatch # << >>, port |-> hc.port, mandatory |-> hc.mandatory] : hc \in u.hc}

generateUpstream(vsv, params, owner, u) ==
  LET lb == generateLBMethod(u.lb, params.lb)
  IN [name |-> GetNameForUpstream(owner, u.name),
      lb |-> lb,
      backup |-> u.backup # "",
      slowStart |-> IF vsv.isPlus THEN generateSlowStartForPlus(u, lb) ELSE "",
      queue |-> vsv.isPlus /\ u.queue # None,
      ntlm |-> vsv.isPlus /\ u.ntlm,
      healthCheck |-> generateHealthCheck(u),
      statusMatch |-> \E hc \in u.hc : hc.statusMatch # << >>]

-----------------------------------------------------------------------------
(* Locations.  ctx is what the locations of a route have in common: [owner,  *)
(* upstreams, params, pages, index], with the error pages and the index of   *)
(* their names.                                                              *)

CodeOr(code, default) == IF code = 0 THEN default ELSE code
TypeOr(type, default) == IF type = "" THEN default ELSE type

generateErrorPageName(index, i) == <<"@error_page", index, i>>

generateErrorPages(pages, index) ==
  [i \in DOMAIN pages |->
     IF pages[i].redirect # None
     THEN LET r == CHOOSE r \in pages[i].redirect : TRUE
          IN [name |-> <<"url", r.url.text>>, codes |-> pages[i].codes, code |-> CodeOr(r.code, 301)]
     ELSE LET r == CHOOSE r \in pages[i].return : TRUE
          IN [name |-> generateErrorPageName(index, i - 1), codes |-> pages[i].codes, code |-> r.code]]

\* A redirect needs no location.
generateErrorPageLocations(pages, index) ==
  FoldLeftDomain(LAMBDA locs, i :
      IF pages[i].redirect # None THEN locs
      ELSE Append(locs, LET r == CHOOSE r \in pages[i].return : TRUE
                        IN [name |-> generateErrorPageName(index, i - 1), body |-> r.body.text,
                            type |-> TypeOr(r.type, "text/html"), headers |-> r.headers]),
    << >>, pages)

generatePath(path) == [path EXCEPT !.space = FALSE]

\* What to do to the URI, from the path of the route the location belongs to.
generateRewrites(proxy, internal, original, grpc) ==
  IF \A p \in proxy : p.rewritePath.text = ""
  THEN IF grpc /\ internal THEN <<<<"request_uri", "">>>> ELSE << >>
  ELSE (IF internal THEN <<<<"request_uri_no_args", "">>>> ELSE << >>)
         \o (IF original.mod \in {"~", "~*"} THEN <<<<"regex", "">>>>
             ELSE IF internal THEN <<<<"prefix", original.mod>>>>
             ELSE << >>)

generateProxyPassRewrite(path, proxy, internal) ==
  ~internal /\ path.mod \notin {"~", "~*"} /\ \E p \in proxy : p.rewritePath.text # ""

\* With the original URI when the location is internal and nothing rewrites it.
generateProxyPass(internal, proxy) == internal /\ \A p \in proxy : p.rewritePath.text = ""

NoLocation == [path |-> Lit(""), upstream |-> NoUpstream, grpc |-> FALSE, internal |-> FALSE,
               requestURI |-> FALSE, passRewrite |-> FALSE, rewrites |-> << >>, errors |-> << >>,
               buffers |-> NoBuffers, bufferSize |-> NoSize, busySize |-> NoSize]

\* What the upstream does not set is as in the ConfigMap, whose values are balanced as well.
generateBuffers(b, default) == IF b = NoBuffers THEN default ELSE b
generateString(s, default) == IF s = NoSize THEN default ELSE s

ConfigMapBuffers(b, bufferSize, busySize, autoadjust) ==
  IF autoadjust THEN BalanceProxyValues(b, bufferSize, busySize)
  ELSE [buffers |-> b, bufferSize |-> bufferSize, busySize |-> busySize]

generateLocationForProxying(ctx, path, name, u, a, internal, original) ==
  [path |-> generatePath(path), upstream |-> name, grpc |-> isGRPC(u), internal |-> internal,
   requestURI |-> generateProxyPass(internal, a.proxy),
   passRewrite |-> generateProxyPassRewrite(path, a.proxy, internal),
   rewrites |-> generateRewrites(a.proxy, internal, original, isGRPC(u)),
   errors |-> generateErrorPages(ctx.pages, ctx.index),
   buffers |-> generateBuffers(u.buffers, ctx.params.buffers),
   bufferSize |-> generateString(u.bufferSize, ctx.params.bufferSize),
   busySize |-> generateString(u.busySize, ctx.params.busySize)]

\* Both answer by the error page of a server that always fails with 418.
generateLocationForRedirect(path, redirect) ==
  [NoLocation EXCEPT !.path = generatePath(path),
     !.errors = <<[name |-> <<"url", redirect.url.text>>, codes |-> <<418>>,
                   code |-> CodeOr(redirect.code, 301)]>>]

generateLocationForReturn(path, ret, index) ==
  [NoLocation EXCEPT !.path = generatePath(path),
     !.errors = <<[name |-> <<"@return", index>>, codes |-> <<418>>, code |-> CodeOr(ret.code, 200)]>>]

ReturnLocation(ret, index) ==
  [name |-> <<"@return", index>>, body |-> ret.body.text,
   type |-> TypeOr(ret.type, "text/plain"), headers |-> ret.headers]

-----------------------------------------------------------------------------
(* Routes.  A routing configuration is what one route adds to the file.      *)

NoRouting == [maps |-> << >>, splits |-> << >>, locations |-> << >>, redirects |-> << >>,
              returns |-> << >>, twoWay |-> << >>]

Join(a, b) == [f \in DOMAIN a |-> a[f] \o b[f]]

SplitClients(rc) == FoldLeft(LAMBDA n, s : n + s.n, 0, rc.splits)

generateLocation(ctx, path, a, internal, original, retIndex) ==
  IF a.redirect # None
  THEN [NoRouting EXCEPT !.locations =
          <<generateLocationForRedirect(path, CHOOSE r \in a.redirect : TRUE)>>]
  ELSE IF a.return # None
  THEN LET r == CHOOSE r \in a.return : TRUE
       IN [NoRouting EXCEPT !.locations = <<generateLocationForReturn(path, r, retIndex)>>,
                            !.returns = <<ReturnLocation(r, retIndex)>>]
  ELSE LET name == GetNameForUpstreamFromAction(ctx.owner, a)
       IN [NoRouting EXCEPT !.locations =
             <<generateLocationForProxying(ctx, path, name, ctx.upstreams[name], a, internal, original)>>]

\* Each of the 101 pairs of weights has split clients; a map chooses among them by the
\* weights in the key-value zone, and by the larger weight when there are none.
generateSplitsForWeightChangesDynamicReload(splits, sc) ==
  [NoRouting EXCEPT
     !.splits = <<[index |-> sc, n |-> splitClientAmount, weights |-> << >>]>>,
     !.maps = <<[source |-> <<Var(<<"keyval", sc>>)>>, variable |-> MapVariable(sc),
                 params |-> <<[kind |-> "weights", value |-> "", n |-> sc, result |-> Lit("")],
                              [kind |-> "default", value |-> "", n |-> 0,
                               result |-> IF splits[1].weight < splits[2].weight
                                          THEN WeightsVariable(sc, 0, 100)
                                          ELSE WeightsVariable(sc, 100, 0)]>>]>>,
     !.twoWay = <<[index |-> sc, weights |-> <<splits[1].weight, splits[2].weight>>]>>]

IsDynamic(params, splits) == params.weightChangesDynamicReload /\ Len(splits) = 2

generateSplits(params, ctx, splits, sc, original, retIndex) ==
  FoldLeftDomain(LAMBDA before, i : Given(before, LAMBDA rc :
      Join(rc, generateLocation(ctx, SplitPath(sc, i - 1), splits[i].action, TRUE, original,
                                retIndex + Len(rc.returns)))),
    IF IsDynamic(params, splits) THEN generateSplitsForWeightChangesDynamicReload(splits, sc)
    ELSE [NoRouting EXCEPT !.splits =
            <<[index |-> sc, n |-> 1,
               weights |-> SelectSeq([i \in DOMAIN splits |-> <<splits[i].weight, SplitPath(sc, i - 1)>>],
                                     LAMBDA w : w[1] # 0)]>>],
    splits)

SplitsResult(params, splits, sc) ==
  IF IsDynamic(params, splits) THEN MapVariable(sc) ELSE SplitVariable(sc)

Redirect(path, destination) ==
  [NoRouting EXCEPT !.redirects = <<[path |-> generatePath(path), destination |-> destination]>>]

generateDefaultSplitsConfig(params, ctx, route, sc, retIndex) ==
  Join(generateSplits(params, ctx, route.splits, sc, route.path, retIndex),
       Redirect(route.path, SplitsResult(params, route.splits, sc)))

-----------------------------------------------------------------------------
(* Matches.  A value is a string; "!v" is written [negative, text].          *)

specialMapParameters == {"default", "hostnames", "include", "volatile"}

generateValueForMatchesRouteMap_bug(value) == "string"

generateValueForMatchesRouteMap(value) ==
  IF value.text \in specialMapParameters THEN "escaped" ELSE "string"

generateParametersForMatchesRouteMap(value, success) ==
  <<[kind |-> generateValueForMatchesRouteMap(value), value |-> value.text, n |-> 0,
     result |-> IF value.negative THEN Lit("0") ELSE success],
    [kind |-> "default", value |-> "", n |-> 0,
     result |-> IF value.negative THEN success ELSE Lit("0")]>>

getNameForSourceForMatchesRouteMapFromCondition(c) == Var(<<c.kind, c.name>>)

\* The conditions of a match are chained: each leads to the next, the last to "1".
ConditionMaps(route, index) ==
  FoldLeftDomain(LAMBDA maps, i :
      maps \o [j \in DOMAIN route.matches[i].conditions |->
        [source |-> <<getNameForSourceForMatchesRouteMapFromCondition(route.matches[i].conditions[j])>>,
         variable |-> MatchVariable(index, i - 1, j - 1),
         params |-> generateParametersForMatchesRouteMap(route.matches[i].conditions[j].value,
                      IF j < Len(route.matches[i].conditions) THEN MatchVariable(index, i - 1, j)
                      ELSE Lit("1"))]],
    << >>, route.matches)

\* How far the splits of the matches before the i-th move the index.
LocalIndex(params, matches, i) ==
  FoldLeft(LAMBDA n, k : n + (IF matches[k].splits = << >> THEN 0
                              ELSE IF IsDynamic(params, matches[k].splits) THEN splitClientAmount
                              ELSE 1),
           0, [k \in 1..(i - 1) |-> k])

\* The source is the concatenation of the results of the matches: the first "1" decides.
MainMap(params, route, index, sc) ==
  [source |-> [i \in DOMAIN route.matches |-> MatchVariable(index, i - 1, 0)],
   variable |-> MainVariable(index),
   params |->
     [i \in DOMAIN route.matches |->
        [kind |-> "first", value |-> "", n |-> i,
         result |-> IF route.matches[i].splits = << >> THEN MatchPath(index, i - 1)
                    ELSE SplitsResult(params, route.matches[i].splits,
                                      sc + LocalIndex(params, route.matches, i))]]
     \o <<[kind |-> "default", value |-> "", n |-> 0,
           result |-> IF route.splits = << >> THEN DefaultPath(index)
                      ELSE SplitsResult(params, route.splits,
                             sc + LocalIndex(params, route.matches, Len(route.matches) + 1))]>>]

\* The second pass counts the split clients that are there, not those it expects.
MatchLocations(params, ctx, route, index, sc, retIndex) ==
  FoldLeftDomain(LAMBDA before, i : Given(before, LAMBDA rc :
      Join(rc,
        IF route.matches[i].splits # << >>
        THEN generateSplits(params, ctx, route.matches[i].splits, sc + SplitClients(rc), route.path,
                            retIndex + Len(rc.returns))
        ELSE generateLocation(ctx, MatchPath(index, i - 1), CHOOSE a \in route.matches[i].action : TRUE,
                              TRUE, route.path, retIndex + Len(rc.returns)))),
    [NoRouting EXCEPT !.maps = Append(ConditionMaps(route, index), MainMap(params, route, index, sc))],
    route.matches)

DefaultLocations(params, ctx, route, index, sc, retIndex, rc) ==
  Join(rc,
    IF route.splits # << >>
    THEN generateSplits(params, ctx, route.splits, sc + SplitClients(rc), route.path,
                        retIndex + Len(rc.returns))
    ELSE generateLocation(ctx, DefaultPath(index), CHOOSE a \in route.action : TRUE,
                          TRUE, route.path, retIndex + Len(rc.returns)))

generateMatchesConfig(params, ctx, route, index, sc, retIndex) ==
  Join(Given(MatchLocations(params, ctx, route, index, sc, retIndex), LAMBDA rc :
             DefaultLocations(params, ctx, route, index, sc, retIndex, rc)),
       Redirect(route.path, MainVariable(index)))

-----------------------------------------------------------------------------
(* The whole file.  g is the file so far: [rc, errorLocs, matches].          *)

\* Only the routes that are not handed to a VirtualServerRoute have locations.
GenerateRoute(params, g, ctx, route) ==
  [g EXCEPT
     !.rc = Join(@, IF route.matches # << >>
                    THEN generateMatchesConfig(params, ctx, route, g.matches, SplitClients(g.rc),
                                               Len(g.rc.returns))
                    ELSE IF route.splits # << >>
                    THEN generateDefaultSplitsConfig(params, ctx, route, SplitClients(g.rc),
                                                     Len(g.rc.returns))
                    ELSE generateLocation(ctx, route.path, CHOOSE a \in route.action : TRUE, FALSE,
                                          route.path, Len(g.rc.returns))),
     !.matches = IF route.matches # << >> THEN @ + 1 ELSE @]

AddErrorPages(g, pages) ==
  [g EXCEPT !.errorLocs = @ \o generateErrorPageLocations(pages, Len(@))]

Referenced(col, vs, r) ==
  IF r.route # None THEN {RouteKey(ref, vs.namespace) : ref \in r.route}
  ELSE UNION {IF labels \in DOMAIN col.selectors THEN col.selectors[labels] ELSE {}
              : labels \in r.routeSelector}

\* The error pages the subroutes fall back on: those of the last route that leads to them.
GenerateVSRoutes(params, upstreams, col, vs) ==
  FoldLeft(LAMBDA before, r : Given(before, LAMBDA g :
      IF r.route # None \/ r.routeSelector # None
      THEN [AddErrorPages(g, r.errorPages) EXCEPT !.inherited =
              IF r.errorPages = << >> THEN @
              ELSE [k \in Referenced(col, vs, r) |-> [pages |-> r.errorPages, index |-> Len(g.errorLocs)]]
                     @@ @]
      ELSE GenerateRoute(params, AddErrorPages(g, r.errorPages),
                         [owner |-> NoOwner, upstreams |-> upstreams, params |-> params,
                          pages |-> r.errorPages, index |-> Len(g.errorLocs)], r)),
    [rc |-> NoRouting, errorLocs |-> << >>, matches |-> 0, inherited |-> << >>], vs.routes)

ErrorsOfSubroute(g, key, r) ==
  IF r.errorPages = << >> /\ key \in DOMAIN g.inherited THEN g.inherited[key]
  ELSE [pages |-> r.errorPages, index |-> Len(g.errorLocs)]

GenerateSubroutes(params, upstreams, vsrs, g, key) ==
  FoldLeft(LAMBDA before, r : Given(before, LAMBDA h :
      GenerateRoute(params, AddErrorPages(h, r.errorPages),
                    ErrorsOfSubroute(h, key, r)
                      @@ [owner |-> key, upstreams |-> upstreams, params |-> params], r)),
    g, vsrs[key].subroutes)

UpstreamsByName(col, vs, vsrs) ==
  [n \in {GetNameForUpstream(NoOwner, u.name) : u \in Range(vs.upstreams)}
           \cup UNION {{GetNameForUpstream(k, u.name) : u \in Range(vsrs[k].upstreams)} : k \in Range(col.vsrs)}
   |-> CHOOSE u \in Range(IF n.owner = NoOwner THEN vs.upstreams ELSE vsrs[n.owner].upstreams) :
         u.name = n.name]

Assemble(vsv, params, upstreams, g) ==
  [maps |-> g.rc.maps, splits |-> g.rc.splits, locations |-> g.rc.locations,
   redirects |-> g.rc.redirects, returns |-> g.rc.returns, twoWay |-> g.rc.twoWay,
   errorLocs |-> g.errorLocs,
   upstreams |-> {generateUpstream(vsv, params, n.owner, upstreams[n]) : n \in DOMAIN upstreams}]

\* The VirtualServerRoutes of vsrs that were collected, in that order.
GenerateVirtualServerConfig(vsv, params, vs, vsrs, col) ==
  LET AddSubroutes(upstreams, first) ==
        FoldLeft(LAMBDA g, k : Given(g, LAMBDA h : GenerateSubroutes(params, upstreams, vsrs, h, k)),
                 first, col.vsrs)
      Generate(upstreams) ==
        Given(Given(GenerateVSRoutes(params, upstreams, col, vs), LAMBDA g : AddSubroutes(upstreams, g)),
              LAMBDA g : Assemble(vsv, params, upstreams, g))
  IN Given(UpstreamsByName(col, vs, vsrs), Generate)
=============================================================================
