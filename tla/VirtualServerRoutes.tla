------------------------- MODULE VirtualServerRoutes -------------------------
(***************************************************************************)
(* Which VirtualServerRoutes a VirtualServer is configured with, and in      *)
(* which order (internal/k8s/configuration.go).  vsrs is the function from   *)
(* keys to the accepted VirtualServerRoutes; order is a sequence of its      *)
(* keys, the order in which Go happens to iterate over that map.             *)
(*                                                                           *)
(* A collection is [vsrs, regex, selectors, warnings]: the keys collected,   *)
(* the keys named by regular expressions with the paths that name them, the  *)
(* keys each selector has matched, and what was refused.                     *)
(***************************************************************************)
EXTENDS VirtualServerValidation

NoCollection == [vsrs |-> << >>, regex |-> << >>, selectors |-> << >>, warnings |-> {}]

\* F of the value of x, which is evaluated once.
Given(x, F(_)) == CHOOSE y \in {F(v) : v \in {x}} : TRUE

\* The keys that are valid for the paths that lead to them, and warnings for the others.
ValidFor(vsv, vsrs, host, keys, paths) ==
  LET Checked(valid) == [keys |-> SelectSeq(keys, LAMBDA k : k \in valid),
                         warnings |-> {<<"invalid", k>> : k \in Range(keys) \ valid}]
  IN Checked({k \in Range(keys) :
                ValidateVirtualServerRouteForVirtualServer(vsv, vsrs[k], host, paths[k])})

\* The VirtualServerRoute a path leads to.
validateVSRs(vsv, vsrs, r, vs) ==
  LET key == RouteKey(CHOOSE ref \in r.route : TRUE, vs.namespace)
  IN IF key \notin DOMAIN vsrs THEN [keys |-> << >>, warnings |-> {<<"missing", key>>}]
     ELSE ValidFor(vsv, vsrs, vs.host, <<key>>, [k \in {key} |-> <<r.path>>])

\* In the order of the map.
validateVSRSelectors(vsv, vsrs, order, labels, r, vs) ==
  ValidFor(vsv, vsrs, vs.host, SelectSeq(order, LAMBDA k : labels \subseteq vsrs[k].labels),
           [k \in DOMAIN vsrs |-> <<r.path>>])

\* Each VirtualServerRoute once; the later mentions are dropped with a warning.
AddUnseen(col, found) ==
  FoldLeft(LAMBDA before, k : Given(before, LAMBDA c :
             IF Contains(c.vsrs, k) THEN [c EXCEPT !.warnings = @ \cup {<<"duplicate", k>>}]
             ELSE [c EXCEPT !.vsrs = Append(@, k)]),
           [col EXCEPT !.warnings = @ \cup found.warnings], found.keys)

collectNonRegexNamedRoute(vsv, vsrs, col, r, vs) == AddUnseen(col, validateVSRs(vsv, vsrs, r, vs))

collectSelectorRoute(vsv, vsrs, order, col, labels, r, vs) ==
  LET Collect(found) == AddUnseen([col EXCEPT !.selectors = (labels :> Range(found.keys)) @@ @], found)
  IN Collect(validateVSRSelectors(vsv, vsrs, order, labels, r, vs))

\* Kept for later, with all the paths of the routes that name it.
collectRegexNamedRoute(vsrs, col, r, vs) ==
  LET key == RouteKey(CHOOSE ref \in r.route : TRUE, vs.namespace)
      known == {i \in DOMAIN col.regex : col.regex[i].key = key}
      Seen(paths) == \E i \in DOMAIN paths : NormalizePath(paths[i]) = NormalizePath(r.path)
  IN IF key \notin DOMAIN vsrs THEN [col EXCEPT !.warnings = @ \cup {<<"missing", key>>}]
     ELSE IF known = {} THEN [col EXCEPT !.regex = Append(@, [key |-> key, paths |-> <<r.path>>])]
     ELSE [col EXCEPT !.regex = [i \in DOMAIN @ |->
             IF i \in known /\ ~Seen(@[i].paths) THEN [@[i] EXCEPT !.paths = Append(@, r.path)]
             ELSE @[i]]]

classifyAndCollectVSRs(vsv, vsrs, order, vs) ==
  FoldLeft(LAMBDA before, r : Given(before, LAMBDA col :
             IF r.route # None
             THEN IF r.path.mod \in {"~", "~*"} THEN collectRegexNamedRoute(vsrs, col, r, vs)
                  ELSE collectNonRegexNamedRoute(vsv, vsrs, col, r, vs)
             ELSE IF r.routeSelector # None
             THEN collectSelectorRoute(vsv, vsrs, order, col,
                                       CHOOSE labels \in r.routeSelector : TRUE, r, vs)
             ELSE col),
           NoCollection, vs.routes)

\* In the order of the first route that names each.
validateAndBuildRegexVSRs(vsv, vsrs, entries, host) ==
  ValidFor(vsv, vsrs, host, [i \in DOMAIN entries |-> entries[i].key],
           [k \in {e.key : e \in Range(entries)} |-> (CHOOSE e \in Range(entries) : e.key = k).paths])

deduplicateVSRSlice(col, found) == AddUnseen(col, found)

\* A VirtualServerRoute with a path an earlier one has is dropped, even when that one is
\* itself dropped for another path.
validateDuplicateVSRPaths_bug(vsrs, col) == col

validateDuplicateVSRPaths(vsrs, col) ==
  LET Paths(k) == {NormalizePath(r.path) : r \in Range(vsrs[k].subroutes)}
      Conflicts(i) == \E j \in 1..(i - 1) : Paths(col.vsrs[i]) \cap Paths(col.vsrs[j]) # {}
      conflicting == {col.vsrs[i] : i \in {i \in DOMAIN col.vsrs : Conflicts(i)}}
  IN [col EXCEPT !.vsrs = SelectSeq(@, LAMBDA k : k \notin conflicting),
                 !.warnings = @ \cup {<<"conflict", k>> : k \in conflicting}]

syncVSRSelectors(col) ==
  [col EXCEPT !.selectors = [labels \in DOMAIN @ |-> @[labels] \cap Range(col.vsrs)]]

buildVirtualServerRoutes(vsv, vsrs, order, vs) ==
  LET Build(collected) ==
        deduplicateVSRSlice(collected, validateAndBuildRegexVSRs(vsv, vsrs, collected.regex, vs.host))
      Deduplicated(col) == validateDuplicateVSRPaths(vsrs, col)
  IN syncVSRSelectors(Given(Given(classifyAndCollectVSRs(vsv, vsrs, order, vs), Build), Deduplicated))
=============================================================================
