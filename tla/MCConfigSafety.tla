---------------------------- MODULE MCConfigSafety ----------------------------
(* Instances of ConfigSafety for TLC.                                          *)
EXTENDS ConfigSafety, TLC

CONSTANTS i1, v1, t1, t2

\* What the ConfigMaps do to the files: "server" breaks the server of every
\* resource (server-snippets), "main" breaks nginx.conf (main-snippets), "default"
\* the synthetic default server; "fine", "other" and "noparse" break nothing.
\* A port may be taken once.
NginxRefuses(tree, p) ==
  \/ tree[p].spec \in {"bad", "openBad"}
  \/ tree[p].params = "server" /\ tree[p].spec \notin {"main", "default"}
  \/ tree[p].params \in {"main", "default"} /\ tree[p].spec = tree[p].params
  \/ \E q \in DOMAIN tree \ {p} : tree[p].port # 0 /\ tree[q].port = tree[p].port

NginxAccepts(tree) == \A p \in DOMAIN tree : ~NginxRefuses(tree, p)

\* The message names a file that is refused, or none.
NginxErrors(tree) == {p \in DOMAIN tree : NginxRefuses(tree, p)} \cup {NoPath}

Files(specs, ports) == [spec : specs, params : ConfigMaps, port : ports]
Plain == {"main", "default", "good", "bad"}
PlainContents == Files(Plain, {0})
OpenContents == Files(Plain \cup {"open", "openBad"}, {0})
PortContents == Files({"main", "default"}, {0}) \cup Files({"good", "bad"}, 1..3)

\* Every resource is good or bad; the Ingresses may also take the empty host.
PlainSpecs(r) == {"good", "bad"}
OpenSpecs(r) == IF r \in Ingresses THEN {"good", "open", "openBad"} ELSE {"good", "bad"}

NoPorts == {[r \in {} |-> 0]}
MovedPorts == {(t1 :> 1 @@ t2 :> 2), (t1 :> 3 @@ t2 :> 2)}

ClustersOf(existing, cms) ==
  {[objects |-> o, configMap |-> c, globalConfiguration |-> gc] :
     o \in {f \in [ResourceFiles -> UNION {Specs(r) : r \in ResourceFiles} \cup {Absent}] :
              \A r \in ResourceFiles :
                IF r \in existing THEN f[r] \in Specs(r) ELSE f[r] = Absent},
     c \in cms, gc \in GlobalConfigurations}
AllExist == ClustersOf(ResourceFiles, ConfigMaps)

\* The ports are moved later.  When one of the two is bad at startup it is t1.
FirstPorts ==
  {c \in AllExist : /\ c.globalConfiguration[t1] = 1
                    /\ c.objects[t2] = "bad" => c.objects[t1] = "bad"}
NoneExists == ClustersOf({}, ConfigMaps)

Order_i1_v1 == <<i1, v1>>
Order_t1_t2 == <<t1, t2>>
Order_v1_t1_t2 == <<v1, t1, t2>>

=============================================================================
