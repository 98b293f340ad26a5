------------------------------ MODULE MCBundles -----------------------------
(* Instances of Bundles: one policy, its sources, and what happens around it. *)
EXTENDS Bundles

None == [kind |-> "none"]
PLM(r) == [kind |-> "plm", ref |-> r, secret |-> FALSE]
Remote(type, u, polling, verify, creds) ==
  [kind |-> "remote", type |-> type, server |-> u, polling |-> polling, verify |-> verify,
   secret |-> creds, name |-> "bundle", retries |-> 2]

Policy(sources) == [exists |-> TRUE, valid |-> TRUE, sources |-> sources]
Rejected(sources) == [exists |-> TRUE, valid |-> FALSE, sources |-> sources]
NoPolicy(n) == [exists |-> FALSE, valid |-> FALSE, sources |-> [s \in 1..n |-> None]]
Without(n) == [exists |-> TRUE, valid |-> TRUE, sources |-> [s \in 1..n |-> None]]

Server(body, replies) ==
  [body |-> body, replies |-> replies, etags |-> FALSE, hash |-> NoHash, items |-> << >>,
   statuses |-> << >>]
Tagged(body) == [Server(body, {"ok"}) EXCEPT !.etags = TRUE]
Console(body, hash, statuses, items) ==
  [Server(body, {"ok"}) EXCEPT !.hash = hash, !.statuses = statuses, !.items = items]
Manager(body, items) == [Server(body, {"ok", "redirect"}) EXCEPT !.items = items]

Ready(sha) == [state |-> "ready", sha |-> sha, location |-> TRUE]
Compiling == [state |-> "processing", sha |-> NoHash, location |-> FALSE]

Store(secrets, replies) ==
  [secrets |-> secrets, replies |-> replies,
   body |-> [c1 |-> "c1", c2 |-> "c2", d1 |-> "d1"]]

Base ==
  [policy |-> NoPolicy(1), policies |-> {}, secret |-> "s1", secrets |-> {},
   servers |-> << >>, answers |-> << >>, contents |-> << >>, plm |-> << >>, bundles |-> << >>,
   store |-> Store(TRUE, {"ok"}), stores |-> {}, maxChanges |-> 2]

\* A policy and a log profile compiled by PLM, and the object store with its Secrets.
PLMPolicy == Policy(<<PLM("p"), PLM("l")>>)
PLMWorkload ==
  [Base EXCEPT !.policy = PLMPolicy, !.policies = {NoPolicy(2)},
     !.plm = [p |-> Ready("c1"), l |-> Ready("d1")],
     !.bundles = [p |-> {Ready("c1"), Ready("c2")}, l |-> {Compiling}]]
StoreWorkload ==
  [Base EXCEPT !.policy = Policy(<<PLM("p")>>), !.plm = [p |-> Compiling],
     !.bundles = [p |-> {Ready("c1"), Ready("c2")}], !.store = Store(FALSE, {"ok"}),
     !.stores = {Store(FALSE, {"ok"}), Store(TRUE, {"ok"}), Store(TRUE, {"ok", "serverError"}),
                 [Store(TRUE, {"ok"}) EXCEPT !.body.c2 = "d1"]},
     !.maxChanges = 3]

\* A source that is polled, and changes.
Polling(verify) == Policy(<<Remote("HTTPS", "u", TRUE, verify, FALSE)>>)
PollWorkload ==
  [Base EXCEPT !.policy = Polling(FALSE), !.policies = {NoPolicy(1), Without(1), Polling(FALSE)},
     !.servers = [u |-> Server("a", {"ok"})],
     !.answers = [u |-> {Server("b", {"ok"}), Server("b", {"ok", "serverError"}),
                         Server(Empty, {"ok"}), Server("a", {"eof"})}]]
TagWorkload ==
  [Base EXCEPT !.policy = Polling(FALSE), !.servers = [u |-> Tagged("a")],
     !.answers = [u |-> {Tagged("a"), Tagged("b")}], !.maxChanges = 3]

\* The bundle of a policy moves from a source that is polled to PLM, and back.
MoveWorkload ==
  [Base EXCEPT !.policy = Polling(FALSE), !.policies = {Policy(<<PLM("p")>>), Polling(FALSE)},
     !.servers = [u |-> Server("a", {"ok"})], !.answers = [u |-> {Server("b", {"ok"})}],
     !.plm = [p |-> Ready("c1")], !.bundles = [p |-> {Ready("c2")}]]

\* The credentials of the source change.
WithSecret == Policy(<<Remote("HTTPS", "u", TRUE, FALSE, TRUE),
                       Remote("HTTPS", "v", FALSE, FALSE, TRUE)>>)
SecretWorkload ==
  [Base EXCEPT !.policy = WithSecret, !.policies = {Rejected(WithSecret.sources)},
     !.secrets = {"bad"},
     !.servers = [u |-> Server("a", {"ok"}), v |-> Server("b", {"ok"})],
     !.answers = [u |-> {}, v |-> {}]]

\* NGINX One Console and NGINX Instance Manager.
Item(created, uid, hash) == [created |-> created, uid |-> uid, hash |-> hash]
ConsoleWorkload ==
  [Base EXCEPT !.policy = Policy(<<Remote("N1C", "u", FALSE, FALSE, FALSE),
                                   Remote("N1C", "v", TRUE, FALSE, FALSE)>>),
     !.policies = {Policy(<<Remote("N1C", "u", TRUE, FALSE, FALSE), None>>)},
     !.servers = [u |-> Console("a", "a", <<"running", "succeeded">>, <<"x", "y", "bundle">>),
                  v |-> Console("b", NoHash, << >>, <<"bundle">>)],
     !.answers = [u |-> {Console("a", "c", <<"succeeded">>, <<"bundle">>),
                         Console("c", "c", <<"succeeded">>, <<"bundle">>),
                         Console("a", "a", <<"running", "running", "running">>, <<"bundle">>),
                         Console("a", "a", <<"failed">>, <<"bundle">>),
                         Console("a", "a", <<"unknown">>, <<"x", "bundle">>)},
                  v |-> {Console("c", NoHash, << >>, <<"x", "y">>)}],
     !.maxChanges = 1]
ManagerWorkload ==
  [Base EXCEPT !.policy = Policy(<<Remote("NIM", "u", TRUE, FALSE, FALSE),
                                   Remote("NIM", "v", FALSE, FALSE, FALSE)>>),
     !.servers = [u |-> Manager("a", <<Item(1, TRUE, "b"), Item(2, TRUE, "a")>>),
                  v |-> Manager("d", << >>)],
     !.answers = [u |-> {Manager("b", <<Item(3, TRUE, "b"), Item(2, TRUE, "a")>>),
                         Manager("b", <<Item(0, TRUE, NoHash)>>),
                         Manager("a", <<Item(1, FALSE, NoHash)>>),
                         Manager("a", <<Item(1, TRUE, "b")>>), Manager("a", << >>)},
                  v |-> {Manager(TooLarge, << >>)}],
     !.maxChanges = 1]

BundleWorkloads ==
  {PLMWorkload, StoreWorkload, PollWorkload, TagWorkload, MoveWorkload,
   SecretWorkload, ConsoleWorkload, ManagerWorkload}

-----------------------------------------------------------------------------
\* The source of a policy that does not poll is replaced.
Once(u) == Policy(<<Remote("HTTPS", u, FALSE, FALSE, FALSE)>>)
OnceWorkloads ==
  {[Base EXCEPT !.policy = Once("u"), !.policies = {Once("u"), Once("v")},
      !.servers = [u |-> Server("a", {"ok"}), v |-> Server("b", {"ok"})],
      !.contents = [u |-> {"a"}, v |-> {"b"}], !.answers = [u |-> {}, v |-> {}]]}

\* A source that is polled and verified publishes a new bundle.
VerifyWorkloads ==
  {[Base EXCEPT !.policy = Polling(TRUE), !.servers = [u |-> Server("a", {"ok"})],
      !.answers = [u |-> {Server("b", {"ok"})}]]}
=============================================================================
