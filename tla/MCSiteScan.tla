----------------------------- MODULE MCSiteScan -----------------------------
(* A small instance of SiteScan for TLC: a site, its www and another host. *)
EXTENDS SiteScan, TLC

Hardened == [hsts |-> "full", csp |-> TRUE, minor |-> TRUE,
             disclosure |-> FALSE, weakCookies |-> FALSE]
Lax      == [hsts |-> "short", csp |-> TRUE, minor |-> FALSE,
             disclosure |-> TRUE, weakCookies |-> TRUE]

MCHosts      == {"own", "www"}
MCHeaderSets == {Hardened, Lax}
MCPaths      == {"/"}

Spelled(scheme, host) == [scheme |-> scheme, host |-> host, path |-> "/", port |-> FALSE]

MCAbsolute == {Spelled("http", "own"), Spelled("https", "own"), Spelled("https", "www"),
               Spelled("http", "?")}

MCShows == ("own" :> {"jquery"}) @@ ("www" :> {"grafana", "old"})

MCManifests ==
  ("npm" :> [own |-> {"app"}, sections |-> {<<"jquery">>, <<"left">>}, big |-> FALSE]) @@
  ("php" :> [own |-> {}, sections |-> {<<"right", "app", "left">>}, big |-> FALSE]) @@
  ("huge" :> [own |-> {"app"}, sections |-> {<<"right">>}, big |-> TRUE])

MCCategory == ("jquery" :> "permissive") @@ ("grafana" :> "network-copyleft") @@
              ("old" :> "restricted") @@ ("app" :> "unknown") @@
              ("left" :> "permissive") @@ ("right" :> "permissive")
=============================================================================
