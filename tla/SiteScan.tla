------------------------------ MODULE SiteScan ------------------------------
(***************************************************************************)
(* What the scan asks of one site over HTTP: scan_http of                  *)
(* quantumready/scan/http.py (the page, then port 80), then scan_licences  *)
(* of scan/licences.py (the markup, fetched again if there is none, and    *)
(* three manifests), with the findings rules.py draws from both.           *)
(*                                                                         *)
(* One action is one request of fetch's redirect loop.  The servers are    *)
(* external.  Headers are abstracted to what the findings tell apart, a    *)
(* body to the host it came from or to the manifest it is, a component to  *)
(* its name in lower case.                                                 *)
(***************************************************************************)
EXTENDS Naturals, FiniteSets

CONSTANTS Own, Hosts,     \* the site's host and all hosts
          MaxRedirects,   \* MAX_REDIRECTS (5)
          HeaderSets,     \* what answers carry: see IsHeaders
          Paths,          \* the paths a Location may name
          Absolute,       \* the URLs a Location may spell out; host "?" does not parse
          Shows,          \* Shows[h]: the components the page of h gives away
          Manifests,      \* Manifests[m]: its own name, its sections, and if it is big
          MaxDeps,        \* entries of a section that are read (100)
          Category,       \* the licence category of a component
          Retired         \* components past their end of life

NoHeaders == [hsts |-> "none", csp |-> FALSE, minor |-> FALSE,
              disclosure |-> FALSE, weakCookies |-> FALSE]

IsHeaders(s) ==
  /\ s.hsts \in {"none", "short", "own", "full"}
  /\ {s.csp, s.minor, s.disclosure, s.weakCookies} \subseteq BOOLEAN

ASSUME HostsAssumption     == {Own, "www"} \subseteq Hosts /\ "?" \notin Hosts /\ "none" \notin Hosts
ASSUME LimitAssumption     == MaxRedirects \in Nat
ASSUME HeadersAssumption   == \A s \in HeaderSets : IsHeaders(s)
ASSUME LocationsAssumption == \A u \in Absolute : u.host \in Hosts \cup {"?"}
ASSUME ShowsAssumption     == \A h \in Hosts : IsFiniteSet(Shows[h])
ASSUME ManifestsAssumption ==
  \A m \in DOMAIN Manifests :
    /\ IsFiniteSet(Manifests[m].own) /\ IsFiniteSet(Manifests[m].sections)
    /\ \A s \in Manifests[m].sections : IsFiniteSet(DOMAIN s)
ASSUME DepsAssumption      == MaxDeps \in Nat

VARIABLES
  at,          \* what is fetched, or "over"
  fetching,    \* fetch's loop is running
  url, left, seen,   \* its current URL, the turns it has left, what it asked for
  result,      \* the HTTPResult under construction
  page,        \* the site's entry in http_results: {} or what is read of one result
  plain,       \* check_plaintext: whether port 80 is open, and redirects to https
  html,        \* whose markup is inventoried: a host or "none"
  wwwBody,     \* another assessed host, whose name contains this one's, has a page
  manifests,   \* exposed_manifests
  components,
  sent,        \* history: the headers sent while the page was fetched
  bodies       \* history: whose body answered the fetch of the page, of the markup

fetchVars == <<fetching, url, left, seen, result>>
histVars == <<sent, bodies>>
vars == <<at, fetchVars, page, plain, html, wwwBody, manifests, components, histVars>>

Nothing == [reachable |-> FALSE, status |-> "none", headers |-> NoHeaders,
            body |-> "none", secure |-> FALSE]

To(scheme, path) == [scheme |-> scheme, host |-> Own, path |-> path, port |-> FALSE]

ManifestPaths == <<"/package.json", "/composer.json", "/bower.json">>   \* MANIFEST_PATHS

FetchReuses(what, scheme, path, redirects) ==   \* mutant: one HTTPResult for all fetches
  /\ at' = what /\ fetching' = TRUE
  /\ url' = To(scheme, path) /\ left' = redirects + 1 /\ seen' = {}
  /\ UNCHANGED result

\* Calls fetch; redirects is its max_redirects.
Fetch(what, scheme, path, redirects) ==
  /\ at' = what /\ fetching' = TRUE
  /\ url' = To(scheme, path) /\ left' = redirects + 1 /\ seen' = {}
  /\ result' = Nothing

FetchManifest(k) == Fetch(ManifestPaths[k], "https", ManifestPaths[k], 1)

Init ==
  /\ at = "page" /\ fetching = TRUE
  /\ url = To("https", "/") /\ left = MaxRedirects + 1 /\ seen = {}
  /\ result = Nothing
  /\ page = {} /\ plain = [open |-> FALSE, redirects |-> FALSE]
  /\ html = "none" /\ wwwBody \in BOOLEAN
  /\ manifests = {} /\ components = {} /\ sent = {} /\ bodies = {}

-----------------------------------------------------------------------------
(* fetch: one turn of its loop.                                            *)

siteVars == <<at, page, plain, html, wwwBody, manifests, components>>

\* The turn ends the loop.
Return ==
  /\ fetching' = FALSE /\ seen' = seen \cup {url} /\ left' = left - 1
  /\ UNCHANGED <<url, siteVars>>

Asking == fetching /\ left > 0

FailsEmpty ==   \* mutant: a request that failed is taken for an empty answer
  /\ Asking /\ Return
  /\ result' = [result EXCEPT !.reachable = TRUE, !.headers = NoHeaders]
  /\ UNCHANGED histVars

\* _split_url finds no host, or _request returns an error: what an earlier hop
\* said stays in the result.
Fails == Asking /\ Return /\ UNCHANGED <<result, histVars>>

\* An answer of the current host with these headers.
Gets(status, headers, body, secure) ==
  /\ url.host # "?"
  /\ result' = [reachable |-> TRUE, status |-> status, headers |-> headers,
                body |-> body, secure |-> secure]
  /\ sent' = IF at = "page" THEN sent \cup {headers} ELSE sent
  /\ bodies' = IF at \in {"page", "markup"} /\ body # "none"
                 THEN bodies \cup {<<at, body>>} ELSE bodies

\* Connected, but nothing came before the timeout: no status, no headers.
Silence == Asking /\ Return /\ Gets("none", NoHeaders, "none", FALSE)

Bodies == IF at \in {"page", "plain", "markup"} THEN {"none", url.host}
          ELSE {"none"} \cup DOMAIN Manifests

\* A last answer, of status 200 or of an error.
Final ==
  /\ Asking /\ Return
  /\ \E s \in {"200", "error"}, h \in HeaderSets, b \in Bodies : Gets(s, h, b, FALSE)

\* A path is joined to the current host with its port spelled out.
Locations == {[scheme |-> url.scheme, host |-> url.host, path |-> p, port |-> TRUE] : p \in Paths}
               \cup Absolute

Follow(target) ==
  /\ url' = target /\ left' = left - 1 /\ seen' = seen \cup {url}
  /\ UNCHANGED <<fetching, siteVars>>

FollowFree ==   \* mutant: a followed redirect takes no turn
  /\ Asking
  /\ \E t \in Locations \ (seen \cup {url}), h \in HeaderSets :
       /\ Gets("redirect", h, "none", t.scheme = "https" /\ t \in Absolute)
       /\ url' = t /\ UNCHANGED <<left, seen, fetching, siteVars>>

\* A redirect to a URL not asked for yet, of either scheme and of any host.
Redirected ==
  /\ Asking
  /\ \E t \in Locations \ (seen \cup {url}), h \in HeaderSets :
       Follow(t) /\ Gets("redirect", h, "none", t.scheme = "https" /\ t \in Absolute)

\* A Location that is neither a path nor a URL in lower case, or that was asked
\* for before.
RedirectStops ==
  /\ Asking /\ Return
  /\ \E h \in HeaderSets, secure \in BOOLEAN : Gets("redirect", h, "none", secure)

OutOfTurns ==
  /\ fetching /\ left = 0 /\ fetching' = FALSE
  /\ UNCHANGED <<url, left, seen, result, siteVars, histVars>>

Step == Fails \/ Silence \/ Final \/ Redirected \/ RedirectStops \/ OutOfTurns

-----------------------------------------------------------------------------
(* scan_http, _scan_licences and scan_licences: what becomes of a fetch.   *)

Fetched(what) == at = what /\ ~fetching

Over == at' = "over" /\ UNCHANGED fetchVars

\* Component detection in the markup, then the first manifest.
Inventory(host) ==
  /\ html' = host
  /\ components' = {[name |-> n, by |-> "page"] : n \in IF host = "none" THEN {} ELSE Shows[host]}
  /\ FetchManifest(1)

\* The first page whose URL contains the host's name, if it is not empty.
ChooseMarkup(checked) ==
  IF \E r \in checked : r.body # "none" THEN \E r \in checked : Inventory(r.body)
  ELSE IF wwwBody THEN Inventory("www")
  ELSE Fetch("markup", "https", "/", MaxRedirects) /\ UNCHANGED <<html, components>>

TakePage ==
  /\ Fetched("page")
  /\ page' = {[reachable |-> result.reachable, headers |-> result.headers, body |-> result.body]}
  /\ Fetch("plain", "http", "/", 0)
  /\ UNCHANGED <<plain, html, wwwBody, manifests, components, histVars>>

TakePlain ==
  /\ Fetched("plain")
  /\ plain' = [open |-> result.reachable,
               redirects |-> result.reachable /\ result.status = "redirect" /\ result.secure]
  /\ ChooseMarkup(page)
  /\ UNCHANGED <<page, wwwBody, manifests, histVars>>

TakeMarkup ==
  /\ Fetched("markup")
  /\ IF result.reachable THEN Inventory(result.body) ELSE Over /\ UNCHANGED <<html, components>>
  /\ UNCHANGED <<page, plain, wwwBody, manifests, histVars>>

Names(hits) == {c.name : c \in hits}

\* The dependencies that are read: the first ones of each section.
Deps(m) == UNION {{s[i] : i \in {j \in DOMAIN s : j <= MaxDeps}} : s \in Manifests[m].sections}

AddAgain(m) ==   \* mutant: the name is not looked up first
  components \cup {[name |-> n, by |-> "declared"] : n \in Manifests[m].own}
             \cup {[name |-> n, by |-> "dependency"] : n \in Deps(m)}

\* The components of a manifest that are not known yet.  What is kept of a big
\* one is its first 8000 characters, which do not parse.
Add(m) ==
  LET known == Names(components)
  IN IF Manifests[m].big THEN components
     ELSE components
       \cup {[name |-> n, by |-> "declared"] : n \in Manifests[m].own \ known}
       \cup {[name |-> n, by |-> "dependency"] :
               n \in Deps(m) \ (known \cup Manifests[m].own)}

TakeManifest(k) ==
  LET exposed == {m \in DOMAIN Manifests : result.status = "200" /\ result.body = m}
  IN /\ Fetched(ManifestPaths[k])
     /\ manifests' = manifests \cup exposed
     /\ components' = components \cup UNION {Add(m) : m \in exposed}
     /\ IF k < 3 THEN FetchManifest(k + 1) ELSE Over
     /\ UNCHANGED <<page, plain, html, wwwBody, histVars>>

\* A body cut in the middle of its gzip stream, an unknown charset, a port
\* above 65535: fetch raises and the whole check is lost, the page with it.
HttpRaises ==
  /\ Asking /\ url.host # "?" /\ at \in {"page", "plain"}
  /\ page' = {} /\ ChooseMarkup({})
  /\ UNCHANGED <<plain, wwwBody, manifests, histVars>>

LicencesRaise ==
  /\ Asking /\ url.host # "?" /\ at \notin {"page", "plain"}
  /\ at' = "over" /\ fetching' = FALSE
  /\ manifests' = {} /\ components' = {} /\ html' = "none"
  /\ UNCHANGED <<url, left, seen, result, page, plain, wwwBody, histVars>>

Next ==
  \/ Step \/ TakePage \/ TakePlain \/ TakeMarkup
  \/ \E k \in 1 .. 3 : TakeManifest(k)
  \/ HttpRaises \/ LicencesRaise
  \/ at = "over" /\ UNCHANGED vars

Spec == Init /\ [][Next]_vars

(* A request has a timeout, so each ends one way or another.               *)
FairSpec == Spec /\ WF_vars(Next)

-----------------------------------------------------------------------------
(* http_findings and licence_findings.                                     *)

\* Of the strict transport header only the first fault is reported.
HeaderFindings(h) ==
  {f \in {<<"http.no-hsts", "high">>, <<"http.weak-hsts", "medium">>,
          <<"http.hsts-no-subdomains", "low">>, <<"http.no-csp", "medium">>,
          <<"http.missing-headers", "low">>, <<"http.version-disclosure", "low">>,
          <<"http.insecure-cookies", "medium">>} :
     \/ f[1] = "http.no-hsts" /\ h.hsts = "none"
     \/ f[1] = "http.weak-hsts" /\ h.hsts = "short"
     \/ f[1] = "http.hsts-no-subdomains" /\ h.hsts = "own"
     \/ f[1] = "http.no-csp" /\ ~h.csp
     \/ f[1] = "http.missing-headers" /\ ~h.minor
     \/ f[1] = "http.version-disclosure" /\ h.disclosure
     \/ f[1] = "http.insecure-cookies" /\ h.weakCookies}

HttpFindings ==
  UNION {IF ~r.reachable THEN {}
         ELSE HeaderFindings(r.headers)
              \cup (IF plain.open /\ ~plain.redirects
                    THEN {<<"http.no-https-redirect", "high">>} ELSE {}) : r \in page}

\* records(): only a manifest leaves a licence open.
CategoryOf(c) == IF c.by = "dependency" THEN "unknown" ELSE Category[c.name]

LicenceFindings ==
  {<<"licence.copyleft-obligation",
     IF CategoryOf(c) = "network-copyleft" THEN "critical" ELSE "high", c.name>> :
     c \in {d \in components : CategoryOf(d) \in {"strong-copyleft", "network-copyleft"}}}
  \cup {<<"licence.commercial-restriction", "high", c.name>> :
     c \in {d \in components : CategoryOf(d) = "restricted"}}
  \cup {f \in {<<"licence.end-of-life-component", "high", "site">>,
               <<"licence.undetermined", "medium", "site">>,
               <<"licence.exposed-manifest", "medium", "site">>} :
     \/ /\ f[1] = "licence.end-of-life-component"
        /\ \E c \in components : c.by = "page" /\ c.name \in Retired
     \/ /\ f[1] = "licence.undetermined"
        /\ Cardinality({c \in components : CategoryOf(c) = "unknown"}) >= 3
     \/ f[1] = "licence.exposed-manifest" /\ manifests # {}}

-----------------------------------------------------------------------------
(* Properties.                                                             *)

\* A site that sends its headers with every answer, redirects included, is
\* accused of no missing header, however its redirects, lost connections and
\* loops fall.  (What was sent is what _parse_response read: a connection that
\* stays silent counts as an answer without headers, and a header block that is
\* cut off by the timeout as an answer with fewer.)
HardenedSiteIsClean ==
  (\A h \in sent : HeaderFindings(h) = {}) =>
    HttpFindings \subseteq {<<"http.no-https-redirect", "high">>}

\* The licences are those of a page that was answered: the one the HTTP check
\* stored, if it has a body; if not, of the host whose name contains this one's;
\* and only if there is none, of what answers a second request for the page.
\* Never of what port 80 said, and never of a page that a raise lost on the way.
InventorySource ==
  html # "none" =>
    \/ /\ \E r \in page : r.body = html
       /\ <<"page", html>> \in bodies
    \/ /\ \A r \in page : r.body = "none"
       /\ IF wwwBody THEN html = "www" ELSE <<"markup", html>> \in bodies

\* The inventory is what the page shows and what every exposed manifest names,
\* each component once and with what the page says of it, but for manifests of
\* more than 8000 characters, which are exposed and add nothing, and for the
\* dependencies past the first MaxDeps of a section.  Three unknown licences are
\* thus of three components.
InventoryAccounted ==
  at = "over" =>
    LET read == {m \in manifests : ~Manifests[m].big}
    IN /\ Names(components) = (IF html = "none" THEN {} ELSE Shows[html])
                              \cup UNION {Manifests[m].own \cup Deps(m) : m \in read}
       /\ \A c, d \in components : c.name = d.name => c = d
       /\ \A c \in components : html # "none" /\ c.name \in Shows[html] => c.by = "page"
       /\ <<"licence.undetermined", "medium", "site">> \in LicenceFindings =>
            Cardinality({c.name : c \in {d \in components : CategoryOf(d) = "unknown"}}) >= 3

\* The site's checks end, wherever its redirects lead.
SiteEnds == <>(at = "over")
=============================================================================
