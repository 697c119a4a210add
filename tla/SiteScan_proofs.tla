-------------------------- MODULE SiteScan_proofs --------------------------
(***************************************************************************)
(* Proofs about SiteScan, for any hosts, headers, redirects, pages and     *)
(* manifests, provided a page and a manifest name finitely many            *)
(* components.                                                             *)
(*                                                                         *)
(* Three invariants, one for each property: the headers that are kept were *)
(* sent (Kept), the page whose markup is inventoried (Source), and what    *)
(* the inventory holds at any time (Stocked).  Budget counts the turns and *)
(* verdicts still ahead; every step lowers it.  What the rules report of the *)
(* site is a report in the sense of CryptoRules.                           *)
(***************************************************************************)
EXTENDS SiteScan, FiniteSetTheorems, TLAPS

USE HostsAssumption, LocationsAssumption

\* Where the markup to inventory is not chosen yet.
Before == {"page", "plain", "markup"}

ManifestPath == {"/package.json", "/composer.json", "/bower.json"}

LEMMA Paths3 == \A k \in 1 .. 3 : ManifestPaths[k] \in ManifestPath
<1>1. 1 .. 3 = {1, 2, 3}
  OBVIOUS
<1> QED
  BY <1>1 DEF ManifestPaths, ManifestPath

\* What a turn of fetch's loop does to the rest: nothing, and to its result: it
\* stays, or is that of an answer whose headers are on record and whose body
\* comes from the host that was asked.
LEMMA TurnEffect ==
  ASSUME url.host \in Hosts \cup {"?"}, Step
  PROVE  /\ UNCHANGED siteVars /\ url'.host \in Hosts \cup {"?"}
         /\ \/ UNCHANGED <<result, histVars>>
            \/ /\ result'.reachable = TRUE
               /\ sent' = IF at = "page" THEN sent \cup {result'.headers} ELSE sent
               /\ bodies \subseteq bodies'
               /\ at \in {"page", "markup"} /\ result'.body # "none" => <<at, result'.body>> \in bodies'
               /\ at \in Before => result'.body \in Hosts \cup {"none"}
<1> USE DEF Return, Gets, histVars
<1>1. CASE Fails \/ OutOfTurns
  BY <1>1 DEF Fails, OutOfTurns
<1>2. CASE Silence
  BY <1>2 DEF Silence
<1>3. CASE Final
  BY <1>3 DEF Final, Bodies, Before
<1>4. CASE Redirected
  <2>1. \A t \in Locations : t.host \in Hosts \cup {"?"}
    BY DEF Locations
  <2> QED
    BY <1>4, <2>1 DEF Redirected, Follow
<1>5. CASE RedirectStops
  BY <1>5 DEF RedirectStops
<1> QED
  BY <1>1, <1>2, <1>3, <1>4, <1>5 DEF Step

LEMMA FetchEffect ==
  ASSUME NEW what, NEW scheme, NEW path, NEW n, Fetch(what, scheme, path, n)
  PROVE  at' = what /\ url'.host = Own /\ result' = Nothing
BY DEF Fetch, To

-----------------------------------------------------------------------------
(* The headers that are kept were sent.                                    *)

Kept ==
  /\ at = "page" => (result.reachable => result.headers \in sent)
  /\ \A r \in page : r.reachable => r.headers \in sent

\* The page whose markup is taken.
Source ==
  /\ url.host \in Hosts \cup {"?"}
  /\ at \in Before => result.body \in Hosts \cup {"none"}
  /\ \A r \in page : r.body \in Hosts \cup {"none"}
  /\ at \in Before => html = "none" /\ manifests = {} /\ components = {}
  /\ at \in {"page", "markup"} /\ result.body # "none" => <<at, result.body>> \in bodies
  /\ \A r \in page : r.body # "none" => <<"page", r.body>> \in bodies
  /\ at = "markup" => ~wwwBody /\ \A r \in page : r.body = "none"
  /\ html \in Hosts \cup {"none"}
  /\ InventorySource

\* Inventory and ChooseMarkup, from a place before the markup.
LEMMA InventoryEffect ==
  ASSUME NEW host \in Hosts \cup {"none"}, Inventory(host)
  PROVE  /\ html' = host /\ at' \notin Before /\ url'.host = Own
         /\ components' =
              {[name |-> n, by |-> "page"] : n \in IF host = "none" THEN {} ELSE Shows[host]}
<1>1. ManifestPaths[1] = "/package.json"
  BY DEF ManifestPaths
<1>2. at' = "/package.json" /\ url'.host = Own
  BY <1>1, FetchEffect DEF Inventory, FetchManifest
<1> QED
  BY <1>2 DEF Inventory, Before

LEMMA ChoiceEffect ==
  ASSUME NEW checked, \A r \in checked : r.body \in Hosts \cup {"none"}, ChooseMarkup(checked)
  PROVE  /\ url'.host = Own
         /\ \/ \E host \in Hosts :
                 /\ html' = host /\ at' \notin Before
                 /\ components' = {[name |-> n, by |-> "page"] : n \in Shows[host]}
                 /\ \/ \E r \in checked : r.body = host
                    \/ (\A r \in checked : r.body = "none") /\ wwwBody /\ host = "www"
            \/ /\ ~wwwBody /\ \A r \in checked : r.body = "none"
               /\ at' = "markup" /\ result' = Nothing /\ UNCHANGED <<html, components>>
            \/ /\ html' = "none" /\ components' = {} /\ at' \notin Before
<1>1. CASE \E r \in checked : r.body # "none"
  <2> PICK r \in checked : Inventory(r.body)
    BY <1>1 DEF ChooseMarkup
  <2>1. CASE r.body = "none"
    <3>1. url'.host = Own /\ html' = "none" /\ components' = {} /\ at' \notin Before
      BY <2>1, InventoryEffect
    <3> QED
      BY <3>1
  <2>2. CASE r.body # "none"
    <3>1. r.body \in Hosts
      BY <2>2
    <3>2. /\ url'.host = Own /\ html' = r.body /\ at' \notin Before
          /\ components' = {[name |-> n, by |-> "page"] : n \in Shows[r.body]}
      BY <2>2, <3>1, InventoryEffect
    <3> QED
      BY <3>1, <3>2
  <2> QED
    BY <2>1, <2>2
<1>2. CASE (\A r \in checked : r.body = "none") /\ wwwBody
  <2>1. Inventory("www") /\ "www" \in Hosts /\ "www" # "none"
    BY <1>2 DEF ChooseMarkup
  <2>2. /\ url'.host = Own /\ html' = "www" /\ at' \notin Before
        /\ components' = {[name |-> n, by |-> "page"] : n \in Shows["www"]}
    BY <2>1, InventoryEffect
  <2> QED
    BY <1>2, <2>1, <2>2
<1>3. CASE (\A r \in checked : r.body = "none") /\ ~wwwBody
  <2>1. Fetch("markup", "https", "/", MaxRedirects) /\ UNCHANGED <<html, components>>
    BY <1>3 DEF ChooseMarkup
  <2>2. at' = "markup" /\ url'.host = Own /\ result' = Nothing
    BY <2>1, FetchEffect
  <2> QED
    BY <1>3, <2>1, <2>2
<1> QED
  BY <1>1, <1>2, <1>3

LEMMA ManifestEffect ==
  ASSUME url.host \in Hosts \cup {"?"}, NEW k \in 1 .. 3, TakeManifest(k)
  PROVE  /\ at \notin Before /\ at' \notin Before
         /\ url'.host \in Hosts \cup {"?"}
         /\ UNCHANGED <<page, plain, html, wwwBody, histVars>>
<1>1. at = ManifestPaths[k]
  BY DEF TakeManifest, Fetched
<1>2. at \notin Before
  BY <1>1, Paths3 DEF Before, ManifestPath
<1>3. CASE k < 3
  <2>1. FetchManifest(k + 1) /\ k + 1 \in 1 .. 3
    BY <1>3 DEF TakeManifest
  <2>2. at' = ManifestPaths[k + 1] /\ url'.host = Own
    BY <2>1, FetchEffect DEF FetchManifest
  <2>3. at' \notin Before
    BY <2>1, <2>2, Paths3 DEF Before, ManifestPath
  <2> QED
    BY <1>2, <2>2, <2>3 DEF TakeManifest
<1>4. CASE ~(k < 3)
  BY <1>2, <1>4 DEF TakeManifest, Over, fetchVars, Before
<1> QED
  BY <1>3, <1>4

LEMMA PlainEffect ==
  ASSUME Source, TakePlain
  PROVE  /\ at = "plain" /\ UNCHANGED <<page, wwwBody, manifests, histVars>> /\ ChooseMarkup(page)
         /\ \A r \in page : r.body \in Hosts \cup {"none"}
BY DEF Source, TakePlain, Fetched

LEMMA RaiseEffect ==
  ASSUME Source, HttpRaises
  PROVE  /\ at \in {"page", "plain"} /\ page' = {} /\ ChooseMarkup({})
         /\ UNCHANGED <<wwwBody, manifests, histVars>>
BY DEF HttpRaises

LEMMA KeptStep == Source /\ Kept /\ [Next]_vars => Kept'
<1> SUFFICES ASSUME Source, Kept, [Next]_vars PROVE Kept'
  OBVIOUS
<1>0. url.host \in Hosts \cup {"?"}
  BY DEF Source
<1>1. CASE Step
  BY <1>0, <1>1, TurnEffect DEF Kept, siteVars, histVars
<1>2. CASE TakePage
  <2>1. /\ at = "page" /\ UNCHANGED sent
        /\ page' = {[reachable |-> result.reachable, headers |-> result.headers,
                     body |-> result.body]}
        /\ at' = "plain"
    BY <1>2, FetchEffect DEF TakePage, Fetched, histVars
  <2> QED
    BY <2>1 DEF Kept
<1>3. CASE TakePlain
  <2>1. at' # "page"
    BY <1>3, PlainEffect, ChoiceEffect DEF Before
  <2> QED
    BY <1>3, <2>1, PlainEffect DEF Kept, histVars
<1>4. CASE HttpRaises
  <2>1. at' # "page"
    BY <1>4, RaiseEffect, ChoiceEffect DEF Before
  <2> QED
    BY <1>4, <2>1, RaiseEffect DEF Kept, histVars
<1>5. CASE TakeMarkup
  <2>1. UNCHANGED <<page, sent>> /\ result.body \in Hosts \cup {"none"}
    BY <1>5 DEF TakeMarkup, Fetched, Source, Before, histVars
  <2>2. at' # "page"
    BY <1>5, <2>1, InventoryEffect DEF TakeMarkup, Over, Before
  <2> QED
    BY <2>1, <2>2 DEF Kept
<1>6. CASE \E k \in 1 .. 3 : TakeManifest(k)
  <2>1. at' # "page" /\ UNCHANGED <<page, sent>>
    BY <1>0, <1>6, ManifestEffect DEF Before, histVars
  <2> QED
    BY <2>1 DEF Kept
<1>7. CASE LicencesRaise
  BY <1>7 DEF LicencesRaise, Kept, histVars
<1>8. CASE UNCHANGED vars
  BY <1>8 DEF vars, fetchVars, histVars, Kept
<1> QED
  BY <1>1, <1>2, <1>3, <1>4, <1>5, <1>6, <1>7, <1>8 DEF Next

LEMMA SourceStep == Source /\ [Next]_vars => Source'
<1> SUFFICES ASSUME Source, [Next]_vars PROVE Source'
  OBVIOUS
<1>0. url.host \in Hosts \cup {"?"} /\ "none" \notin Hosts /\ Nothing.body = "none"
  BY DEF Source, Nothing
<1>1. CASE Step
  <2>1. /\ UNCHANGED siteVars /\ bodies \subseteq bodies' /\ url'.host \in Hosts \cup {"?"}
        /\ at \in Before => result'.body \in Hosts \cup {"none"}
        /\ at \in {"page", "markup"} /\ result'.body # "none" => <<at, result'.body>> \in bodies'
    BY <1>0, <1>1, TurnEffect DEF Source, histVars
  <2>2. InventorySource'
    BY <2>1 DEF Source, InventorySource, siteVars
  <2> QED
    BY <2>1, <2>2 DEF Source, siteVars
<1>2. CASE TakePage
  <2>1. /\ at = "page" /\ at' = "plain" /\ url'.host = Own /\ result' = Nothing
        /\ page' = {[reachable |-> result.reachable, headers |-> result.headers,
                     body |-> result.body]}
        /\ UNCHANGED <<html, wwwBody, bodies, manifests, components>>
    BY <1>2, FetchEffect DEF TakePage, Fetched, histVars
  <2> QED
    <3>1. result.body \in Hosts \cup {"none"} /\ html' = "none" /\ manifests' = {}
          /\ components' = {}
      BY <2>1 DEF Source, Before
    <3>2. \A r \in page' : /\ r.body \in Hosts \cup {"none"}
                            /\ r.body # "none" => <<"page", r.body>> \in bodies'
      BY <2>1, <3>1 DEF Source
    <3>3. at' # "markup" /\ result'.body = "none" /\ url'.host \in Hosts \cup {"?"}
      BY <1>0, <2>1
    <3> QED
      BY <2>1, <3>1, <3>2, <3>3 DEF Source, InventorySource
<1>3. ASSUME NEW checked, ChooseMarkup(checked), page' = checked, at \in Before,
             UNCHANGED <<wwwBody, manifests, bodies>>,
             \A r \in checked : /\ r.body \in Hosts \cup {"none"}
                                /\ r.body # "none" => <<"page", r.body>> \in bodies
      PROVE  Source'
  <2>1. html = "none" /\ manifests = {} /\ components = {}
    BY <1>3 DEF Source
  <2>2. url'.host \in Hosts \cup {"?"} /\ manifests' = {}
    BY <1>3, <2>1, ChoiceEffect
  <2>3. CASE /\ html' \in Hosts \cup {"none"} /\ at' \notin Before
             /\ html' # "none" =>
                  \/ \E r \in checked : r.body = html'
                  \/ (\A r \in checked : r.body = "none") /\ wwwBody /\ html' = "www"
    BY <1>3, <2>2, <2>3 DEF Source, InventorySource, Before
  <2>4. CASE /\ ~wwwBody /\ \A r \in checked : r.body = "none"
             /\ at' = "markup" /\ result' = Nothing /\ UNCHANGED <<html, components>>
    BY <1>0, <1>3, <2>1, <2>2, <2>4 DEF Source, InventorySource
  <2> QED
    BY <1>0, <1>3, <2>3, <2>4, ChoiceEffect
<1>4. CASE TakePlain
  <2>1. \A r \in page : r.body # "none" => <<"page", r.body>> \in bodies
    BY DEF Source
  <2> QED
    BY <1>3, <1>4, <2>1, PlainEffect DEF Before, histVars
<1>5. CASE HttpRaises
  BY <1>3, <1>5, RaiseEffect DEF Before, histVars
<1>6. CASE TakeMarkup
  <2>1. /\ at = "markup" /\ UNCHANGED <<page, wwwBody, manifests, bodies>>
        /\ result.body \in Hosts \cup {"none"}
        /\ ~wwwBody /\ \A r \in page : r.body = "none"
        /\ result.body # "none" => <<"markup", result.body>> \in bodies
        /\ html = "none"
    BY <1>6 DEF TakeMarkup, Fetched, Source, Before, histVars
  <2>2. CASE result.reachable
    <3>1. html' = result.body /\ at' \notin Before /\ url'.host = Own
      BY <1>6, <2>1, <2>2, InventoryEffect DEF TakeMarkup
    <3> QED
      BY <2>1, <3>1 DEF Source, InventorySource, Before
  <2>3. CASE ~result.reachable
    BY <1>0, <1>6, <2>1, <2>3 DEF TakeMarkup, Over, fetchVars, Source, InventorySource, Before
  <2> QED
    BY <2>2, <2>3
<1>7. CASE \E k \in 1 .. 3 : TakeManifest(k)
  <2>1. /\ at' \notin Before /\ url'.host \in Hosts \cup {"?"}
        /\ UNCHANGED <<page, html, wwwBody, bodies>>
    BY <1>0, <1>7, ManifestEffect DEF histVars
  <2> QED
    BY <2>1 DEF Source, InventorySource, Before
<1>8. CASE LicencesRaise
  BY <1>8 DEF LicencesRaise, Source, InventorySource, Before, histVars
<1>9. CASE UNCHANGED vars
  BY <1>9 DEF vars, fetchVars, histVars, Source, InventorySource, Before
<1> QED
  BY <1>1, <1>2, <1>4, <1>5, <1>6, <1>7, <1>8, <1>9 DEF Next

LEMMA SourceInit == Init => Source /\ Kept
BY DEF Init, Source, Kept, InventorySource, Before, Nothing, To

\* The inductive invariant of the page and the markup.
THEOREM SourceInvariant == Spec => []Source
BY SourceInit, SourceStep, PTL DEF Spec

\* The licences are those of a page that was answered: the stored one, another
\* host's only if that one has no body, a second answer only if there is neither.
THEOREM InventoryOwnPage == Spec => []InventorySource
<1>1. Source => InventorySource
  BY DEF Source
<1> QED
  BY <1>1, SourceInvariant, PTL

\* A site that sends its headers with every answer is accused of missing none.
THEOREM HardenedClean == Spec => []HardenedSiteIsClean
<1>1. Kept => HardenedSiteIsClean
  BY DEF Kept, HardenedSiteIsClean, HttpFindings
<1> QED
  BY <1>1, SourceInit, SourceInvariant, KeptStep, PTL DEF Spec

-----------------------------------------------------------------------------
(* What the inventory holds.                                               *)

Read == {m \in manifests : ~Manifests[m].big}
Named == UNION {Manifests[m].own \cup Deps(m) : m \in Read}
Shown == IF html = "none" THEN {} ELSE Shows[html]

\* The inventory at any time; it is finite, since names are.
Stocked ==
  /\ manifests \subseteq DOMAIN Manifests
  /\ IsFiniteSet(components)
  /\ Names(components) = Shown \cup Named
  /\ \A c, d \in components : c.name = d.name => c = d
  /\ \A c \in components : html # "none" /\ c.name \in Shown => c.by = "page"

\* As many components as names, and finitely many.
LEMMA FiniteComponents ==
  ASSUME NEW S, IsFiniteSet(S), NEW by
  PROVE  IsFiniteSet({[name |-> n, by |-> by] : n \in S})
<1> DEFINE T == {[name |-> n, by |-> by] : n \in S}
           f == [n \in S |-> [name |-> n, by |-> by]]
<1>1. f \in Surjection(S, T)
  BY DEF Surjection
<1> QED
  BY <1>1, FS_Surjection

LEMMA NamesOf == ASSUME NEW S, NEW by PROVE Names({[name |-> n, by |-> by] : n \in S}) = S
<1>1. ASSUME NEW n \in S PROVE n \in Names({[name |-> k, by |-> by] : k \in S})
  <2> DEFINE c == [name |-> n, by |-> by]
  <2>1. c \in {[name |-> k, by |-> by] : k \in S} /\ c.name = n
    OBVIOUS
  <2> HIDE DEF c
  <2> QED
    BY <2>1 DEF Names
<1> QED
  BY <1>1 DEF Names

\* What Inventory puts into an empty inventory.
LEMMA ShownIsStocked ==
  ASSUME html' \in Hosts \cup {"none"}, manifests' = {},
         components' = {[name |-> n, by |-> "page"] : n \in Shown'}
  PROVE  Stocked'
<1>1. IsFiniteSet(Shown')
  BY ShowsAssumption, FS_EmptySet DEF Shown
<1>2. IsFiniteSet(components')
  BY <1>1, FiniteComponents
<1>3. Names(components)' = Shown'
  <2>1. Names(components)' = {c.name : c \in components'}
    BY DEF Names
  <2>2. Names({[name |-> n, by |-> "page"] : n \in Shown'}) = Shown'
    BY NamesOf
  <2> QED
    BY <2>1, <2>2 DEF Names
<1>4. Named' = {}
  BY DEF Read, Named
<1> QED
  BY <1>2, <1>3, <1>4 DEF Stocked

\* A manifest names finitely many dependencies.
LEMMA FiniteDeps == \A m \in DOMAIN Manifests : IsFiniteSet(Deps(m))
<1> TAKE m \in DOMAIN Manifests
<1> DEFINE read(s) == {j \in DOMAIN s : j <= MaxDeps}
           first(s) == {s[i] : i \in read(s)}
           all == {first(s) : s \in Manifests[m].sections}
<1>1. ASSUME NEW s \in Manifests[m].sections PROVE IsFiniteSet(first(s))
  <2>1. IsFiniteSet(read(s))
    BY ManifestsAssumption, FS_Subset
  <2>2. [i \in read(s) |-> s[i]] \in Surjection(read(s), first(s))
    BY DEF Surjection
  <2> HIDE DEF read, first
  <2> QED
    BY <2>1, <2>2, FS_Surjection
<1>3. Deps(m) = UNION all
  BY DEF Deps
<1> HIDE DEF first
<1>2. [s \in Manifests[m].sections |-> first(s)] \in Surjection(Manifests[m].sections, all)
  BY DEF Surjection
<1> HIDE DEF all
<1>4. IsFiniteSet(all)
  BY <1>2, ManifestsAssumption, FS_Surjection
<1>5. \A T \in all : IsFiniteSet(T)
  BY <1>1 DEF all
<1> QED
  BY <1>3, <1>4, <1>5, FS_UNION

\* Adding a manifest brings in its names, and nothing twice.
LEMMA AddKeeps ==
  ASSUME Stocked, NEW m \in DOMAIN Manifests, UNCHANGED html,
         manifests' = manifests \cup {m}, components' = components \cup Add(m)
  PROVE  Stocked'
<1> DEFINE known == Names(components)
           fresh == Manifests[m].own \ known
           extra == Deps(m) \ (known \cup Manifests[m].own)
           declared == {[name |-> n, by |-> "declared"] : n \in fresh}
           needed   == {[name |-> n, by |-> "dependency"] : n \in extra}
<1>0. Shown' = Shown /\ Shown \subseteq known
  BY DEF Shown, Stocked
<1>1. CASE Manifests[m].big
  <2>1. components' = components /\ Named' = Named
    BY <1>1 DEF Add, Read, Named
  <2> QED
    BY <1>0, <2>1 DEF Stocked
<1>2. CASE ~Manifests[m].big
  <2>1. components' = components \cup declared \cup needed /\ Read' = Read \cup {m}
    BY <1>2 DEF Add, Read
  <2>2. IsFiniteSet(fresh) /\ IsFiniteSet(extra)
    BY ManifestsAssumption, FiniteDeps, FS_Difference
  <2>3. IsFiniteSet(components')
    <3>1. IsFiniteSet(declared) /\ IsFiniteSet(needed)
      BY <2>2, FiniteComponents
    <3>2. IsFiniteSet(components \cup declared)
      BY <3>1, FS_Union DEF Stocked
    <3>3. IsFiniteSet(components \cup declared \cup needed)
      BY <3>1, <3>2, FS_Union
    <3> QED
      BY <2>1, <3>3
  <2>4. Names(declared) = fresh /\ Names(needed) = extra
    BY NamesOf
  <2>5. Names(components') = known \cup fresh \cup extra
    BY <2>1, <2>4 DEF Names
  <2>6. Names(components') = known \cup Manifests[m].own \cup Deps(m)
    BY <2>5
  <2>7. Named' = Named \cup Manifests[m].own \cup Deps(m)
    BY <2>1 DEF Named
  <2>8. \A c \in components : c.name \in known
    BY DEF Names
  <2>9. /\ \A c \in declared : c.name \in fresh /\ c = [name |-> c.name, by |-> "declared"]
        /\ \A c \in needed : c.name \in extra /\ c = [name |-> c.name, by |-> "dependency"]
    OBVIOUS
  <2> HIDE DEF known, fresh, extra, declared, needed
  <2>10. fresh \cap known = {} /\ extra \cap (known \cup fresh) = {}
    BY DEF fresh, extra
  <2>11. \A c, d \in components' : c.name = d.name => c = d
    BY <2>1, <2>8, <2>9, <2>10 DEF Stocked
  <2>12. \A c \in components' : html' # "none" /\ c.name \in Shown' => c.by = "page"
    BY <1>0, <2>1, <2>9, <2>10 DEF Stocked
  <2> QED
    BY <1>0, <2>3, <2>6, <2>7, <2>11, <2>12 DEF Stocked, known, Read
<1> QED
  BY <1>1, <1>2

LEMMA StockedStep == Source /\ Stocked /\ [Next]_vars => Stocked'
<1> SUFFICES ASSUME Source, Stocked, [Next]_vars PROVE Stocked'
  OBVIOUS
<1> USE DEF Stocked, Read, Named, Shown
<1>0. url.host \in Hosts \cup {"?"} /\ "none" \notin Hosts
  BY DEF Source
<1>1. CASE Step
  BY <1>0, <1>1, TurnEffect DEF siteVars
<1>2. CASE TakePage \/ UNCHANGED vars
  BY <1>2 DEF TakePage, vars
<1>3. ASSUME NEW checked, ChooseMarkup(checked), at \in Before, manifests' = manifests,
             \A r \in checked : r.body \in Hosts \cup {"none"}
      PROVE  Stocked'
  <2>1. html = "none" /\ manifests' = {} /\ components = {}
    BY <1>3 DEF Source
  <2>2. /\ html' \in Hosts \cup {"none"}
        /\ components' = {[name |-> n, by |-> "page"] : n \in Shown'}
    BY <1>0, <1>3, <2>1, ChoiceEffect
  <2> QED
    BY <2>1, <2>2, ShownIsStocked
<1>4. CASE TakePlain
  BY <1>3, <1>4, PlainEffect DEF Before
<1>5. CASE HttpRaises
  BY <1>3, <1>5, RaiseEffect DEF Before
<1>6. CASE TakeMarkup
  <2>1. /\ html = "none" /\ components = {} /\ manifests' = {}
        /\ result.body \in Hosts \cup {"none"}
    BY <1>6 DEF TakeMarkup, Fetched, Source, Before
  <2>2. /\ html' \in Hosts \cup {"none"}
        /\ components' = {[name |-> n, by |-> "page"] : n \in Shown'}
    BY <1>0, <1>6, <2>1, InventoryEffect DEF TakeMarkup
  <2> QED
    BY <2>1, <2>2, ShownIsStocked
<1>7. CASE \E k \in 1 .. 3 : TakeManifest(k)
  <2> PICK k \in 1 .. 3 : TakeManifest(k)
    BY <1>7
  <2> DEFINE exposed == {m \in DOMAIN Manifests : result.status = "200" /\ result.body = m}
  <2>1. /\ UNCHANGED html /\ manifests' = manifests \cup exposed
        /\ components' = components \cup UNION {Add(m) : m \in exposed}
    BY DEF TakeManifest
  <2>2. CASE exposed = {}
    <3>1. manifests' = manifests /\ components' = components
      BY <2>1, <2>2
    <3> QED
      BY <2>1, <3>1
  <2>3. CASE exposed # {}
    <3>1. PICK m \in DOMAIN Manifests : exposed = {m}
      BY <2>3
    <3>2. manifests' = manifests \cup {m} /\ components' = components \cup Add(m)
      BY <2>1, <3>1
    <3> QED
      BY <2>1, <3>2, AddKeeps
  <2> QED
    BY <2>2, <2>3
<1>8. CASE LicencesRaise
  <2>1. manifests' = {} /\ components' = {} /\ html' = "none"
    BY <1>8 DEF LicencesRaise
  <2> QED
    BY <2>1, ShownIsStocked
<1> QED
  BY <1>1, <1>2, <1>4, <1>5, <1>6, <1>7, <1>8 DEF Next

LEMMA StockedInit == Init => Stocked
BY FS_EmptySet DEF Init, Stocked, Names, Read, Named, Shown

\* Different components have different names, so they are as many.
LEMMA AsManyNames ==
  ASSUME Stocked, NEW U \in SUBSET components
  PROVE  Cardinality({c.name : c \in U}) = Cardinality(U)
<1> DEFINE f == [c \in U |-> c.name]
<1>1. IsFiniteSet(U)
  BY FS_Subset DEF Stocked
<1>2. f \in Surjection(U, {c.name : c \in U})
  BY DEF Surjection
<1>3. f \in Injection(U, {c.name : c \in U})
  BY DEF Injection, IsInjective, Stocked
<1> QED
  BY <1>1, <1>2, <1>3, FS_Surjection

\* The inventory is what the page shows and the manifests name, each once.
THEOREM InventoryComplete == Spec => []InventoryAccounted
<1>1. Stocked => InventoryAccounted
  <2> SUFFICES ASSUME Stocked PROVE InventoryAccounted
    OBVIOUS
  <2> DEFINE U == {d \in components : CategoryOf(d) = "unknown"}
  <2>1. <<"licence.undetermined", "medium", "site">> \in LicenceFindings => Cardinality(U) >= 3
    BY DEF LicenceFindings
  <2>2. Cardinality({c.name : c \in U}) = Cardinality(U)
    BY AsManyNames
  <2> QED
    BY <2>1, <2>2 DEF InventoryAccounted, Stocked, Shown, Named, Read
<1> QED
  BY <1>1, StockedInit, SourceInvariant, StockedStep, PTL DEF Spec

-----------------------------------------------------------------------------
(* The checks of a site cannot go on for ever.                             *)

\* The steps that are left, at most, once what is being fetched now is taken.
Ahead ==
  CASE at = "page"           -> MaxRedirects + 18
    [] at = "plain"          -> MaxRedirects + 15
    [] at = "markup"         -> 12
    [] at = "/package.json"  -> 8
    [] at = "/composer.json" -> 4
    [] OTHER                 -> 0

\* Taking it is one step; the loop that fetches it has its turns and one to end.
Budget ==
  IF at = "over" THEN 0 ELSE Ahead + (IF fetching THEN left + 2 ELSE 1)

Turns ==
  /\ at \in {"page", "plain", "markup", "over"} \cup ManifestPath
  /\ fetching \in BOOLEAN /\ left \in Nat
  /\ at = "over" => ~fetching

LEMMA AheadTypes == Turns => Ahead \in Nat /\ Budget \in Nat
<1> SUFFICES ASSUME Turns PROVE Ahead \in Nat /\ Budget \in Nat
  OBVIOUS
<1>1. Ahead \in Nat
  BY LimitAssumption DEF Ahead
<1> QED
  BY <1>1 DEF Budget, Turns

\* What is paid for a fetch: its turns, the end of its loop and what comes of it.
LEMMA FetchCost ==
  ASSUME NEW what \in Before \cup ManifestPath, NEW scheme, NEW path, NEW n \in Nat,
         Fetch(what, scheme, path, n)
  PROVE  Turns' /\ Budget' = Ahead' + n + 3
<1>1. at' = what /\ fetching' = TRUE /\ left' = n + 1
  BY DEF Fetch
<1>2. what # "over" /\ Turns'
  BY <1>1 DEF Turns, Before, ManifestPath
<1>3. Ahead' \in Nat
  BY LimitAssumption, <1>1 DEF Ahead
<1> QED
  BY <1>1, <1>2, <1>3 DEF Budget

LEMMA InventoryCost ==
  ASSUME NEW host, Inventory(host)
  PROVE  Turns' /\ Budget' = 12
<1>1. Fetch("/package.json", "https", "/package.json", 1)
  BY DEF Inventory, FetchManifest, ManifestPaths
<1>2. at' = "/package.json" /\ "/package.json" \in ManifestPath
  BY <1>1 DEF Fetch, ManifestPath
<1>3. Ahead' = 8
  BY <1>2 DEF Ahead
<1>4. Turns' /\ Budget' = Ahead' + 1 + 3
  BY <1>1, <1>2, FetchCost
<1> QED
  BY <1>3, <1>4

LEMMA ChoiceCost ==
  ASSUME NEW checked, ChooseMarkup(checked)
  PROVE  Turns' /\ Budget' \in Nat /\ Budget' <= MaxRedirects + 15
<1>1. CASE \E host : Inventory(host)
  BY <1>1, InventoryCost, LimitAssumption
<1>2. CASE Fetch("markup", "https", "/", MaxRedirects)
  <2>1. at' = "markup" /\ "markup" \in Before
    BY <1>2 DEF Fetch, Before
  <2>2. Ahead' = 12
    BY <2>1 DEF Ahead
  <2>3. Turns' /\ Budget' = Ahead' + MaxRedirects + 3
    BY <1>2, <2>1, FetchCost, LimitAssumption
  <2> QED
    BY <2>2, <2>3, LimitAssumption
<1> QED
  BY <1>1, <1>2 DEF ChooseMarkup

\* A turn of the loop is paid for.
LEMMA TurnCost ==
  ASSUME Turns, Step
  PROVE  Turns' /\ Budget' < Budget
<1>1. fetching /\ at # "over" /\ left \in Nat /\ at' = at /\ fetching' \in BOOLEAN
      /\ Ahead \in Nat
  <2>1. fetching /\ at' = at /\ fetching' \in BOOLEAN
    BY DEF Step, Fails, Silence, Final, Redirected, RedirectStops, OutOfTurns, Asking, Return,
           Follow, siteVars, Turns
  <2> QED
    BY <2>1, AheadTypes DEF Turns
<1>2. Ahead' = Ahead
  BY <1>1 DEF Ahead
<1>3. \/ fetching' = FALSE /\ left' \in Nat
      \/ fetching' = TRUE /\ left > 0 /\ left' = left - 1
  <2>1. CASE OutOfTurns
    BY <1>1, <2>1 DEF OutOfTurns
  <2>2. CASE Redirected
    <3>1. fetching = TRUE /\ fetching' = fetching /\ left > 0 /\ left' = left - 1
      BY <1>1, <2>2 DEF Redirected, Asking, Follow, Turns
    <3> QED
      BY <3>1
  <2>3. CASE Fails \/ Silence \/ Final \/ RedirectStops
    <3>1. Asking /\ Return
      BY <2>3 DEF Fails, Silence, Final, RedirectStops
    <3>2. fetching' = FALSE /\ left > 0 /\ left' = left - 1
      BY <3>1 DEF Asking, Return
    <3> QED
      BY <1>1, <3>2
  <2> QED
    BY <2>1, <2>2, <2>3 DEF Step
<1>4. Turns'
  BY <1>1, <1>3 DEF Turns
<1>5. Budget = Ahead + left + 2
  BY <1>1 DEF Budget
<1>6. Budget' = Ahead + (IF fetching' THEN left' + 2 ELSE 1)
  BY <1>1, <1>2 DEF Budget
<1> QED
  BY <1>1, <1>3, <1>4, <1>5, <1>6

\* So is everything that becomes of a fetch.
LEMMA BudgetStep == Turns /\ [Next]_vars => Turns' /\ (Budget' < Budget \/ UNCHANGED vars)
<1> SUFFICES ASSUME Turns, Next
             PROVE  Turns' /\ (Budget' < Budget \/ UNCHANGED vars)
  <2>1. Turns /\ UNCHANGED vars => Turns'
    BY DEF Turns, vars, fetchVars
  <2> QED
    BY <2>1
<1>0. MaxRedirects \in Nat
  BY LimitAssumption
<1>1. CASE Step
  BY <1>1, TurnCost
<1>2. CASE TakePage
  <2>1. at = "page" /\ ~fetching /\ Fetch("plain", "http", "/", 0)
    BY <1>2 DEF TakePage, Fetched
  <2>2. at' = "plain" /\ "plain" \in Before
    BY <2>1 DEF Fetch, Before
  <2>3. Ahead = MaxRedirects + 18 /\ Ahead' = MaxRedirects + 15
    BY <2>1, <2>2 DEF Ahead
  <2>4. Turns' /\ Budget' = Ahead' + 0 + 3
    BY <2>1, <2>2, FetchCost
  <2>5. Budget = Ahead + 1
    BY <2>1 DEF Budget
  <2> QED
    BY <1>0, <2>3, <2>4, <2>5
<1>3. CASE TakePlain
  <2>1. at = "plain" /\ ~fetching /\ ChooseMarkup(page)
    BY <1>3 DEF TakePlain, Fetched
  <2>2. Budget = MaxRedirects + 16
    BY <1>0, <2>1 DEF Budget, Ahead
  <2> QED
    BY <1>0, <2>1, <2>2, ChoiceCost
<1>4. CASE TakeMarkup
  <2>1. at = "markup" /\ ~fetching
    BY <1>4 DEF TakeMarkup, Fetched
  <2>2. Budget = 13
    BY <2>1 DEF Budget, Ahead
  <2>3. CASE Inventory(result.body)
    BY <2>2, <2>3, InventoryCost
  <2>4. CASE Over
    <3>1. at' = "over" /\ fetching' = fetching /\ left' = left
      BY <2>4 DEF Over, fetchVars
    <3> QED
      BY <2>1, <2>2, <3>1 DEF Budget, Turns
  <2> QED
    BY <1>4, <2>3, <2>4 DEF TakeMarkup
<1>5. ASSUME NEW k \in 1 .. 3, TakeManifest(k) PROVE Turns' /\ Budget' < Budget
  <2>1. at = ManifestPaths[k] /\ ~fetching /\ IF k < 3 THEN FetchManifest(k + 1) ELSE Over
    BY <1>5 DEF TakeManifest, Fetched
  <2>2. /\ ManifestPaths[1] = "/package.json" /\ ManifestPaths[2] = "/composer.json"
        /\ ManifestPaths[3] = "/bower.json"
    BY DEF ManifestPaths
  <2>3. CASE k = 3
    <3>1. at = "/bower.json" /\ at' = "over" /\ fetching' = fetching /\ left' = left
      BY <2>1, <2>2, <2>3 DEF Over, fetchVars
    <3>2. Budget = 1 /\ Budget' = 0
      BY <2>1, <3>1 DEF Budget, Ahead
    <3> QED
      BY <2>1, <3>1, <3>2 DEF Turns
  <2>4. CASE k = 1
    <3>1. at = "/package.json" /\ Fetch("/composer.json", "https", "/composer.json", 1)
      BY <2>1, <2>2, <2>4 DEF FetchManifest
    <3>2. at' = "/composer.json" /\ "/composer.json" \in ManifestPath
      BY <3>1 DEF Fetch, ManifestPath
    <3>3. Turns' /\ Budget' = Ahead' + 1 + 3
      BY <3>1, <3>2, FetchCost
    <3>4. Budget = 9 /\ Ahead' = 4
      BY <2>1, <3>1, <3>2 DEF Budget, Ahead
    <3> QED
      BY <3>3, <3>4
  <2>5. CASE k = 2
    <3>1. at = "/composer.json" /\ Fetch("/bower.json", "https", "/bower.json", 1)
      BY <2>1, <2>2, <2>5 DEF FetchManifest
    <3>2. at' = "/bower.json" /\ "/bower.json" \in ManifestPath
      BY <3>1 DEF Fetch, ManifestPath
    <3>3. Turns' /\ Budget' = Ahead' + 1 + 3
      BY <3>1, <3>2, FetchCost
    <3>4. Budget = 5 /\ Ahead' = 0
      BY <2>1, <3>1, <3>2 DEF Budget, Ahead
    <3> QED
      BY <3>3, <3>4
  <2> QED
    BY <2>3, <2>4, <2>5
<1>6. CASE HttpRaises
  <2>1. at \in {"page", "plain"} /\ fetching /\ left \in Nat /\ ChooseMarkup({})
    BY <1>6 DEF HttpRaises, Asking, Turns
  <2>2. Budget >= MaxRedirects + 17 /\ Budget \in Nat
    <3>1. Ahead \in Nat /\ Ahead >= MaxRedirects + 15
      BY <1>0, <2>1 DEF Ahead
    <3> QED
      BY <1>0, <2>1, <3>1 DEF Budget
  <2> QED
    BY <1>0, <2>1, <2>2, ChoiceCost
<1>7. CASE LicencesRaise
  <2>1. fetching /\ at' = "over" /\ fetching' = FALSE /\ left' = left
    BY <1>7 DEF LicencesRaise, Asking
  <2>2. at # "over" /\ left \in Nat /\ Ahead \in Nat /\ Turns'
    BY <2>1, AheadTypes DEF Turns
  <2>3. Budget' = 0 /\ Budget = Ahead + left + 2
    BY <2>1, <2>2 DEF Budget
  <2> QED
    BY <2>2, <2>3
<1>8. CASE at = "over" /\ UNCHANGED vars
  BY <1>8 DEF Turns, vars, fetchVars
<1> QED
  BY <1>1, <1>2, <1>3, <1>4, <1>5, <1>6, <1>7, <1>8 DEF Next

\* Whatever Locations the servers send, the checks of a site are over after
\* 2 * MaxRedirects + 21 steps, requests and what becomes of them together:
\* every step takes from a budget that starts there.  This is SiteEnds without
\* the scheduling it needs.
THEOREM SiteChecksBounded ==
  Spec => [](Budget \in 0 .. 2 * MaxRedirects + 21) /\ [][Budget' < Budget]_vars
<1> DEFINE Within == Turns /\ Budget <= 2 * MaxRedirects + 21
<1>1. Init => Within
  <2> SUFFICES ASSUME Init PROVE Within
    OBVIOUS
  <2>1. at = "page" /\ fetching = TRUE /\ left = MaxRedirects + 1 /\ MaxRedirects \in Nat
    BY LimitAssumption DEF Init
  <2>2. Turns
    BY <2>1 DEF Turns
  <2>3. Budget = 2 * MaxRedirects + 21
    BY <2>1 DEF Budget, Ahead
  <2> QED
    BY <2>1, <2>2, <2>3
<1>2. Within /\ [Next]_vars => Within' /\ [Budget' < Budget]_vars
  <2> SUFFICES ASSUME Within, [Next]_vars PROVE Within' /\ [Budget' < Budget]_vars
    OBVIOUS
  <2>1. Turns' /\ (Budget' < Budget \/ UNCHANGED vars) /\ Budget \in Nat
    BY BudgetStep, AheadTypes
  <2>2. CASE UNCHANGED vars
    <3>1. Budget' = Budget
      BY <2>2 DEF vars, fetchVars, Budget, Ahead
    <3> QED
      BY <2>1, <2>2, <3>1
  <2>3. CASE Budget' < Budget
    <3>1. Budget' \in Nat
      <4>1. Turns' => (Budget \in Nat)'
        BY AheadTypes, PTL
      <4> QED
        BY <2>1, <4>1
    <3> QED
      BY <2>1, <2>3, <3>1, LimitAssumption
  <2> QED
    BY <2>1, <2>2, <2>3
<1>3. Within => Budget \in 0 .. 2 * MaxRedirects + 21
  BY AheadTypes, LimitAssumption
<1> QED
  BY <1>1, <1>2, <1>3, PTL DEF Spec
-----------------------------------------------------------------------------
(* What a site's checks hand to the analysis is what Assessment takes.     *)

Rules == INSTANCE CryptoRules WITH Suites <- << >>, ClassicalCodes <- {}

\* The findings with the target the rules give them; which one does not matter.
Report(fs, target) == {[id |-> f[1], severity |-> f[2], target |-> target] : f \in fs}

\* What http_findings and licence_findings may say.
HttpSayings ==
  {<<"http.no-hsts", "high">>, <<"http.weak-hsts", "medium">>,
   <<"http.hsts-no-subdomains", "low">>, <<"http.no-csp", "medium">>,
   <<"http.missing-headers", "low">>, <<"http.version-disclosure", "low">>,
   <<"http.insecure-cookies", "medium">>, <<"http.no-https-redirect", "high">>}

LicenceIds == {"licence.copyleft-obligation", "licence.commercial-restriction",
               "licence.end-of-life-component", "licence.undetermined", "licence.exposed-manifest"}

LEMMA FiniteThree == \A a, b, c : IsFiniteSet({a, b, c})
<1> TAKE a, b, c
<1>1. IsFiniteSet({a}) /\ IsFiniteSet({b}) /\ IsFiniteSet({c})
  BY FS_Singleton
<1>2. IsFiniteSet({a} \cup {b})
  BY <1>1, FS_Union
<1>3. IsFiniteSet(({a} \cup {b}) \cup {c})
  BY <1>1, <1>2, FS_Union
<1>4. ({a} \cup {b}) \cup {c} = {a, b, c}
  OBVIOUS
<1> QED
  BY <1>3, <1>4

LEMMA FiniteImage ==
  ASSUME NEW S, IsFiniteSet(S), NEW target
  PROVE  IsFiniteSet(Report(S, target))
<1> DEFINE f == [x \in S |-> [id |-> x[1], severity |-> x[2], target |-> target]]
<1>1. f \in Surjection(S, Report(S, target))
  BY DEF Surjection, Report
<1> QED
  BY <1>1, FS_Surjection

\* A report of mild or severe findings that are not about endpoints.
LEMMA Acceptable ==
  ASSUME NEW fs, IsFiniteSet(fs), NEW target,
         \A f \in fs : /\ f[2] \in {"critical", "high", "medium", "low"}
                       /\ f[1] \in {x[1] : x \in HttpSayings} \cup LicenceIds
                       /\ f[1] = "http.version-disclosure" => f[2] = "low"
  PROVE  Rules!IsReport(Report(fs, target))
<1>1. /\ Rules!Severities[1] = "critical" /\ Rules!Severities[2] = "high"
      /\ Rules!Severities[3] = "medium" /\ Rules!Severities[4] = "low"
  BY DEF Rules!Severities
<1>2. \A s \in {"critical", "high", "medium", "low"} : \E i \in 1 .. 5 : s = Rules!Severities[i]
  BY <1>1
<1>3. {x[1] : x \in HttpSayings} =
        {"http.no-hsts", "http.weak-hsts", "http.hsts-no-subdomains", "http.no-csp",
         "http.missing-headers", "http.version-disclosure", "http.insecure-cookies",
         "http.no-https-redirect"}
  BY DEF HttpSayings
<1>4. ({x[1] : x \in HttpSayings} \cup LicenceIds) \cap Rules!AboutEndpoints = {}
  BY <1>3 DEF LicenceIds, Rules!AboutEndpoints
<1>5. ASSUME NEW r \in Report(fs, target)
      PROVE  /\ \E i \in 1 .. 5 : r.severity = Rules!Severities[i]
             /\ r.id \notin Rules!AboutEndpoints
             /\ r.id = "http.version-disclosure" => r.severity = "low"
  <2>1. PICK f \in fs : r.id = f[1] /\ r.severity = f[2]
    BY DEF Report
  <2> QED
    BY <1>2, <1>4, <2>1
<1>6. IsFiniteSet(Report(fs, target))
  BY FiniteImage
<1> QED
  BY <1>5, <1>6 DEF Rules!IsReport, Rules!IsFiniteSet, IsFiniteSet

LEMMA HttpSays ==
  /\ IsFiniteSet(HttpFindings)
  /\ HttpFindings \subseteq HttpSayings
<1>1. HttpFindings \subseteq HttpSayings
  BY DEF HttpFindings, HeaderFindings, HttpSayings
<1>2. IsFiniteSet(HttpSayings)
  <2> DEFINE A == {<<"http.no-hsts", "high">>, <<"http.weak-hsts", "medium">>,
                   <<"http.hsts-no-subdomains", "low">>}
             B == {<<"http.no-csp", "medium">>, <<"http.missing-headers", "low">>,
                   <<"http.version-disclosure", "low">>}
             C == {<<"http.insecure-cookies", "medium">>, <<"http.no-https-redirect", "high">>,
                   <<"http.no-https-redirect", "high">>}
  <2>1. IsFiniteSet(A) /\ IsFiniteSet(B) /\ IsFiniteSet(C)
    BY FiniteThree
  <2>2. HttpSayings = A \cup B \cup C
    BY DEF HttpSayings
  <2> HIDE DEF A, B, C
  <2> QED
    BY <2>1, <2>2, FS_Union
<1> QED
  BY <1>1, <1>2, FS_Subset

\* Each component is accused of at most two things, and the site of three.
LEMMA LicencesSay ==
  ASSUME IsFiniteSet(components)
  PROVE  /\ IsFiniteSet(LicenceFindings)
         /\ \A f \in LicenceFindings : f[1] \in LicenceIds /\ f[2] \in {"critical", "high", "medium"}
<1> DEFINE copyleft == {d \in components : CategoryOf(d) \in {"strong-copyleft", "network-copyleft"}}
           bound    == {d \in components : CategoryOf(d) = "restricted"}
           says(c) == <<"licence.copyleft-obligation",
                        IF CategoryOf(c) = "network-copyleft" THEN "critical" ELSE "high", c.name>>
           told(c) == <<"licence.commercial-restriction", "high", c.name>>
           three == {<<"licence.end-of-life-component", "high", "site">>,
                     <<"licence.undetermined", "medium", "site">>,
                     <<"licence.exposed-manifest", "medium", "site">>}
<1>1. LicenceFindings \subseteq {says(c) : c \in copyleft} \cup {told(c) : c \in bound} \cup three
  BY DEF LicenceFindings
<1>2. IsFiniteSet(copyleft) /\ IsFiniteSet(bound) /\ IsFiniteSet(three)
  BY FS_Subset, FiniteThree
<1>3. [c \in copyleft |-> says(c)] \in Surjection(copyleft, {says(c) : c \in copyleft})
  BY DEF Surjection
<1>4. [c \in bound |-> told(c)] \in Surjection(bound, {told(c) : c \in bound})
  BY DEF Surjection
<1>5. IsFiniteSet({says(c) : c \in copyleft}) /\ IsFiniteSet({told(c) : c \in bound})
  <2> HIDE DEF copyleft, bound, says, told
  <2> QED
    BY <1>2, <1>3, <1>4, FS_Surjection
<1>6. /\ \A c : says(c)[1] \in LicenceIds /\ says(c)[2] \in {"critical", "high", "medium"}
      /\ \A c : told(c)[1] \in LicenceIds /\ told(c)[2] \in {"critical", "high", "medium"}
      /\ \A f \in three : f[1] \in LicenceIds /\ f[2] \in {"critical", "high", "medium"}
  BY DEF LicenceIds
<1> HIDE DEF copyleft, bound, says, told, three
<1>7. IsFiniteSet({says(c) : c \in copyleft} \cup {told(c) : c \in bound} \cup three)
  BY <1>2, <1>5, FS_Union
<1> QED
  BY <1>1, <1>6, <1>7, FS_Subset

\* What the analysis assumes of HTTP and the licences (ReportsAssumption of
\* Assessment) is what their checks report, at any moment: finitely many findings
\* with a known severity, of which none is about an endpoint or the inventory.
THEOREM SiteReportsFit ==
  Spec => [](\A target : /\ Rules!IsReport(Report(HttpFindings, target))
                         /\ Rules!IsReport(Report(LicenceFindings, target)))
<1>1. \A f \in HttpSayings : /\ f[2] \in {"critical", "high", "medium", "low"}
                             /\ f[1] = "http.version-disclosure" => f[2] = "low"
  BY DEF HttpSayings
<1>2. \A target : Rules!IsReport(Report(HttpFindings, target))
  <2> TAKE target
  <2> QED
    BY <1>1, HttpSays, Acceptable
<1>3. Stocked => \A target : Rules!IsReport(Report(LicenceFindings, target))
  <2> SUFFICES ASSUME Stocked, NEW target
               PROVE  Rules!IsReport(Report(LicenceFindings, target))
    OBVIOUS
  <2>1. \A f \in LicenceFindings : f[1] # "http.version-disclosure"
    BY LicencesSay DEF Stocked, LicenceIds
  <2> QED
    BY <2>1, LicencesSay, Acceptable DEF Stocked
<1>4. Stocked => \A target : /\ Rules!IsReport(Report(HttpFindings, target))
                             /\ Rules!IsReport(Report(LicenceFindings, target))
  BY <1>2, <1>3
<1> QED
  BY <1>4, StockedInit, SourceInit, SourceInvariant, StockedStep, PTL DEF Spec
=============================================================================
