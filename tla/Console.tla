------------------------------- MODULE Console -------------------------------
(***************************************************************************)
(* The console (apps/stratus-console: lib/api.ts and the pages) reading    *)
(* the estate through the API's controllers and read model, while the      *)
(* migrators, the seed and the incident-service write it.                  *)
(*                                                                         *)
(* A request is answered with the rows of the moment, or, when the API is  *)
(* not reachable or a statement fails, replaced in the browser by bundled  *)
(* sample data.  The statements of the overview run at moments of their    *)
(* own; the first ones on risk_snapshots, findings and incidents are taken *)
(* at the same moment.  Every other request is one statement, and of a     *)
(* list only its origin is kept.                                           *)
(***************************************************************************)
EXTENDS Estate, ReadModel

CONSTANTS
  SampleIncidents,  \* the ids of demoIncidents(), which the seed uses as well
  Now,              \* the clock
  MaxFetches        \* bound: requests the pages make

(* The queries for lists: one of the command center, and one of each list  *)
(* page.  The pages of the incidents, the findings and the assets, which   *)
(* are alike, are one here.                                                *)
ListPages == {"list page"}
Lists == {"top incidents"} \cup ListPages
Statements == {"totals", "byEnvironment", "byProvider", "trend", "others"}

VARIABLES
  answers,    \* the answered statements of the overview being computed
  asking,     \* whether one is being computed
  overview,   \* the overview the command center shows, {} before the first
  lists,      \* lists[q]: the list the console holds, {} before the first
  lookup,     \* the incident page: its list, once fetched
  incident,   \* ... and the incident it shows
  fetches,
  \* History variable.
  disturbed   \* whether assets were written while the overview was computed

pages == <<answers, asking, overview, lists, lookup, incident, fetches>>
vars == <<migration, estate, pages, disturbed>>

Init ==
  /\ MigratorInit /\ EstateInit
  /\ asking = FALSE /\ answers = <<>>
  /\ overview = {} /\ lists = [q \in Lists |-> {}]
  /\ lookup = {} /\ incident = {}
  /\ fetches = 0 /\ disturbed = FALSE

Ask(statement) ==
  CASE statement = "totals"        -> AssetTotals(assets)
    [] statement = "byEnvironment" -> ByEnvironment(assets)
    [] statement = "byProvider"    -> ByProvider(assets)
    [] statement = "trend"         -> RiskTrend(snapshots, Now)
    [] statement = "others"        -> [score     |-> SecurityScore(snapshots, Now),
                                       findings  |-> FindingSummary(findings),
                                       incidents |-> IncidentSummary(incidents)]

(* Whether a request is answered: the browser may not reach the API.       *)
Outcomes == IF TablesExist THEN {TRUE, FALSE} ELSE {FALSE}

(* get(): what the API answered, or the fallback.                          *)
Get(answered) == [live |-> answered, from |-> IF answered THEN "api" ELSE "sample"]

Fetch ==
  /\ fetches < MaxFetches
  /\ fetches' = fetches + 1

AskOverview ==
  /\ ~asking /\ Fetch
  /\ asking' = TRUE /\ answers' = <<>> /\ disturbed' = FALSE
  /\ UNCHANGED <<overview, lists, lookup, incident>>

(* DashboardController.overview(): Promise.all, in no transaction; the     *)
(* three statements of assetSummary() follow one another.                  *)
Answer(statement) ==
  /\ asking /\ TablesExist /\ statement \notin DOMAIN answers
  /\ statement = "byEnvironment" => "totals" \in DOMAIN answers
  /\ statement = "byProvider" => "byEnvironment" \in DOMAIN answers
  /\ answers' = [s \in DOMAIN answers \cup {statement} |->
                   IF s = statement THEN Ask(statement) ELSE answers[s]]
  /\ UNCHANGED <<asking, overview, lists, lookup, incident, fetches, disturbed>>

(* The answer reaches the browser, or the fallback is used.                *)
ShowOverview ==
  /\ asking
  /\ \/ /\ DOMAIN answers = Statements
        /\ overview' = {[live |-> TRUE, from |-> "api", data |-> answers,
                          disturbed |-> disturbed]}
     \/ overview' = {Get(FALSE)}
  /\ asking' = FALSE /\ answers' = <<>> /\ disturbed' = FALSE
  /\ UNCHANGED <<lists, lookup, incident, fetches>>

FetchList(q) ==
  /\ Fetch
  /\ \E answered \in Outcomes : lists' = [lists EXCEPT ![q] = {Get(answered)}]
  /\ UNCHANGED <<answers, asking, overview, lookup, incident, disturbed>>

(* fetchIncident(): the list, then the incident itself.                    *)
ListForIncident(id) ==
  /\ lookup = {} /\ Fetch
  /\ \E answered \in Outcomes :
       LET list == Get(answered)
           ids  == IF answered THEN Ids(incidents) ELSE SampleIncidents
       IN  lookup' = {[live |-> list.live, from |-> list.from, id |-> id,
                       found |-> id \in ids]}
  /\ UNCHANGED <<answers, asking, overview, lists, incident, disturbed>>

(* `direct.data ?? data.find(...) ?? null`, and `direct.live || list.live`.*)
PreferList(list, direct) ==     \* mutated form: data.find(...) ?? direct.data
  [live |-> direct \/ list.live,
   from |-> IF list.found THEN list.from ELSE IF direct THEN "api" ELSE "nobody"]
Combine(list, direct) ==
  [live |-> direct \/ list.live,
   from |-> IF direct THEN "api" ELSE IF list.found THEN list.from ELSE "nobody"]
ShowIncident ==
  \E list \in lookup, answered \in Outcomes :
    /\ incident' = {Combine(list, answered /\ list.id \in Ids(incidents))}
    /\ lookup' = {}
    /\ UNCHANGED <<answers, asking, overview, lists, fetches, disturbed>>

PagesNext ==
  \/ AskOverview \/ (\E s \in Statements : Answer(s)) \/ ShowOverview
  \/ (\E q \in Lists : FetchList(q))
  \/ (\E id \in SampleIncidents \cup LiveIncidents : ListForIncident(id))
  \/ ShowIncident

Next ==
  \/ MigratorNext /\ UNCHANGED <<estate, pages, disturbed>>
  \/ /\ EstateNext /\ UNCHANGED <<migration, pages>>
     /\ disturbed' = (disturbed \/ (asking /\ assets' # assets))
  \/ PagesNext /\ UNCHANGED <<migration, estate>>

(* What is on a page, and whether a DemoBanner is: the command center has  *)
(* one for its overview only, the incident page none.                      *)
Shown(page) ==
  CASE page = "command center" -> IF overview = {} THEN {} ELSE overview \cup lists["top incidents"]
    [] page \in ListPages      -> lists[page]
    [] page = "incident"       -> incident
DemoBanner(page) ==
  \/ page = "command center" /\ \E x \in overview : ~x.live
  \/ page \in ListPages /\ \E x \in lists[page] : ~x.live

Spec == Init /\ [][Next]_vars
-----------------------------------------------------------------------------
(* The figures of an overview add up: health and severity always, whatever *)
(* was written meanwhile, and the tallies with the total unless the seed   *)
(* wrote assets between two of the statements.                             *)
OverviewAddsUp ==
  \A x \in {y \in overview : y.live} :
    LET a == x.data["totals"]
        f == x.data["others"].findings
    IN  /\ a.healthy + a.atRisk + a.critical = a.total
        /\ SumOf(f.bySeverity) = f.open
        /\ ~x.disturbed =>
             /\ SumOf(x.data["byEnvironment"]) = a.total
             /\ SumOf(x.data["byProvider"]) = a.total

(* api.ts:27: "Every fallback is flagged".  Whatever has the flag of live  *)
(* data came from the API, also when the two requests of the incident page *)
(* have different fates.  On the list pages, and for the overview of the   *)
(* command center, sample data is under a banner; it is not, as README:315 *)
(* and demo-banner.tsx:1 have it, wherever there is sample data: a list of *)
(* the command center whose overview was answered, and an incident, which  *)
(* this leaves out, are shown without one (page.tsx:33).                   *)
FallbacksAreFlagged ==
  /\ \A page \in ListPages \cup {"command center", "incident"} :
       \A x \in Shown(page) : x.live => x.from # "sample"
  /\ \A page \in ListPages : \A x \in Shown(page) : x.from = "sample" => DemoBanner(page)
  /\ \A x \in overview : x.from = "sample" => DemoBanner("command center")
=============================================================================
