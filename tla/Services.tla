------------------------------- MODULE Services ------------------------------
(***************************************************************************)
(* The services table.  hmn service add and the imports write whole rows;  *)
(* hmn service discover --apply loads every row it has findings for, plans *)
(* the merged rows, and saves them later, each load and each save in a     *)
(* transaction of its own.  Every save classifies the service and keeps    *)
(* the class in the metadata of the row, where the next save reads it.     *)
(*                                                                         *)
(* Of a row the model keeps what classification and merging look at; who   *)
(* wrote a text field stands for the text.  The audit events are left out. *)
(***************************************************************************)
EXTENDS Naturals, Integers, FiniteSets

CONSTANTS
  Svc,         \* service ids
  SystemWord,  \* the services whose id or name contains a control-plane word
  Finding,     \* the findings of a discovery: which parsers saw a service, and a proxy
  Given,       \* what an operator, Coolify or a list may say of a service
  Discoverer   \* concurrent hmn service discover --apply commands

Parser == {"systemd", "docker", "ss", "compose"}
Exposed == {"declared", "published", "socket"}
Origin == {"manual", "discovery", "coolify", "import"}

ASSUME ServicesParameters ==
  /\ SystemWord \subseteq Svc
  /\ Finding \subseteq [by : (SUBSET Parser) \ {{}}, proxy : {"none", "caddy", "nginx"}]
  /\ Given \subseteq [ports : SUBSET {"declared"}, domains : BOOLEAN, url : BOOLEAN,
                      deploy : BOOLEAN, paths : BOOLEAN, monitored : BOOLEAN]

VARIABLES
  rows,       \* the table
  discovery,  \* per command, the rows it has planned and not yet saved
  curated,    \* history: what the operator registered, while only discoveries that
              \* had seen it saved the row since
  unseen      \* history: plans made before the operator registered the service

svcVars == <<rows, discovery, curated, unseen>>

Class == {"main", "pending", "system"}
Row == [source : Origin, ports : SUBSET Exposed, domains : BOOLEAN, url : Origin \cup {""},
        deploy : Origin \cup {""}, paths : BOOLEAN, monitored : BOOLEAN,
        marked : Class \cup {""}, class : Class]
NoServiceRow == [source |-> "none"]
Nothing == [source |-> "nothing"]   \* a command has nothing planned for the service

SvcTypeOK ==
  /\ rows \in [Svc -> Row \cup {NoServiceRow}]
  /\ discovery \in [Discoverer -> [Svc -> Row \cup {Nothing}]]
  /\ curated \in [Svc -> Row \cup {NoServiceRow}] /\ unseen \subseteq Discoverer \X Svc

SvcInit ==
  /\ rows = [s \in Svc |-> NoServiceRow]
  /\ discovery = [d \in Discoverer |-> [s \in Svc |-> Nothing]]
  /\ curated = [s \in Svc |-> NoServiceRow] /\ unseen = {}
------------------------------------------------------------------------------
(* Classification *)

Points(holds, n) == IF holds THEN n ELSE 0

\* _classify_service_asset, before the score is clamped for display.
Score(s, row) ==
  Points(row.source = "manual", 60) + Points(row.source # "manual", 8)
    + Points(row.marked = "main", 30) + Points(row.marked = "system", -80)
    + Points(row.domains, 18) + Points(row.ports # {}, 12) + Points(row.url # "", 8)
    + Points(row.deploy # "", 6) + Points(row.paths, 6) + Points(row.monitored, 5)
    + Points(s \in SystemWord, -40)

ClassOf(s, row) ==
  IF row.source = "manual" \/ row.marked = "main" THEN "main"
  ELSE IF row.marked = "system" \/ Score(s, row) < 0 THEN "system"
  ELSE IF Score(s, row) >= 40 THEN "main" ELSE "pending"

\* save_service_record: the first class stays in the metadata (setdefault).
Saved(s, row) ==
  LET class == ClassOf(s, row) IN
    [row EXCEPT !.class = class, !.marked = IF row.marked = "" THEN class ELSE row.marked]
------------------------------------------------------------------------------
(* Discovery *)

\* What the parsers and the proxy configurations say of a service, merged by
\* _add_or_merge and _apply_proxy_enrichment: a proxy is matched through a port.
Found(f) ==
  LET ports == {"published" : p \in f.by \cap {"docker"}} \cup {"socket" : p \in f.by \cap {"ss"}}
      proxied == ports # {} /\ f.proxy # "none"
      composed == "compose" \in f.by
  IN [source |-> "discovery", ports |-> ports, domains |-> proxied,
      url |-> IF composed \/ (proxied /\ f.proxy = "nginx") THEN "discovery" ELSE "",
      deploy |-> IF composed THEN "discovery" ELSE "", paths |-> composed,
      monitored |-> FALSE, marked |-> "", class |-> "pending"]

\* Slip: what was found replaces what is there.
PlannedOver(row, f) ==
  [Found(f) EXCEPT !.source = row.source, !.ports = row.ports \cup Found(f).ports,
                   !.marked = row.marked]

\* plan_discovered_services for a row that exists: what is there is preferred
\* (_prefer_existing), ports and metadata are merged.
Planned(row, f) ==
  [row EXCEPT !.ports = @ \cup Found(f).ports, !.domains = @ \/ Found(f).domains,
              !.url = IF @ # "" THEN @ ELSE Found(f).url,
              !.deploy = IF @ # "" THEN @ ELSE Found(f).deploy, !.paths = @ \/ Found(f).paths]

\* The plan for one service: its row is loaded and merged.
PlanDiscovered(d, s, f) ==
  /\ discovery[d][s] = Nothing
  /\ discovery' = [discovery EXCEPT ![d][s] =
                     IF rows[s] = NoServiceRow THEN Found(f) ELSE Planned(rows[s], f)]
  /\ UNCHANGED <<rows, curated, unseen>>

\* apply_discovered_services saves one of the planned rows.
SaveDiscovered(d, s) ==
  /\ discovery[d][s] # Nothing
  /\ rows' = [rows EXCEPT ![s] = Saved(s, discovery[d][s])]
  /\ discovery' = [discovery EXCEPT ![d][s] = Nothing]
  /\ curated' = IF <<d, s>> \in unseen THEN [curated EXCEPT ![s] = NoServiceRow] ELSE curated
  /\ unseen' = unseen \ {<<d, s>>}

DiscoveryDies(d) ==
  /\ \E s \in Svc : discovery[d][s] # Nothing
  /\ discovery' = [discovery EXCEPT ![d] = [s \in Svc |-> Nothing]]
  /\ unseen' = {p \in unseen : p[1] # d}
  /\ UNCHANGED <<rows, curated>>
------------------------------------------------------------------------------
(* Writers of whole rows *)

Whole(from, g, marked) ==
  [source |-> from, ports |-> g.ports, domains |-> g.domains,
   url |-> IF g.url THEN from ELSE "", deploy |-> IF g.deploy THEN from ELSE "",
   paths |-> g.paths, monitored |-> g.monitored, marked |-> marked, class |-> "pending"]

\* hmn service add.
AddService(s, g) ==
  LET row == Saved(s, Whole("manual", g, "")) IN
    /\ rows' = [rows EXCEPT ![s] = row] /\ curated' = [curated EXCEPT ![s] = row]
    /\ unseen' = unseen \cup {<<d, s>> : d \in {e \in Discoverer : discovery[e][s] # Nothing}}
    /\ UNCHANGED discovery

\* hmn service coolify-sync --apply, one application (monitored: it runs); the id is
\* the one discovery gives to a service of that name on that server.
SyncCoolify(s, g) ==
  /\ rows' = [rows EXCEPT ![s] =
       Saved(s, Whole("coolify", [g EXCEPT !.url = g.domains, !.paths = FALSE,
                                           !.monitored = g.domains /\ @], ""))]
  /\ curated' = [curated EXCEPT ![s] = NoServiceRow]
  /\ UNCHANGED <<discovery, unseen>>

\* hmn discover --from-json, one entry, which may carry a class.
ImportService(s, g, marked) ==
  /\ rows' = [rows EXCEPT ![s] = Saved(s, Whole("import", g, marked))]
  /\ curated' = [curated EXCEPT ![s] = NoServiceRow]
  /\ UNCHANGED <<discovery, unseen>>

SvcNext ==
  \E s \in Svc :
    \/ \E g \in Given : \/ AddService(s, g) \/ SyncCoolify(s, g)
                       \/ \E marked \in Class \cup {""} : ImportService(s, g, marked)
    \/ \E d \in Discoverer : \/ SaveDiscovered(d, s) \/ DiscoveryDies(d)
                             \/ \E f \in Finding : PlanDiscovered(d, s, f)

SvcSpec == SvcInit /\ [][SvcNext]_svcVars
------------------------------------------------------------------------------
(* Properties *)

\* Discovery adds to what an operator registered and takes nothing away, however
\* often it runs and whichever parsers see the service; a discovery that had
\* loaded the row of another writer puts that row back, and the other writers
\* replace the row.
CuratedStays ==
  \A s \in Svc : LET kept == curated[s]  row == rows[s] IN
    kept # NoServiceRow =>
      /\ row.source = "manual" /\ row.class = "main" /\ kept.ports \subseteq row.ports
      /\ (kept.domains => row.domains) /\ (kept.monitored => row.monitored)
      /\ (kept.paths => row.paths)
      /\ (kept.url # "" => row.url = kept.url)
      /\ (kept.deploy # "" => row.deploy = kept.deploy)
==============================================================================
