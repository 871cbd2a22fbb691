------------------------------- MODULE DocsSync ------------------------------
(***************************************************************************)
(* hmn docs sync apply: the service registry is read once, the plan is     *)
(* built from that copy, every target is checked to lie under the          *)
(* documentation root, and then the indexes and the documents they point   *)
(* to are written one file after the other.  Nothing is ever removed.      *)
(*                                                                         *)
(* A service record is reduced to the host it runs on, a document to what  *)
(* it says about services and hosts; the five other index files carry what *)
(* the server index and the service index carry and are left out.          *)
(***************************************************************************)
EXTENDS Naturals, FiniteSets

CONSTANTS
  HostCount,     \* hosts, in the order of their names
  ServiceCount,  \* services, in the order of their ids
  SlugOf,        \* _safe_service_slug: different services may get one slug
  Writer,        \* concurrent hmn docs sync commands
  SyncCap        \* bound: syncs that are begun

DocHost == 1..HostCount
Service == 1..ServiceCount

ASSUME DocsParameters ==
  /\ HostCount \in Nat /\ ServiceCount \in Nat /\ SyncCap \in Nat
  /\ DOMAIN SlugOf = Service

Slug == {SlugOf[s] : s \in Service}

VARIABLES
  registry,   \* the host of each registered service, 0 for the others
  docs,       \* the files under the documentation root
  sync,       \* the state of each command
  linkedOut,  \* slugs whose directory was moved away and replaced by a link
  syncs,      \* how many syncs were begun
  docsState   \* history: sound, overlapped or torn since the last undisturbed sync

docsVars == <<registry, docs, sync, linkedOut, syncs, docsState>>

\* What a copy of the registry says: the host of each service in it.
Plan == [Service -> 0..HostCount]
NoServices == [s \in Service |-> 0]
In(plan) == {s \in Service : plan[s] # 0}
HostsOf(plan) == {plan[s] : s \in In(plan)}
OnHost(plan, h) == {s \in Service : plan[s] = h}

NoDoc == [id |-> 0, host |-> 0]
ServiceDoc == [id : 0..ServiceCount, host : 0..HostCount]
File == [kind : {"hosts", "services", "host", "service"}, of : DocHost \cup Service \cup {0}]
Idle == [busy |-> FALSE, plan |-> NoServices, left |-> {}, alone |-> FALSE]

DocsTypeOK ==
  /\ registry \in Plan
  /\ docs \in [hosts : SUBSET DocHost, services : Plan,
              host : [DocHost -> SUBSET Service], service : [Slug -> ServiceDoc]]
  /\ sync \in [Writer -> [busy : BOOLEAN, plan : Plan, left : SUBSET File, alone : BOOLEAN]]
  /\ linkedOut \subseteq Slug /\ syncs \in 0..SyncCap
  /\ docsState \in {"sound", "overlapped", "torn"}

DocsInit ==
  /\ registry = NoServices
  /\ docs = [hosts |-> {}, services |-> NoServices,
             host |-> [h \in DocHost |-> {}], service |-> [g \in Slug |-> NoDoc]]
  /\ sync = [w \in Writer |-> Idle]
  /\ linkedOut = {} /\ syncs = 0 /\ docsState = "sound"
------------------------------------------------------------------------------
\* The registry as --rename-host old=new makes the plan see it.
Renamed(old, new) == [s \in Service |-> IF registry[s] = old THEN new ELSE registry[s]]

\* _build_apply_writes: indexes first, then hosts, then services, each in order.
WritesOf(plan) ==
  {[kind |-> "hosts", of |-> 0], [kind |-> "services", of |-> 0]}
    \cup [kind : {"host"}, of : HostsOf(plan)] \cup [kind : {"service"}, of : In(plan)]

Position == [hosts |-> 1, services |-> 2, host |-> 3, service |-> 4]
Before(f, g) == \/ Position[f.kind] < Position[g.kind]
                \/ f.kind = g.kind /\ f.of < g.of
IsNext(w, f) == f \in sync[w].left /\ \A g \in sync[w].left \ {f} : Before(f, g)

\* Another command is writing.
Others(w) == \E v \in Writer \ {w} : sync[v].busy

\* Slip: the targets are not resolved before the first write.
BeginSyncUnchecked(w, old, new) ==
  /\ ~sync[w].busy /\ syncs < SyncCap /\ syncs' = syncs + 1
  /\ LET plan == Renamed(old, new) IN
       sync' = [v \in Writer |->
                 IF v = w THEN [busy |-> TRUE, plan |-> plan, left |-> WritesOf(plan),
                                alone |-> ~Others(w)]
                 ELSE [sync[v] EXCEPT !.alone = FALSE]]
  /\ docsState' = IF Others(w) /\ docsState = "sound" THEN "overlapped" ELSE docsState
  /\ UNCHANGED <<registry, docs, linkedOut>>

\* apply_docs_sync with --execute, up to its first write.  A target outside the
\* root ends the command with an error (the command is then a stutter).
BeginSync(w, old, new) ==
  /\ ~sync[w].busy /\ syncs < SyncCap /\ syncs' = syncs + 1
  /\ LET plan == Renamed(old, new) IN
       /\ \A s \in In(plan) : SlugOf[s] \notin linkedOut
       /\ sync' = [v \in Writer |->
                    IF v = w THEN [busy |-> TRUE, plan |-> plan, left |-> WritesOf(plan),
                                   alone |-> ~Others(w)]
                    ELSE [sync[v] EXCEPT !.alone = FALSE]]
  /\ docsState' = IF Others(w) /\ docsState = "sound" THEN "overlapped" ELSE docsState
  /\ UNCHANGED <<registry, docs, linkedOut>>

\* What the files are once file has been written from plan.
Rendered(file, plan) ==
  CASE file.kind = "hosts"    -> [docs EXCEPT !.hosts = HostsOf(plan)]
    [] file.kind = "services" -> [docs EXCEPT !.services = plan]
    [] file.kind = "host"     -> [docs EXCEPT !.host[file.of] = OnHost(plan, file.of)]
    [] file.kind = "service"  -> [docs EXCEPT !.service[SlugOf[file.of]] =
                                    [id |-> file.of, host |-> plan[file.of]]]

Escapes(file) == file.kind = "service" /\ SlugOf[file.of] \in linkedOut

\* One write_text; after the last the command is done.
WriteDoc(w) == \E file \in sync[w].left :
  /\ sync[w].busy /\ IsNext(w, file) /\ ~Escapes(file)
  /\ docs' = Rendered(file, sync[w].plan)
  /\ LET rest == sync[w].left \ {file} IN
       IF rest # {} THEN sync' = [sync EXCEPT ![w].left = rest] /\ UNCHANGED docsState
       ELSE /\ sync' = [sync EXCEPT ![w] = Idle]
            /\ docsState' = IF sync[w].alone THEN "sound" ELSE docsState
  /\ UNCHANGED <<registry, linkedOut, syncs>>

\* _resolve_target raises at the write: a directory was linked away meanwhile.
SyncEscapes(w) ==
  /\ sync[w].busy /\ \E file \in sync[w].left : IsNext(w, file) /\ Escapes(file)
  /\ sync' = [sync EXCEPT ![w] = Idle]
  /\ UNCHANGED <<registry, docs, linkedOut, syncs, docsState>>

SyncDies(w) ==
  /\ sync[w].busy /\ sync' = [sync EXCEPT ![w] = Idle]
  /\ docsState' = "torn"
  /\ UNCHANGED <<registry, docs, linkedOut, syncs>>

\* The registry file, or the services table with --db, changes.
Register(s, h) ==
  /\ registry' = [registry EXCEPT ![s] = h]
  /\ UNCHANGED <<docs, sync, linkedOut, syncs, docsState>>

\* An operator moves the directory of a service away and leaves a link to it.
LinkOut(g) ==
  /\ g \notin linkedOut /\ linkedOut' = linkedOut \cup {g}
  /\ docsState' = IF \E w \in Writer : sync[w].busy THEN "torn" ELSE docsState
  /\ UNCHANGED <<registry, docs, sync, syncs>>

DocsNext ==
  \/ \E w \in Writer : \/ WriteDoc(w) \/ SyncEscapes(w) \/ SyncDies(w)
                       \/ \E old, new \in DocHost : BeginSync(w, old, new)
  \/ \E s \in Service, h \in DocHost : Register(s, h)
  \/ \E g \in Slug : LinkOut(g)

DocsSpec == DocsInit /\ [][DocsNext]_docsVars
------------------------------------------------------------------------------
(* Properties *)

\* Once no sync is writing, whatever the indexes name has a document, also after
\* syncs from different copies of the registry wrote over each other; and after an
\* undisturbed sync (the first one, or one that repairs what a crash left) the
\* documents say what the indexes say, where services with one slug share a document.
DocsAgree ==
  (\A w \in Writer : ~sync[w].busy) /\ docsState # "torn" =>
    /\ \A h \in docs.hosts : docs.host[h] # {}
    /\ \A s \in In(docs.services) : docs.service[SlugOf[s]] # NoDoc
    /\ docsState = "sound" =>
         /\ docs.hosts = HostsOf(docs.services)
         /\ \A h \in docs.hosts : docs.host[h] = OnHost(docs.services, h)
         /\ \A s \in In(docs.services) : LET doc == docs.service[SlugOf[s]] IN
              /\ doc.id >= s /\ SlugOf[doc.id] = SlugOf[s]
              /\ doc.host = docs.services[doc.id]
==============================================================================
