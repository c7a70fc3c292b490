------------------------------ MODULE Scaffold -------------------------------
(***************************************************************************)
(* The command line: adding and upgrading generated files (Scaffold...),   *)
(* and the ports of a product (Ports...).                                  *)
(***************************************************************************)
EXTENDS Naturals, Sequences, FiniteSets, SequencesExt, TLC

-----------------------------------------------------------------------------
(* `baukit new`: a run renders the product for its options and adds the      *)
(* missing files one by one, in path order; existing files are compared,     *)
(* differences go to a conflict report. Users edit, delete and add files     *)
(* between runs, a run may be killed in the middle of a write. `baukit       *)
(* doctor` judges the product (cli/src/lib.rs, doctor_files.rs,              *)
(* doctor_platform.rs). A path is a name and a migration number, or 0.       *)

CONSTANTS Options,                      \* the command lines users may give
          MaxRuns, MaxUserSteps, MaxCrashes,          \* bounds
          MaxReports,                   \* 100 in available_conflict_path
          LastTemplate                  \* LAST_TEMPLATE_MIGRATION_VERSION

VARIABLES disk,       \* the product: path |-> content
          reports,    \* the conflict reports, in the order of their names
          run,        \* the run of `baukit new`
          before,     \* the product when the run began (history)
          last,       \* the last success, if nothing changed since (history)
          left        \* remaining runs, user steps and crashes

scaffoldVars == <<disk, reports, run, before, last, left>>

Capabilities == {"backend", "worker", "mobile", "web", "pwa", "mcp", "platform"}
AllOptions == [caps : SUBSET Capabilities, auth : {"none", "oidc", "hosted"}, offset : 0..1,
               lock : BOOLEAN]
Content(by, o, n) == [by |-> by, caps |-> o.caps, auth |-> o.auth, offset |-> o.offset, platform |-> n]
Blank == [caps |-> {}, auth |-> "none", offset |-> 0, lock |-> FALSE]
User == Content("user", Blank, 0)
Torn == Content("torn", Blank, 0)
Manifest == <<"baukit.toml", 0>>
PlatformSql(n) == <<"platform.sql", n>>
NoFiles == [p \in {} |-> User]
Idle == [pc |-> "idle", opts |-> Blank, todo |-> <<>>, files |-> NoFiles, conflicts |-> {}, repeat |-> FALSE]

ScaffoldInit ==
  /\ disk = NoFiles
  /\ reports = <<>>
  /\ run = Idle
  /\ before = NoFiles
  /\ last = Blank
  /\ left = [run |-> MaxRuns, user |-> MaxUserSteps, crash |-> MaxCrashes]

ValidMcp(o) == "mcp" \in o.caps => "backend" \in o.caps /\ o.auth # "none"

Valid(o) ==
  /\ "worker" \in o.caps => "backend" \in o.caps
  /\ "pwa" \in o.caps => {"mobile", "web"} \cap o.caps # {}
  /\ "platform" \in o.caps => "backend" \in o.caps
  /\ ValidMcp(o)
  /\ {"backend", "mobile", "web"} \cap o.caps # {}

\* Every path a product may have, in the order of BTreeMap<PathBuf, _>.
Paths(n) == << <<"AGENTS.md", 0>>, <<"backend/Dockerfile", 0>>, <<"backend/mcp-tools.json", 0>>,
               <<"items.sql", 1>>, <<"identities.sql", 2>>, <<"jobs.sql", 3>>, PlatformSql(n),
               <<"backend/openapi.json", 0>>, <<"backend/platform-purge.rs", 0>>, Manifest,
               <<"docs/remote-mcp.md", 0>>, <<"mobile", 0>>, <<"mobile/build-sw.mjs", 0>>,
               <<"web", 0>>, <<"web/auth", 0>> >>

\* render_product, render_directory: which paths the options select.
Selected(o, p) ==
  LET has(c) == c \in o.caps
  IN CASE p[1] \in {"AGENTS.md", "baukit.toml"} -> TRUE
       [] p[1] \in {"backend/Dockerfile", "items.sql", "backend/openapi.json"} -> has("backend")
       [] p[1] = "identities.sql" -> has("backend") /\ o.auth # "none"
       [] p[1] = "jobs.sql" -> has("worker")
       [] p[1] = "platform.sql" -> has("platform")
       [] p[1] = "backend/platform-purge.rs" -> has("platform") /\ ~has("worker")
       [] p[1] \in {"backend/mcp-tools.json", "docs/remote-mcp.md"} -> has("mcp")
       [] p[1] \in {"mobile", "mobile/build-sw.mjs"} -> has("mobile")
       [] p[1] = "web" -> has("web")
       [] OTHER -> has("web") /\ o.auth # "none"

\* The text of a rendered file: the guide names the capabilities, the manifest
\* records the options, the clients use the ports.
ScaffoldRendered(o, n, p) ==
  CASE p = Manifest -> Content("template", o, IF "platform" \in o.caps THEN n ELSE 0)
    [] p[1] = "AGENTS.md" -> Content("template", [o EXCEPT !.offset = 0], 0)
    [] p[1] \in {"mobile", "web"} -> Content("template", o, 0)
    [] OTHER -> Content("template", Blank, 0)

Kept(p) == p \in DOMAIN disk
ManifestReads == Kept(Manifest) => disk[Manifest].by # "torn"
\* platform_migration_path: the manifest's, or the next free number.
NextMigration ==
  IF Kept(Manifest) /\ disk[Manifest].platform # 0
  THEN disk[Manifest].platform
  ELSE LET used == {p[2] : p \in DOMAIN disk} \cup {LastTemplate}
       IN 1 + CHOOSE m \in used : \A k \in used : k <= m

\* generation_ports: the ports of an existing manifest win.
ScaffoldPorts(o) == IF Kept(Manifest) THEN disk[Manifest].offset ELSE o.offset

\* The files of the run: an existing manifest stands for the rendered one.
Files(o) ==
  LET n == NextMigration
      r == [o EXCEPT !.offset = ScaffoldPorts(o)]
      sel == {p \in ToSet(Paths(n)) : Selected(o, p)}
  IN [p \in sel |-> IF p = Manifest /\ Kept(Manifest) THEN disk[Manifest] ELSE ScaffoldRendered(r, n, p)]

\* generate_new up to the first write: options are checked, the manifest is
\* read, a non-empty directory needs --force or --into-existing.
Start ==
  /\ run.pc \in {"idle", "done", "failed"}
  /\ left.run > 0
  /\ left' = [left EXCEPT !.run = @ - 1]
  /\ \E o \in Options, forced \in BOOLEAN :
       IF Valid(o) /\ ManifestReads /\ (disk = NoFiles \/ forced)
       THEN LET f == Files(o)
            IN run' = [pc |-> "writing", opts |-> o, files |-> f, conflicts |-> {},
                       todo |-> SelectSeq(Paths(NextMigration), LAMBDA p : p \in DOMAIN f),
                       repeat |-> last = o]
       ELSE run' = [Idle EXCEPT !.pc = "failed"]
  /\ before' = disk
  /\ last' = IF run'.pc = "writing" THEN Blank ELSE last
  /\ UNCHANGED <<disk, reports>>

Write(p, c) == disk' = [q \in DOMAIN disk \cup {p} |-> IF q = p THEN c ELSE disk[q]]

\* Existing files are overwritten unless they are equal.
AddOverwrites ==
  /\ run.pc = "writing" /\ run.todo # <<>>
  /\ Write(Head(run.todo), run.files[Head(run.todo)])
  /\ run' = [run EXCEPT !.todo = Tail(@)]
  /\ UNCHANGED <<reports, before, last, left>>
\* The next file: absent, it is written; present, it is a conflict unless equal.
Add ==
  /\ run.pc = "writing" /\ run.todo # <<>>
  /\ LET p == Head(run.todo)
     IN IF Kept(p)
        THEN /\ run' = [run EXCEPT !.todo = Tail(@),
                        !.conflicts = IF disk[p] = run.files[p] THEN @ ELSE @ \cup {p}]
             /\ UNCHANGED disk
        ELSE Write(p, run.files[p]) /\ run' = [run EXCEPT !.todo = Tail(@)]
  /\ UNCHANGED <<reports, before, last, left>>

\* Conflicts: the report gets the first free name, if one is left.
Report ==
  /\ run.pc = "writing" /\ run.todo = <<>> /\ run.conflicts # {}
  /\ reports' = IF Len(reports) < MaxReports THEN Append(reports, run.conflicts) ELSE reports
  /\ run' = [run EXCEPT !.pc = "failed"]
  /\ UNCHANGED <<disk, before, last, left>>

Locks(o) == {<<c, 0>> : c \in {l \in {"backend/Cargo.lock", "web/pnpm-lock.yaml", "mobile/pnpm-lock.yaml"} :
                \/ l = "backend/Cargo.lock" /\ "backend" \in o.caps
                \/ l = "web/pnpm-lock.yaml" /\ "web" \in o.caps
                \/ l = "mobile/pnpm-lock.yaml" /\ "mobile" \in o.caps}}

\* resolve_lockfiles: a missing lockfile is made by cargo or pnpm, which may fail.
Lock ==
  /\ run.pc = "writing" /\ run.todo = <<>> /\ run.conflicts = {}
  /\ run.opts.lock
  /\ \E p \in Locks(run.opts) \ DOMAIN disk :
       \/ Write(p, Content("template", Blank, 0)) /\ UNCHANGED run
       \/ run' = [run EXCEPT !.pc = "failed"] /\ UNCHANGED disk
  /\ UNCHANGED <<reports, before, last, left>>

Succeed ==
  /\ run.pc = "writing" /\ run.todo = <<>> /\ run.conflicts = {}
  /\ run.opts.lock => Locks(run.opts) \subseteq DOMAIN disk
  /\ run' = [run EXCEPT !.pc = "done"]
  /\ last' = run.opts
  /\ UNCHANGED <<disk, reports, before, left>>

\* The process is killed: between two files, or with one created but not
\* filled.
Crash ==
  /\ run.pc = "writing" /\ left.crash > 0
  /\ left' = [left EXCEPT !.crash = @ - 1]
  /\ \/ UNCHANGED disk
     \/ run.todo # <<>> /\ ~Kept(Head(run.todo)) /\ Write(Head(run.todo), Torn)
  /\ run' = Idle
  /\ UNCHANGED <<reports, before, last>>

\* Between runs the user edits or deletes a file, adds a migration or records
\* the platform migration in the preserved manifest.
Change ==
  /\ run.pc \in {"idle", "done", "failed"} /\ left.user > 0
  /\ left' = [left EXCEPT !.user = @ - 1]
  /\ \/ \E p \in DOMAIN disk \ {Manifest} : Write(p, User)
     \/ \E p \in DOMAIN disk : disk' = [q \in DOMAIN disk \ {p} |-> disk[q]]
     \/ Write(<<"product.sql", NextMigration>>, User)
     \/ \E p \in DOMAIN disk :
          /\ p[1] = "platform.sql" /\ Kept(Manifest) /\ disk[Manifest].by = "template"
          /\ Write(Manifest, [disk[Manifest] EXCEPT !.platform = p[2], !.caps = @ \cup {"platform"}])
  /\ last' = Blank
  /\ run' = Idle
  /\ UNCHANGED <<reports, before>>

ScaffoldNext == Start \/ Add \/ Report \/ Lock \/ Succeed \/ Crash \/ Change

ScaffoldSpec == ScaffoldInit /\ [][ScaffoldNext]_scaffoldVars

\* doctor: the paths the manifest's product must have.
Expected(m) ==
  LET has(c) == c \in m.caps
  IN {<<"AGENTS.md", 0>>}
     \cup (IF has("backend") THEN {<<"backend/Dockerfile", 0>>, <<"backend/openapi.json", 0>>, <<"items.sql", 1>>} ELSE {})
     \cup (IF has("worker") THEN {<<"jobs.sql", 3>>} ELSE {})
     \cup (IF has("mcp") THEN {<<"backend/mcp-tools.json", 0>>, <<"docs/remote-mcp.md", 0>>} ELSE {})
     \cup (IF m.platform # 0 THEN {PlatformSql(m.platform)} ELSE {})
     \cup (IF has("mobile") THEN {<<"mobile", 0>>} ELSE {})
     \cup (IF has("web") THEN {<<"web", 0>>} ELSE {})
     \cup (IF has("pwa") /\ ~has("web") THEN {<<"mobile/build-sw.mjs", 0>>} ELSE {})

\* dependency_context, typescript_packages: the Baukit packages of a rendered
\* app (EXPECTED_TYPESCRIPT_DEPENDENCIES is "base").
Packages(app, o) ==
  LET auth == o.auth # "none"
      pwa == "pwa" \in o.caps /\ (app = "web" \/ "web" \notin o.caps)
  IN {"base", "analytics-core"}
     \cup (IF app = "mobile" THEN {"base-mobile", "posthog-native", "purchases"} ELSE {})
     \cup (IF app = "mobile" /\ auth THEN {"auth-native"} ELSE {})
     \cup (IF app = "web" /\ auth THEN {"auth-web"} ELSE {})
     \cup (IF pwa THEN {"pwa-web"} ELSE {})

\* doctor: the packages an app of the manifest's product must depend on.
Required(app, m) ==
  {"base", "analytics-core"}
  \cup (IF app = "mobile" THEN {"base-mobile", "posthog-native"} ELSE {})
  \cup (IF m.auth = "none" THEN {} ELSE IF app = "web" THEN {"auth-web"} ELSE {"auth-native"})

\* pwa_app_directory
PwaApp(m) == IF "web" \in m.caps THEN "web" ELSE "mobile"

Consistent(m) ==
  LET has(c) == c \in m.caps
  IN /\ has("pwa") => has("web") \/ has("mobile")
     /\ has("platform") => has("backend")
     /\ has("platform") <=> m.platform # 0
     /\ has("mcp") => has("backend") /\ m.auth # "none"

DoctorAccepts ==
  /\ Kept(Manifest) /\ ManifestReads
  /\ LET m == disk[Manifest]
     IN /\ Expected(m) \subseteq {p \in DOMAIN disk : disk[p].by # "torn"}
        /\ Consistent(m)
        /\ \A app \in {"mobile", "web"} \cap m.caps :
             LET d == Packages(app, disk[<<app, 0>>])
             IN /\ Required(app, m) \subseteq d
                /\ "pwa" \in m.caps /\ app = PwaApp(m) => "pwa-web" \in d

\* The variables hold what the generator keeps; a run has work only while it
\* writes.
ScaffoldTypeOK ==
  /\ run.pc \in {"idle", "writing", "done", "failed"}
  /\ run.opts \in AllOptions
  /\ run.todo # <<>> => run.pc = "writing"
  /\ run.conflicts \subseteq DOMAIN disk
  /\ Len(reports) <= MaxReports

\* No run changes or removes a file that exists, whatever its content, and no
\* report of an earlier run is lost (generate_new: "no modified file was
\* overwritten").
NothingOverwritten ==
  run.pc = "writing" =>
    /\ \A p \in DOMAIN disk : p \in DOMAIN disk' /\ disk'[p] = disk[p]
    /\ IsPrefix(reports, reports')

\* A report names exactly the selected files that existed with other content
\* when the run began.
ReportIsExact ==
  reports' # reports =>
    Last(reports') = {p \in DOMAIN run.files \cap DOMAIN before : before[p] # run.files[p]}

\* A run succeeds only on a product that is what its options render with the
\* manifest's ports: a file torn by an earlier crash, edited or rendered for
\* other ports never passes.
SuccessIsComplete ==
  run.pc = "done" =>
    \A p \in DOMAIN run.files :
      /\ Kept(p) /\ disk[p].by = "template"
      /\ p[1] \in {"mobile", "web"} => disk[p].offset = disk[Manifest].offset

\* Repeating a successful run adds nothing, if its platform migration, when it
\* has one, is in the manifest.
RepeatAddsNothing ==
  /\ run.pc = "done" /\ run.repeat
  /\ "platform" \in run.opts.caps => disk[Manifest].platform # 0
  => DOMAIN disk = DOMAIN before

\* When the manifest names the platform migration, no run adds another.
PlatformMigrationOnce ==
  \A p \in DOMAIN disk' \ DOMAIN disk :
    p[1] = "platform.sql" /\ run.pc = "writing" /\ Kept(Manifest) /\ disk[Manifest].platform # 0
      => p[2] = disk[Manifest].platform

\* What a run generates into an empty directory passes doctor.
FreshProductPasses == run.pc = "done" /\ before = NoFiles => DoctorAccepts
-----------------------------------------------------------------------------
(* The ports of a generated product: the manifest's offset and declarations, *)
(* the places that repeat them (compose, Makefile, clients, Vite, Keycloak), *)
(* and what `baukit doctor` accepts (cli/src/ports.rs, doctor_dev_ports.rs,  *)
(* lib.rs). Developers re-declare ports, edit places and re-render.          *)

CONSTANTS MaxPort, MaxOffset,     \* u16::MAX and the offsets tried
          MaxEdits                \* bound

VARIABLES manifest,   \* offset, declared hosts and the two lists
          places,     \* the port each place holds; 0: the place is absent
          edits, verdict

portsVars == <<manifest, places, edits, verdict>>

Base == "api" :> 1 @@ "keycloak" :> 2
Services == DOMAIN Base
DevServers == {"web", "metro"}
Default == "web" :> 4 @@ "metro" :> 0              \* Metro is not pinned
Names == Services \cup DevServers
Ports == 1..MaxPort
Manifests == [offset : 0..MaxOffset, host : [Names -> 0..MaxPort],     \* 0: not declared
              webExtra : {{}} \cup {{p} : p \in Ports}, keycloakExtra : {{}} \cup {{p} : p \in Ports}]

Declared(m, n) == m.host[n] # 0
\* PortConfiguration: the host of a service, or of a declared dev server.
Effective(m, n) ==
  IF Declared(m, n) THEN m.host[n] ELSE IF n \in Services THEN Base[n] + m.offset ELSE 0

\* validate_unique_hosts
Unique(m) ==
  /\ \A n, k \in Names : n # k /\ Effective(m, n) # 0 => Effective(m, n) # Effective(m, k)
  /\ (m.webExtra \cup m.keycloakExtra) \cap {Effective(m, n) : n \in Names} = {}
  /\ m.webExtra \cap m.keycloakExtra = {}

\* from_manifest: PortConfiguration::new shifts every service first.
Accepted(m) ==
  /\ \A n \in Services : Base[n] + m.offset <= MaxPort
  /\ m.webExtra # {} => Declared(m, "web")
  /\ Unique(m)

\* The rendered places: compose publishes, the clients' API address and the
\* issuer, Vite, a browser origin of the realm, the Expo scripts.
Places == {"compose.api", "compose.keycloak", "client.api", "client.issuer", "vite", "origin", "expo"}
Of(p) == CASE p \in {"compose.api", "client.api"} -> "api"
           [] p \in {"compose.keycloak", "client.issuer"} -> "keycloak"
           [] p \in {"vite", "origin"} -> "web"
           [] OTHER -> "metro"
PortsRendered(m) == [p \in Places |-> IF Effective(m, Of(p)) # 0 THEN Effective(m, Of(p)) ELSE Default[Of(p)]]

PortsInit ==
  /\ manifest = [offset |-> 0, host |-> [n \in Names |-> 0], webExtra |-> {}, keycloakExtra |-> {}]
  /\ places = PortsRendered(manifest)
  /\ edits = 0
  /\ verdict = "unknown"

Edited == edits < MaxEdits /\ edits' = edits + 1 /\ verdict' = "unknown"

\* The developer changes the manifest,
Redeclare ==
  /\ Edited
  /\ \/ \E o \in 0..MaxOffset : manifest' = [manifest EXCEPT !.offset = o]
     \/ \E n \in Names, h \in 0..MaxPort : manifest' = [manifest EXCEPT !.host[n] = h]
     \/ \E h \in Ports : manifest' = [manifest EXCEPT !.webExtra = {h}]
     \/ \E h \in Ports : manifest' = [manifest EXCEPT !.keycloakExtra = {h}]
  /\ UNCHANGED places
\* edits or removes a place,
EditPlace ==
  /\ Edited
  /\ \E p \in Places, h \in 0..MaxPort : places' = [places EXCEPT ![p] = h]
  /\ UNCHANGED manifest
\* or renders the manifest into an empty directory.
Render ==
  /\ Edited
  /\ Accepted(manifest)
  /\ places' = PortsRendered(manifest)
  /\ UNCHANGED manifest

\* doctor_dev_ports::browser_ports
BrowserPorts(m) == ({Effective(m, "web"), Effective(m, "metro")} \ {0}) \cup m.webExtra

\* check_vite, check_keycloak_origins, check_authorized_parties,
\* check_expo_scripts: a declared port is the one in the file, an origin one of
\* the browser ports; an absent file passes.
ViteAgrees(m) == places["vite"] \in {0, Effective(m, "web")}
OriginsAgree(m) == places["origin"] \in {0} \cup BrowserPorts(m)
ExpoAgrees(m) == places["expo"] \in {0, Effective(m, "metro")}

\* doctor_dev_ports::validate: declared dev servers only.
DevAgrees(m) ==
  /\ Declared(m, "web") => ViteAgrees(m) /\ OriginsAgree(m)
  /\ Declared(m, "metro") => ExpoAgrees(m)

\* Nothing to check: no offset, and only dev servers or extra issuers declared.
Unconfigured(m) == m.offset = 0 /\ \A n \in Services : ~Declared(m, n)
\* validate_compose_ports: the published host of a declared or shifted service.
ComposeAgrees(m) ==
  /\ places["compose.api"] = 0 \/ (Declared(m, "api") => places["compose.api"] = Effective(m, "api"))
  /\ places["compose.keycloak"] \in {0, Effective(m, "keycloak")}

\* has_mismatched_loopback_port: issuers may use an extra Keycloak port.
ClientsAgree(m) ==
  /\ places["client.api"] \in {0, Effective(m, "api")}
  /\ places["client.issuer"] \in {0, Effective(m, "keycloak")} \cup m.keycloakExtra

\* validate_port_configuration
Doctor ==
  /\ verdict = "unknown"
  /\ verdict' = IF /\ Accepted(manifest) /\ DevAgrees(manifest)
                   /\ Unconfigured(manifest) \/ (ComposeAgrees(manifest) /\ ClientsAgree(manifest))
                THEN "accepted" ELSE "rejected"
  /\ UNCHANGED <<manifest, places, edits>>

PortsNext == Redeclare \/ EditPlace \/ Render \/ Doctor

PortsSpec == PortsInit /\ [][PortsNext]_portsVars

\* The verdict is one of three; the places hold ports.
PortsTypeOK ==
  /\ manifest \in [offset : 0..MaxOffset, host : [Names -> 0..MaxPort],
                   webExtra : SUBSET Ports, keycloakExtra : SUBSET Ports]
  /\ places \in [Places -> 0..MaxPort]
  /\ verdict \in {"unknown", "accepted", "rejected"}

\* In an accepted product no two local servers or extra clients share a host
\* port, and no port is 0 or above the largest, however offset and
\* declarations combine.
HostsDistinct ==
  verdict = "accepted" =>
    /\ \A n, k \in Names : n # k => Effective(manifest, n) # Effective(manifest, k) \/ Effective(manifest, n) = 0
    /\ \A n \in Names : Effective(manifest, n) \notin manifest.webExtra \cup manifest.keycloakExtra
    /\ \A n \in Services : Effective(manifest, n) \in Ports

\* A product rendered for an accepted manifest passes doctor: the generator and
\* doctor agree about every place.
RenderedPasses == verdict = "rejected" /\ Accepted(manifest) => places # PortsRendered(manifest)

\* Doctor finds a place left behind by a change of the manifest, or edited:
\* once an offset or a service port is configured the clients follow the
\* services, a declared dev server has its port everywhere, and the realm
\* admits no origin that is not a declared browser port.
StalePlaceFound ==
  verdict = "accepted" =>
    /\ ~(manifest.offset = 0 /\ \A n \in Services : ~Declared(manifest, n)) =>
         /\ places["client.api"] \in {0, Effective(manifest, "api")}
         /\ places["client.issuer"] \in {0, Effective(manifest, "keycloak")} \cup manifest.keycloakExtra
         /\ places["compose.keycloak"] \in {0, Effective(manifest, "keycloak")}
    /\ Declared(manifest, "web") =>
         /\ places["vite"] \in {0, Effective(manifest, "web")}
         /\ places["origin"] \in {0, Effective(manifest, "web"), Effective(manifest, "metro")} \cup manifest.webExtra
==============================================================================
