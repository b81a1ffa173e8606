------------------------------ MODULE HostHome ------------------------------
(***************************************************************************)
(* The host home: the files rintawa keeps, crates/host/src/lib.rs,         *)
(* profile.rs, user_content.rs, world_catalog.rs, the stores of            *)
(* crates/artifacts and the creation of a database in crates/storage.      *)
(*                                                                         *)
(* Each file is replaced by writing a temporary one and renaming it, so a  *)
(* step of this module is one file appearing, changing or going.  What an  *)
(* operation does in one load, check and save is one action; an operation  *)
(* that writes twice leaves a job behind, whose next step a crash or an    *)
(* error may cut off.  One process uses a home at a time: a command of the *)
(* application, or a session in which the callbacks of components reach    *)
(* the home through LocalHostAccess, one at a time.                        *)
(***************************************************************************)
EXTENDS Naturals, Sequences, FiniteSets, SequencesExt

CONSTANTS
    Artifacts,      \* what can be imported: exact archives and raw assets
    Content,        \* of each artifact: "extension", "asset" or a content type
    Subject,        \* of each extension artifact: the logical extension
    Asks,           \* of each extension artifact: the permissions it requests
    Worlds,         \* world identities
    Baseline,       \* the scope of the host
    DefaultWorld,   \* the scope of the recipe of future worlds
    Contracts,      \* contracts a provider can be preferred for
    Keys,           \* keys of preferences
    Items,          \* user-content identities
    MaxPreferences, \* MAX_PREFERENCE_ENTRIES_PER_COMPONENT
    MaxWrites,      \* max_world_session_mutations_per_execution
    Negotiated,     \* bound: the permissions granted and revoked in a run
    MaxOperations,  \* bound on the operations begun
    MaxFaults       \* bound on the crashes and the errors of a file operation

Extensions == {a \in Artifacts : Content[a] = "extension"}
Documents == {a \in Artifacts : Content[a] \notin {"extension", "asset"}}
Subjects == {Subject[a] : a \in Extensions}
Scopes == {Baseline, DefaultWorld} \cup Worlds

ASSUME HomeAssumption ==
    /\ \A a \in Extensions : a \in DOMAIN Subject /\ a \in DOMAIN Asks
    /\ Baseline # DefaultWorld /\ {Baseline, DefaultWorld} \cap Worlds = {}
    /\ MaxPreferences \in Nat /\ MaxWrites \in Nat
    /\ MaxOperations \in Nat /\ MaxFaults \in Nat

VARIABLES
    stored,     \* the artifacts and assets in the content-addressed stores
    profiles,   \* the composition files: of the host, the recipe, the worlds
    dirs,       \* the world directories: how far the database is, the catalog's cover
    library,    \* the user content: of each item, its revision
    minted,     \* how many instance ids were generated
    used,       \* the world ids and content ids ever generated
    job,        \* the operation under way that has more to write
    process,    \* the process: what runs, with which permissions, in which callback
    begun,      \* how many operations were begun
    faults,     \* how many crashes and errors there were
    broken,     \* history: the worlds a crash or a failed removal left in parts
    legacy      \* history: the subjects a home of an older schema marks

files == <<stored, profiles, dirs, library>>
vars == <<files, minted, used, job, process, begun, faults, broken, legacy>>

-----------------------------------------------------------------------------
(* Composition profiles.                                                   *)

Put(f, x, y) == [z \in DOMAIN f \cup {x} |-> IF z = x THEN y ELSE f[z]]
Without(f, S) == [z \in DOMAIN f \ S |-> f[z]]

\* CompositionProfile::default: the profile of a file that is not there.
Empty == [acts |-> <<>>, grants |-> {}, preferred |-> <<>>, prefs |-> {}]
Load(s) == IF s \in DOMAIN profiles THEN profiles[s] ELSE Empty

Instances(acts) == {acts[x].id : x \in DOMAIN acts}

\* The policy entries that refer to instances of a set.
Keeping(p, ids) ==
    [p EXCEPT !.grants = {g \in @ : g[1] \in ids},
              !.prefs = {r \in @ : r[1] \in ids},
              !.preferred = [c \in {d \in DOMAIN @ : @[d] \in ids} |-> @[c]]]

\* materialize_matching: the activations of some subjects, and the policy that
\* refers to them, under new instance ids.
Materialized(p, S) ==
    LET order == SetToSeq(S)
        new == [x \in S |-> minted + (CHOOSE i \in 1..Len(order) : order[i] = x)]
        subject(id) == CHOOSE x \in S : p.acts[x].id = id
        q == Keeping(p, {p.acts[x].id : x \in S})
    IN [acts |-> [x \in S |-> [p.acts[x] EXCEPT !.id = new[x], !.marked = FALSE]],
        grants |-> {<<new[subject(g[1])], g[2]>> : g \in q.grants},
        preferred |-> [c \in DOMAIN q.preferred |-> new[subject(q.preferred[c])]],
        prefs |-> {<<new[subject(r[1])], r[2]>> : r \in q.prefs}]

Marked(p) == {x \in DOMAIN p.acts : p.acts[x].marked}
Unmarked(p) == [p EXCEPT !.acts = [x \in DOMAIN @ |-> [@[x] EXCEPT !.marked = FALSE]]]

\* The id under which an artifact is selected: the subject in the baseline,
\* elsewhere the one its subject has already or a new one.
SelectedId(s, p, x) ==
    IF s = Baseline THEN x
    ELSE IF x \in DOMAIN p.acts THEN p.acts[x].id
    ELSE minted + 1

\* Faulty: grants the new version does not ask for stay.
Selected_KeepsGrants(s, p, a, on) ==
    LET x == Subject[a]
        id == SelectedId(s, p, x)
        old == IF x \in DOMAIN p.acts THEN p.acts[x] ELSE [on |-> TRUE, marked |-> FALSE]
        act == [artifact |-> a, id |-> id, marked |-> old.marked,
                on |-> IF on = <<>> THEN old.on ELSE on[1]]
    IN [p EXCEPT !.acts = Put(@, x, act)]

\* upsert, and the grants of the instance that its new artifact still requests.
Selected(s, p, a, on) ==
    LET x == Subject[a]
        id == SelectedId(s, p, x)
        old == IF x \in DOMAIN p.acts THEN p.acts[x] ELSE [on |-> TRUE, marked |-> FALSE]
        act == [artifact |-> a, id |-> id, marked |-> old.marked,
                on |-> IF on = <<>> THEN old.on ELSE on[1]]
    IN [p EXCEPT !.acts = Put(@, x, act),
                 !.grants = {g \in @ : g[1] = id => g[2] \in Asks[a]}]

\* CompositionProfile::remove_activation.
Removed(p, x) ==
    LET rest == Without(p.acts, {x})
        gone == {p.acts[x].id}
    IN [acts |-> rest,
        grants |-> {g \in p.grants : g[1] \notin gone},
        preferred |-> Without(p.preferred, {c \in DOMAIN p.preferred : p.preferred[c] \in gone}),
        prefs |-> {r \in p.prefs : r[1] \notin gone}]

\* What set_world_default adds to the recipe: the policy of the baseline's
\* instance, for the recipe's.
WithPolicyOf(recipe, base, x) ==
    LET from == base.acts[x].id
        to == recipe.acts[x].id
        mine == {c \in DOMAIN base.preferred : base.preferred[c] = from}
    IN [recipe EXCEPT
          !.grants = @ \cup {<<to, g[2]>> : g \in {h \in base.grants : h[1] = from}},
          !.prefs = @ \cup {<<to, r[2]>> : r \in {h \in base.prefs : h[1] = from}},
          !.preferred = [c \in DOMAIN @ \cup mine |-> IF c \in mine THEN to ELSE @[c]]]

-----------------------------------------------------------------------------
(* The process and who may do what.                                        *)

NoJob == [op |-> "none"]
Nobody == <<>>
Off == [run |-> "off"]
Command == [run |-> "command"]      \* one command of the application

\* A session of the host: active worlds, permissions by scope and instance.
Session(live) ==
    [run |-> "session", active |-> {}, live |-> live, callback |-> Nobody, writes |-> 0]

Idle == job = NoJob
InCallback == process.run = "session" /\ process.callback # Nobody /\ Idle
InCommand == process.run = "command" /\ Idle

\* The component whose callback runs has this permission, by the policy that
\* was in force when its composition was activated.
Holds(permission) == InCallback /\ permission \in process.live[process.callback]

Begin == begun < MaxOperations /\ begun' = begun + 1

\* Databases SqliteWorldStorage::open takes, completing their migration.
Openable(w) == w \in DOMAIN dirs /\ dirs[w].db \in {"named", "v2", "v3"}
Reachable(s) == s \in {Baseline, DefaultWorld} \/ Openable(s)

\* Every operation on the composition of a world opens its database first.
Opened(s) == IF s \in DOMAIN dirs THEN [dirs EXCEPT ![s].db = "v3"] ELSE dirs

Save(s, p) ==
    /\ profiles' = Put(profiles, s, p)
    /\ dirs' = Opened(s)

Init ==
    /\ stored = {} /\ dirs = <<>> /\ library = <<>>
    /\ profiles = <<>>
    /\ minted = 0 /\ used = {} /\ job = NoJob /\ process = Off
    /\ begun = 0 /\ faults = 0 /\ broken = {} /\ legacy = {}

\* A home an earlier release wrote: extensions installed and approved, some of
\* them marked as the default of new worlds.
LegacyInit(acts) ==
    /\ stored = {acts[x].artifact : x \in DOMAIN acts}
    /\ profiles = [s \in {Baseline} |->
           [Empty EXCEPT !.acts = acts,
                         !.grants = UNION {{x} \X Asks[acts[x].artifact] : x \in DOMAIN acts}]]
    /\ dirs = <<>> /\ library = <<>>
    /\ minted = 0 /\ used = {} /\ job = NoJob /\ process = Off
    /\ begun = 0 /\ faults = 0 /\ broken = {}
    /\ legacy = {x \in DOMAIN acts : acts[x].marked}

-----------------------------------------------------------------------------
(* Opening a home, sessions and callbacks.                                 *)

ids == <<minted, used>>
past == <<faults, broken, legacy>>

\* Faulty: the marks go before what they stand for is written.
MigrationWrite_ClearsFirst(base) ==
    IF Marked(Load(Baseline)) # {} THEN Save(Baseline, Unmarked(base))
    ELSE Save(DefaultWorld, Materialized(base, Marked(base)))

\* One of the two writes of migrate_legacy_world_defaults: a recipe that is
\* there already is kept.
MigrationWrite(base) ==
    IF DefaultWorld \notin DOMAIN profiles
    THEN Save(DefaultWorld, Materialized(base, Marked(base)))
    ELSE Save(Baseline, Unmarked(base))

\* HostHome::open.  Within a process nothing is marked again, so opening the
\* home once more for each call of a component changes nothing.
OpenHome ==
    /\ process = Off /\ Idle
    /\ process' = Command
    /\ job' = IF Marked(Load(Baseline)) = {} THEN NoJob
              ELSE [op |-> "migrate", base |-> Load(Baseline),
                    left |-> IF DefaultWorld \in DOMAIN profiles THEN 1 ELSE 2]
    /\ UNCHANGED <<files, ids, begun, past>>

Migrate ==
    /\ job.op = "migrate"
    /\ MigrationWrite(job.base)
    /\ minted' = minted + Cardinality(Marked(job.base))
    /\ job' = IF job.left = 1 THEN NoJob ELSE [job EXCEPT !.left = 1]
    /\ UNCHANGED <<stored, library, used, process, begun, past>>

\* What activate_composition needs of a profile: exact artifacts it can load, and
\* grants their manifests request.
Startable(p) ==
    \A x \in DOMAIN p.acts : p.acts[x].on =>
        /\ p.acts[x].artifact \in stored
        /\ \A g \in p.grants : g[1] = p.acts[x].id => g[2] \in Asks[p.acts[x].artifact]

\* The permissions of the components of a composition, for as long as it runs.
Approved(s) ==
    LET p == Load(s) IN
    [o \in {<<s, p.acts[x].id>> : x \in {y \in DOMAIN p.acts : p.acts[y].on}} |->
        {g[2] : g \in {h \in p.grants : h[1] = o[2]}}]

RunHost ==
    /\ InCommand
    /\ process' = IF Startable(Load(Baseline)) THEN Session(Approved(Baseline)) ELSE Off
    /\ UNCHANGED <<files, ids, job, begun, past>>

Between == process.run = "session" /\ process.callback = Nobody /\ Idle

ActivateWorld(w) ==
    /\ Between /\ w \notin process.active
    /\ Openable(w) /\ Startable(Load(w))
    /\ process' = [process EXCEPT !.active = @ \cup {w}, !.live = @ @@ Approved(w)]
    /\ dirs' = Opened(w)
    /\ UNCHANGED <<stored, profiles, library, ids, job, begun, past>>

DeactivateWorld(w) ==
    /\ Between /\ w \in process.active
    /\ process' = [process EXCEPT !.active = @ \ {w},
                                  !.live = Without(@, {o \in DOMAIN @ : o[1] = w})]
    /\ UNCHANGED <<files, ids, job, begun, past>>

\* begin_guest_execution and its end.
Callback(o) ==
    /\ Between /\ o \in DOMAIN process.live
    /\ process' = [process EXCEPT !.callback = o, !.writes = 0]
    /\ UNCHANGED <<files, ids, job, begun, past>>

Return ==
    /\ InCallback
    /\ process' = [process EXCEPT !.callback = Nobody, !.writes = 0]
    /\ UNCHANGED <<files, ids, job, begun, past>>

Exit ==
    /\ InCommand \/ Between
    /\ process' = Off
    /\ UNCHANGED <<files, ids, job, begun, past>>

-----------------------------------------------------------------------------
(* Compositions and policy.                                                *)

\* open_artifact and read_stored_manifest.
Available(a) == a \in Extensions \cap stored

Done == job' = NoJob /\ UNCHANGED <<stored, library, process, used, past>>
Rewrite(s, p) == Begin /\ Reachable(s) /\ Save(s, p) /\ Done

\* install_local_rtw: the content is looked at before the bytes are published.
InstallLocal(a, on) ==
    /\ Begin
    /\ a \in Extensions
    /\ stored' = stored \cup {a}
    /\ job' = [op |-> "select", artifact |-> a, on |-> on]
    /\ UNCHANGED <<profiles, dirs, library, ids, process, past>>

InstallSelect ==
    /\ job.op = "select" /\ Available(job.artifact)
    /\ Save(Baseline, Selected(Baseline, Load(Baseline), job.artifact, job.on))
    /\ Done /\ UNCHANGED <<minted, begun>>

Minted(s, x) == minted' = IF SelectedId(s, Load(s), x) = minted + 1 THEN minted + 1 ELSE minted

SelectArtifact(s, a, on) ==
    /\ Available(a)
    /\ Rewrite(s, Selected(s, Load(s), a, on))
    /\ Minted(s, Subject[a])

SetEnabled(s, x, on) ==
    /\ x \in DOMAIN Load(s).acts
    /\ Rewrite(s, [Load(s) EXCEPT !.acts[x].on = on])
    /\ UNCHANGED minted

RemoveActivation(s, x) ==
    /\ x \in DOMAIN Load(s).acts
    /\ Rewrite(s, Removed(Load(s), x))
    /\ UNCHANGED minted

\* set_world_default: on selects the baseline's artifact in the recipe and, when
\* it was not there, goes on to copy its policy.
SetWorldDefault(x, on) ==
    LET base == Load(Baseline)
        recipe == Load(DefaultWorld)
        a == base.acts[x].artifact
    IN /\ x \in DOMAIN base.acts
       /\ Begin
       /\ IF on
          THEN /\ Available(a)
               /\ Save(DefaultWorld, Selected(DefaultWorld, recipe, a, <<TRUE>>))
               /\ Minted(DefaultWorld, x)
               /\ job' = IF x \in DOMAIN recipe.acts THEN NoJob
                         ELSE [op |-> "policy", base |-> base, subject |-> x]
          ELSE /\ x \in DOMAIN recipe.acts
               /\ Save(DefaultWorld, Removed(recipe, x))
               /\ job' = NoJob /\ UNCHANGED minted
       /\ UNCHANGED <<stored, library, used, process, past>>

CopyPolicy ==
    /\ job.op = "policy"
    /\ Save(DefaultWorld, WithPolicyOf(Load(DefaultWorld), job.base, job.subject))
    /\ Done /\ UNCHANGED <<minted, begun>>

\* The exact stored manifest requests the permission.
Requested(a, permission) == permission \in Asks[a]

Grant(s, id, permission) ==
    /\ \E x \in DOMAIN Load(s).acts :
          /\ Load(s).acts[x].id = id
          /\ Available(Load(s).acts[x].artifact)
          /\ Requested(Load(s).acts[x].artifact, permission)
    /\ Rewrite(s, [Load(s) EXCEPT !.grants = @ \cup {<<id, permission>>}])
    /\ UNCHANGED minted

Revoke(s, id, permission) ==
    /\ <<id, permission>> \in Load(s).grants
    /\ Rewrite(s, [Load(s) EXCEPT !.grants = @ \ {<<id, permission>>}])
    /\ UNCHANGED minted

SetPreferredProvider(s, c, id) ==
    /\ id \in Instances(Load(s).acts)
    /\ Rewrite(s, [Load(s) EXCEPT !.preferred = Put(@, c, id)])
    /\ UNCHANGED minted

ClearPreferredProvider(s, c) ==
    /\ c \in DOMAIN Load(s).preferred
    /\ Rewrite(s, [Load(s) EXCEPT !.preferred = Without(@, {c})])
    /\ UNCHANGED minted

\* validate_preference_owner_quota, by the entries there are.
QuotaAllows(own, entry) == entry \in own \/ Cardinality(own) < MaxPreferences

\* That the owner is still installed is not asked.
SetPreference(s, id, key) ==
    /\ QuotaAllows({r \in Load(s).prefs : r[1] = id}, <<id, key>>)
    /\ Rewrite(s, [Load(s) EXCEPT !.prefs = @ \cup {<<id, key>>}])
    /\ UNCHANGED minted

DeletePreference(s, id, key) ==
    /\ Rewrite(s, [Load(s) EXCEPT !.prefs = @ \ {<<id, key>>}])
    /\ UNCHANGED minted

-----------------------------------------------------------------------------
(* Worlds.                                                                 *)

\* What a callback may still change of the worlds; the application is not bounded.
Spend ==
    IF process.run = "session"
    THEN process.writes < MaxWrites /\ process' = [process EXCEPT !.writes = @ + 1]
    ELSE UNCHANGED process

\* create_world: a recipe that cannot be read makes no directory.
CreateWorld(w) ==
    /\ w \notin used
    /\ Begin /\ Spend
    /\ used' = used \cup {w}
    /\ dirs' = Put(dirs, w, [db |-> "none", catalog |-> FALSE, cover |-> <<>>])
    /\ job' = [op |-> "create", world |-> w, recipe |-> Load(DefaultWorld)]
    /\ UNCHANGED <<stored, profiles, library, minted, past>>

\* SqliteWorldStorage::create: the file, then a transaction for each version of
\* the schema, and the row of the metadata by itself after the first.
Stages == <<"none", "file", "tables", "named", "v2", "v3">>
NextStage(db) == Stages[1 + CHOOSE i \in 1..5 : Stages[i] = db]

CreateStep ==
    /\ job.op = "create"
    /\ LET w == job.world IN
       CASE dirs[w].db # "v3" ->
              /\ dirs' = [dirs EXCEPT ![w].db = NextStage(@)]
              /\ UNCHANGED <<profiles, minted, job>>
         [] dirs[w].db = "v3" /\ ~dirs[w].catalog ->
              /\ dirs' = [dirs EXCEPT ![w].catalog = TRUE]
              /\ UNCHANGED <<profiles, minted, job>>
         [] OTHER ->
              /\ Save(w, Materialized(job.recipe, DOMAIN job.recipe.acts))
              /\ minted' = minted + Cardinality(DOMAIN job.recipe.acts)
              /\ job' = NoJob
    /\ UNCHANGED <<stored, library, used, process, begun, past>>

AfterCreateError_Nothing == NoJob   \* Faulty: what was made stays

\* A creation that fails removes what it made.
AfterCreateError == [op |-> "undo", world |-> job.world]

CreateFails ==
    /\ job.op = "create" /\ faults < MaxFaults
    /\ job' = AfterCreateError
    /\ faults' = faults + 1
    /\ UNCHANGED <<files, ids, process, begun, broken, legacy>>

\* delete_world, of a database that opens and a world that is not active.
DeleteWorld(w) ==
    /\ Openable(w) /\ w \notin process.active
    /\ Begin /\ Spend
    /\ job' = [op |-> "delete", world |-> w]
    /\ dirs' = Opened(w)
    /\ UNCHANGED <<stored, profiles, library, ids, past>>

\* remove_dir_all: the entries in any order, then the directory.
RemoveEntry ==
    /\ job.op \in {"undo", "delete"}
    /\ LET w == job.world IN
       \/ /\ dirs[w].db # "none"
          /\ dirs' = [dirs EXCEPT ![w].db = "none"]
          /\ UNCHANGED <<profiles, job>>
       \/ /\ dirs[w].catalog
          /\ dirs' = [dirs EXCEPT ![w].catalog = FALSE, ![w].cover = <<>>]
          /\ UNCHANGED <<profiles, job>>
       \/ /\ w \in DOMAIN profiles
          /\ profiles' = Without(profiles, {w})
          /\ UNCHANGED <<dirs, job>>
       \/ /\ dirs[w].db = "none" /\ ~dirs[w].catalog /\ w \notin DOMAIN profiles
          /\ dirs' = Without(dirs, {w})
          /\ job' = NoJob
          /\ UNCHANGED profiles
    /\ UNCHANGED <<stored, library, ids, process, begun, past>>

\* list_worlds gives a world without a catalog one; the first directory whose
\* database does not open fails it.
ListWorlds(w) ==
    /\ \A v \in DOMAIN dirs : Openable(v)
    /\ w \in DOMAIN dirs /\ ~dirs[w].catalog
    /\ dirs' = [dirs EXCEPT ![w].catalog = TRUE]
    /\ UNCHANGED <<stored, profiles, library, ids, job, process, begun, past>>

\* update_world_catalog_metadata, with a cover that must be stored.
SetMetadata(w, cover) ==
    /\ Openable(w)
    /\ \A i \in DOMAIN cover : cover[i] \in stored /\ Content[cover[i]] = "asset"
    /\ Begin /\ Spend
    /\ dirs' = [dirs EXCEPT ![w] = [db |-> "v3", catalog |-> TRUE, cover |-> cover]]
    /\ UNCHANGED <<stored, profiles, library, ids, job, past>>

-----------------------------------------------------------------------------
(* Imports and user content.                                               *)

ImportArtifact(a) ==
    /\ Begin
    /\ a \notin stored /\ stored' = stored \cup {a}
    /\ UNCHANGED <<profiles, dirs, library, ids, job, process, past>>

\* import_user_content_rtw, which needs a session also for a command.  The handler
\* of the content type has accepted the descriptor before the bytes are stored.
ImportContent(i, a) ==
    /\ Between
    /\ a \in Documents
    /\ i \notin used /\ used' = used \cup {i}
    /\ Begin
    /\ stored' = stored \cup {a}
    /\ job' = [op |-> "content", id |-> i, revision |-> a]
    /\ UNCHANGED <<profiles, dirs, library, minted, process, past>>

\* The type of an item never changes.
SameContent(i, a) == Content[a] = library[i].content

ReplaceContent(i, a) ==
    /\ Between
    /\ a \in Documents
    /\ i \in DOMAIN library /\ SameContent(i, a)
    /\ Begin
    /\ stored' = stored \cup {a}
    /\ job' = [op |-> "content", id |-> i, revision |-> a]
    /\ UNCHANGED <<profiles, dirs, library, ids, process, past>>

\* insert_ or replace_user_content_revision; a replacement keeps the entry's type.
IndexContent ==
    /\ job.op = "content"
    /\ LET i == job.id
           type == IF i \in DOMAIN library THEN library[i].content ELSE Content[job.revision]
       IN library' = Put(library, i, [content |-> type, revision |-> job.revision])
    /\ job' = NoJob
    /\ UNCHANGED <<stored, profiles, dirs, ids, process, begun, past>>

RemoveContent(i) ==
    /\ i \in DOMAIN library /\ Begin
    /\ library' = Without(library, {i})
    /\ UNCHANGED <<stored, profiles, dirs, ids, job, process, past>>

-----------------------------------------------------------------------------
(* LocalHostAccess: what the host does for components, by interface.       *)

Enabling == {<<>>, <<TRUE>>, <<FALSE>>}

CompositionAccess(s) ==
    \/ \E a \in Artifacts, on \in Enabling : SelectArtifact(s, a, on)
    \/ \E x \in Subjects :
          \/ RemoveActivation(s, x)
          \/ \E on \in BOOLEAN : SetEnabled(s, x, on) \/ (s = Baseline /\ SetWorldDefault(x, on))
    \/ \E c \in Contracts :
          \/ ClearPreferredProvider(s, c)
          \/ \E id \in Instances(Load(s).acts) : SetPreferredProvider(s, c, id)

RuntimePolicyAccess(s) ==
    \E id \in Instances(Load(s).acts), permission \in Negotiated :
        Grant(s, id, permission) \/ Revoke(s, id, permission)

PreferenceAccess(s, id) ==
    \E key \in Keys : SetPreference(s, id, key) \/ DeletePreference(s, id, key)

WorldSessionAccess ==
    \E w \in Worlds :
        \/ CreateWorld(w) \/ DeleteWorld(w)
        \/ \E cover \in {<<>>} \cup {<<a>> : a \in Artifacts} : SetMetadata(w, cover)

StoreAccess(contents) == \E a \in {b \in Artifacts : Content[b] \in contents} : ImportArtifact(a)

-----------------------------------------------------------------------------
(* Who may call them: the control plane of a WASM component, and the       *)
(* commands of the application.                                            *)

\* CompositionHost, and ScopedCompositionHost, which names the scope.
GuestComposition == Holds("composition-write") /\ CompositionAccess(Baseline)

GuestScopedComposition == Holds("composition-write") /\ \E s \in Scopes : CompositionAccess(s)

GuestRuntimePolicy == Holds("runtime-policy-write") /\ \E s \in Scopes : RuntimePolicyAccess(s)

\* A component's preferences are its own and take no permission.
GuestPreferences == InCallback /\ PreferenceAccess(process.callback[1], process.callback[2])

GuestWorldSessions ==
    \/ Holds("world-session-write") /\ WorldSessionAccess
    \/ Holds("world-session-read") /\ \E w \in Worlds : ListWorlds(w)

GuestImports ==
    \/ Holds("asset-import") /\ StoreAccess({"asset"})
    \/ Holds("artifact-import") /\ StoreAccess({Content[a] : a \in Artifacts} \ {"asset"})

\* The application changes no composition but the baseline, and policy anywhere.
Application ==
    /\ InCommand
    /\ \/ \E a \in Extensions, on \in {<<>>, <<FALSE>>} : InstallLocal(a, on)
       \/ \E x \in Subjects, on \in BOOLEAN : SetEnabled(Baseline, x, on) \/ SetWorldDefault(x, on)
       \/ \E s \in Scopes : RuntimePolicyAccess(s)
       \/ \E i \in DOMAIN library : RemoveContent(i)
       \/ \E w \in Worlds : CreateWorld(w) \/ ListWorlds(w)

-----------------------------------------------------------------------------
(* Faults.                                                                 *)

Cut == IF job.op \in {"create", "undo", "delete"} THEN {job.world} ELSE {}

\* The process dies: what is written stays, what is half done stays half done.
Crash ==
    /\ process # Off /\ faults < MaxFaults
    /\ faults' = faults + 1
    /\ broken' = broken \cup Cut
    /\ process' = Off /\ job' = NoJob
    /\ UNCHANGED <<files, ids, begun, legacy>>

\* The second write of an operation fails, or a removal: an error is returned,
\* and the first stands.  A migration that fails keeps the home from opening.
WriteFails ==
    /\ job.op \notin {"none", "create"} /\ faults < MaxFaults
    /\ faults' = faults + 1
    /\ broken' = broken \cup Cut
    /\ process' = IF job.op = "migrate" THEN Off ELSE process
    /\ job' = NoJob
    /\ UNCHANGED <<files, ids, begun, legacy>>

NextProcess ==
    \/ OpenHome \/ Migrate \/ RunHost \/ Return \/ Exit \/ Crash \/ WriteFails
    \/ \E w \in Worlds : ActivateWorld(w) \/ DeactivateWorld(w)
    \/ process.run = "session" /\ \E o \in DOMAIN process.live : Callback(o)

NextCall ==
    \/ GuestComposition \/ GuestScopedComposition \/ GuestRuntimePolicy
    \/ GuestPreferences \/ GuestWorldSessions \/ GuestImports \/ Application

NextFiles ==
    \/ InstallSelect \/ CopyPolicy
    \/ CreateStep \/ CreateFails \/ RemoveEntry \/ IndexContent
    \/ \E i \in Items, a \in Documents : ImportContent(i, a) \/ ReplaceContent(i, a)

Next == NextProcess \/ NextCall \/ NextFiles

Spec == Init /\ [][Next]_vars

-----------------------------------------------------------------------------
(* Properties.                                                             *)

\* Approvals never outlive what they approve: in every stored composition a grant
\* belongs to an installed instance and is one its exact artifact requests, and a
\* preferred provider is installed.  One grant of another kind keeps the whole
\* composition from starting (grant_requested_runtime_permission_for_instance).
PolicyIsGrounded ==
    \A s \in DOMAIN profiles :
        LET p == profiles[s] IN
        /\ \A g \in p.grants : \E x \in DOMAIN p.acts :
              p.acts[x].id = g[1] /\ g[2] \in Asks[p.acts[x].artifact]
        /\ \A c \in DOMAIN p.preferred : p.preferred[c] \in Instances(p.acts)

\* A crash in the migration of an older home loses no default of new worlds: the
\* marks of the baseline are there until the recipe is.
MarksOutliveMigration ==
    legacy # {} => Marked(Load(Baseline)) # {} \/ DefaultWorld \in DOMAIN profiles

\* A creation that failed leaves nothing: a world that no crash and no failed
\* removal touched has a database that opens, a catalog and its composition, or
\* it has no directory.
WorldsAreWhole ==
    \A w \in (Worlds \ broken) \ Cut :
        /\ w \in DOMAIN dirs <=> w \in DOMAIN profiles
        /\ w \in DOMAIN dirs => dirs[w].db = "v3" /\ dirs[w].catalog
=============================================================================
