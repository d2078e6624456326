----------------------------- MODULE Connections -----------------------------
(***************************************************************************)
(* Which project a repository belongs to: the machine's registry, the       *)
(* config each repository carries, the stores under the Nauro home, and the *)
(* commands that change the three (nauro init, adopt, attach, link,         *)
(* reconnect, projects rm), run by several processes at once.               *)
(*                                                                         *)
(* Each change of the registry is one step, under the registry's lock. What *)
(* a command checked before is not under it. A migration guard per store    *)
(* excludes the commands that take it, not init's or adopt's new projects.  *)
(***************************************************************************)
EXTENDS Naturals, Sequences, SequencesExt, FiniteSetsExt

CONSTANTS Procs, Repos, Names,
          Parent,            \* the repository a repository lies in, or "none"
          MaxId,             \* bound: projects created
          MaxHands,          \* bound: configs edited by hand, cloud renames
          Commands           \* the commands each process runs

ASSUME Places ==
  /\ Parent \in [Repos -> Repos \union {"none"}] /\ "none" \notin Repos
  /\ MaxId \in Nat /\ MaxHands \in Nat /\ "nobody" \notin Procs

Ids == 1 .. MaxId
Modes == {"local", "cloud"}
NoConfig == [id |-> 0, name |-> "none", mode |-> "absent"]
Broken == [NoConfig EXCEPT !.mode = "broken"]
Config(i, n, m) == [id |-> i, name |-> n, mode |-> m]
NoEntry == [id |-> 0, name |-> "none", mode |-> "none", repos |-> {}]
NoTask == [cmd |-> "none", at |-> "idle", repo |-> "none", id |-> 0, old |-> 0,
           name |-> "none", seen |-> NoEntry, purge |-> FALSE]
Nobody == "nobody"
Renamed == "renamed"       \* a name given on the server

VARIABLES
  registry,   \* the registry's entries, in file order
  configs,    \* the config file of each repository
  stores,     \* the store of each project under the home: none, empty or full
  cloud,      \* the server's projects: their name, and whether files were pushed
  guard,      \* who holds each store's migration guard
  task,       \* the command each process runs
  minted,     \* project ids given out
  hands,      \* edits made by hand so far
  disturbed   \* "yes": a config was edited by hand, or a command met another's middle
              \* or died; "rebound": no more than a link that left repositories
              \* behind, or an add forced over another project's config

nvars == <<registry, configs, stores, cloud, guard, task, minted, hands, disturbed>>

NoCloud == [name |-> "none", full |-> FALSE]

NInit ==
  /\ registry = <<>>
  /\ configs = [r \in Repos |-> NoConfig]
  /\ stores = [i \in Ids |-> "none"]
  /\ cloud = [i \in Ids |-> NoCloud]
  /\ guard = [i \in Ids |-> Nobody]
  /\ task = [p \in Procs |-> NoTask]
  /\ minted = 0 /\ hands = 0 /\ disturbed = "no"

(***************************************************************************)
(* Reading the registry and the configs.                                   *)
(***************************************************************************)
Entries == ToSet(registry)
Registered(i) == \E e \in Entries : e.id = i
EntryOf(i) == IF Registered(i) THEN CHOOSE e \in Entries : e.id = i ELSE NoEntry
Named(n) == {e \in Entries : e.name = n}
HasStore(i) == stores[i] # "none"

(* A path and the repositories it lies in.                                   *)
Above(r) == {r} \union (IF Parent[r] = "none" THEN {} ELSE {Parent[r]})

(* The first entry, in file order, that lists the path or one above it.      *)
Claims(r) == {k \in DOMAIN registry : registry[k].repos \intersect Above(r) # {}}
FirstClaim(r) == registry[Min(Claims(r))]
ClaimedBy(r) == IF Claims(r) = {} THEN 0 ELSE FirstClaim(r).id

Present(r) == configs[r].mode # "absent"
Valid(r) == configs[r].mode \in Modes
(* The nearest config on the way up, whatever it holds.                      *)
FoundAt(r) == IF Present(r) \/ Parent[r] = "none" THEN r ELSE Parent[r]

(***************************************************************************)
(* Resolution of a handle (an id, a name, or none) and a directory.         *)
(***************************************************************************)
NoHandle == [id |-> 0, name |-> "none"]
Handles == {NoHandle} \union [id : Ids, name : {"none"}] \union [id : {0}, name : Names \union {Renamed}]
Given(h) == h # NoHandle
MeansOther(h, i) == Given(h) /\ h.id # i

Answer(kind, i) == [kind |-> kind, id |-> i]
Disconnected(i) == Answer("disconnected", i)

(* An entry's store is used where it is; it must exist.                       *)
Bound(e) == IF HasStore(e.id) THEN Answer("store", e.id) ELSE Disconnected(e.id)
Contradicts(e, c) == e.name # c.name \/ e.mode # c.mode

ConnectionFor(c) ==
  LET e == EntryOf(c.id)
  IN IF e = NoEntry \/ Contradicts(e, c) THEN Disconnected(c.id) ELSE Bound(e)

(* The lenient order of resolve_store: config, handle, path.                  *)
ResolveByHandle(handle) ==
  IF handle.id # 0
  THEN IF Registered(handle.id) THEN Bound(EntryOf(handle.id)) ELSE Answer("unknown", 0)
  ELSE LET named == Named(handle.name)
       IN IF named = {} THEN Answer("unknown", 0)
          ELSE IF \E e \in named : named = {e} THEN Bound(CHOOSE e \in named : TRUE)
          ELSE Answer("ambiguous", 0)

ResolveHandleFirst(handle, cwd) ==
  IF Given(handle) THEN ResolveByHandle(handle)
  ELSE IF Valid(FoundAt(cwd)) THEN ConnectionFor(configs[FoundAt(cwd)])
  ELSE IF Claims(cwd) # {} THEN Bound(FirstClaim(cwd))
  ELSE Answer("none", 0)

ResolveStore(handle, cwd) ==
  LET r == FoundAt(cwd)
      c == configs[r]
  IN IF Valid(r)
     THEN IF MeansOther(handle, c.id) /\ ~ \E e \in Named(handle.name) : e.id = c.id
          THEN Answer("mismatch", 0) ELSE ConnectionFor(c)
     ELSE IF Given(handle) THEN ResolveByHandle(handle)
     ELSE IF Claims(cwd) # {} THEN Bound(FirstClaim(cwd))
     ELSE Answer("none", 0)

(* The strict order of resolve_project_binding refuses a registry in which two *)
(* projects list one path, and a config it cannot read.                         *)
TwoOwners == \E e, f \in Entries : e.id # f.id /\ e.repos \intersect f.repos # {}

ResolveBinding(handle, cwd) ==
  LET r == FoundAt(cwd)
      c == configs[r]
      e == EntryOf(c.id)
      owners == {f \in Entries : f.repos \intersect Above(cwd) # {}}
  IN IF TwoOwners \/ configs[r].mode = "broken" THEN Answer("refused", 0)
     ELSE IF Valid(r)
     THEN IF /\ MeansOther(handle, c.id)
             /\ (Registered(handle.id) \/ e = NoEntry \/ e.name # handle.name)
          THEN Answer("mismatch", 0)
          ELSE IF e = NoEntry \/ Contradicts(e, c) THEN Disconnected(c.id) ELSE Bound(e)
     ELSE IF Given(handle) THEN ResolveByHandle(handle)
     ELSE IF \E f \in owners : owners = {f} THEN Bound(CHOOSE f \in owners : TRUE)
     ELSE Answer(IF owners = {} THEN "none" ELSE "ambiguous", 0)

(***************************************************************************)
(* The shape of every command: it begins, moves on, ends by leaving.        *)
(***************************************************************************)
Start(p, t) ==
  /\ t.cmd \in Commands[p] /\ task[p] = NoTask
  /\ task' = [task EXCEPT ![p] = t]
  /\ disturbed' = IF \A q \in Procs : task[q] = NoTask THEN disturbed ELSE "yes"
Begin(p, cmd, at, r, i, n) ==
  Start(p, [NoTask EXCEPT !.cmd = cmd, !.at = at, !.repo = r, !.id = i, !.name = n])
At(p, cmds, at) == task[p].cmd \in cmds /\ task[p].at = at
Goto(p, at) == task' = [task EXCEPT ![p].at = at]
FreeGuards(p) == guard' = [i \in Ids |-> IF guard[i] = p THEN Nobody ELSE guard[i]]
Leave(p) == task' = [task EXCEPT ![p] = NoTask] /\ FreeGuards(p)
Same(p) == UNCHANGED <<hands, disturbed>>

(* The guard is waited for, ten seconds at most: who does not get it leaves.   *)
Acquire(p, i, at) ==
  IF guard[i] \in {Nobody, p}
  THEN guard' = [guard EXCEPT ![i] = p] /\ Goto(p, at)
  ELSE Leave(p)

(***************************************************************************)
(* Registry operations, each under the registry's lock.                     *)
(***************************************************************************)
Replace(i, e) == registry' = [k \in DOMAIN registry |-> IF registry[k].id = i THEN e ELSE registry[k]]
Without(i) ==
  IF Registered(i) THEN RemoveAt(registry, CHOOSE k \in DOMAIN registry : registry[k].id = i)
  ELSE registry
RegisterProject(i, n, m, r) ==
  /\ registry' = Append(registry, [id |-> i, name |-> n, mode |-> m, repos |-> {r}])
  /\ stores' = [stores EXCEPT ![i] = "empty"]
AddRepo(i, r) == Replace(i, [EntryOf(i) EXCEPT !.repos = @ \union {r}])
RemoveRepo(i, r) == Replace(i, [EntryOf(i) EXCEPT !.repos = @ \ {r}])

(* Binding an attached or restored store takes the cloud's name.               *)
CanBind(i) == ~Registered(i) \/ EntryOf(i).mode = "cloud"
BindStore(i, n, r) ==
  IF Registered(i) THEN Replace(i, [EntryOf(i) EXCEPT !.name = n, !.repos = @ \union {r}])
  ELSE registry' = Append(registry, [id |-> i, name |-> n, mode |-> "cloud", repos |-> {r}])

(***************************************************************************)
(* nauro init and nauro adopt: a new project.                               *)
(***************************************************************************)
(* Init refuses a repository that carries another project's config, unless     *)
(* forced, and one that a registered project already claims.                    *)
ConfigAllows(r, i, force) == ~Valid(r) \/ configs[r].id = i \/ force
UnclaimedUnchecked(r, i) == TRUE
Unclaimed(r, i) == ClaimedBy(r) \in {0, i}

InitCheck(p, r, n, m, force) ==
  /\ ConfigAllows(r, 0, force) /\ Unclaimed(r, 0)
  /\ minted < MaxId
  /\ Begin(p, "init", IF m = "cloud" THEN "create" ELSE "register", r, 0, n)
  /\ UNCHANGED <<registry, configs, stores, cloud, guard, minted, hands>>

(* Adopt looks at the config file and the name, not at who claims the path.    *)
AdoptCheck(p, r, n) ==
  /\ ~Present(r)
  /\ \A e \in Named(n) : r \in e.repos
  /\ minted < MaxId
  /\ Begin(p, "adopt", "register", r, 0, n)
  /\ UNCHANGED <<registry, configs, stores, cloud, guard, minted, hands>>

(* The server mints the id of a cloud project, for init and for link.           *)
CreateProject(p) ==
  /\ At(p, {"init", "link"}, "create")
  /\ IF minted < MaxId
     THEN /\ minted' = minted + 1
          /\ cloud' = [cloud EXCEPT ![minted'] = [name |-> task[p].name, full |-> FALSE]]
          /\ IF task[p].cmd = "init"
             THEN /\ task' = [task EXCEPT ![p].id = minted', ![p].at = "register"]
                  /\ UNCHANGED guard
             ELSE IF guard[minted'] \in {Nobody, p}
             THEN /\ task' = [task EXCEPT ![p].id = minted', ![p].at = "move"]
                  /\ guard' = [guard EXCEPT ![minted'] = p]
             ELSE Leave(p)
     ELSE Leave(p) /\ UNCHANGED <<cloud, minted>>
  /\ UNCHANGED <<registry, configs, stores>> /\ Same(p)

(* An id the registry holds already is refused: someone attached it since.     *)
Register(p) ==
  /\ At(p, {"init", "adopt"}, "register")
  /\ IF task[p].id # 0 /\ ~Registered(task[p].id)
     THEN /\ RegisterProject(task[p].id, task[p].name, "cloud", task[p].repo)
          /\ Goto(p, "config") /\ UNCHANGED <<guard, minted>>
     ELSE IF task[p].id = 0 /\ minted < MaxId
     THEN /\ minted' = minted + 1
          /\ RegisterProject(minted', task[p].name, "local", task[p].repo)
          /\ task' = [task EXCEPT ![p].id = minted', ![p].at = "config"]
          /\ UNCHANGED guard
     ELSE Leave(p) /\ UNCHANGED <<registry, stores, minted>>
  /\ UNCHANGED <<configs, cloud>> /\ Same(p)

WriteConfig(p) ==
  LET t == task[p]
      m == IF t.cmd \in {"attach", "link"} \/ cloud[t.id] # NoCloud THEN "cloud" ELSE "local"
  IN /\ t.at = "config"
     /\ configs' = [configs EXCEPT ![t.repo] =
                      Config(IF t.cmd = "reconnect" THEN t.old ELSE t.id, t.name, m)]
     /\ IF t.cmd \in {"init", "adopt"} THEN Goto(p, "scaffold") /\ UNCHANGED guard
        ELSE IF t.cmd = "link" THEN Goto(p, "push") /\ UNCHANGED guard
        ELSE Leave(p)
     /\ UNCHANGED <<registry, stores, cloud, minted>> /\ Same(p)

Scaffold(p) ==
  /\ At(p, {"init", "adopt"}, "scaffold")
  /\ stores' = [stores EXCEPT ![task[p].id] = "full"]
  /\ Leave(p)
  /\ UNCHANGED <<registry, configs, cloud, minted>> /\ Same(p)

(***************************************************************************)
(* nauro init --add-repo: one more repository for a local project.          *)
(***************************************************************************)
AddRepoStart(p, r, n) ==
  \E e \in Named(n) :
    /\ Named(n) = {e} /\ e.mode = "local" /\ HasStore(e.id)
    /\ Begin(p, "add", "guard", r, e.id, n)
    /\ UNCHANGED <<registry, configs, stores, cloud, guard, minted, hands>>

(* Under the guard; forced, it takes a repository from the project its config    *)
(* names. Who claims the path is asked of the first claim alone, so an outer       *)
(* repository of this project hides the claim of another on the path itself.      *)
AddRepoGuard(p, force) ==
  LET t == task[p]
      allowed == ConfigAllows(t.repo, t.id, force) /\ Unclaimed(t.repo, t.id)
  IN /\ At(p, {"add"}, "guard")
     /\ IF allowed THEN Acquire(p, t.id, "add") ELSE Leave(p)
     /\ disturbed' = IF allowed /\ ~ConfigAllows(t.repo, t.id, FALSE) /\ disturbed = "no"
                     THEN "rebound" ELSE disturbed
     /\ UNCHANGED <<registry, configs, stores, cloud, minted, hands>>

AddRepoAdd(p) ==
  LET t == task[p]
  IN /\ At(p, {"add"}, "add")
     /\ IF Registered(t.id) THEN AddRepo(t.id, t.repo) /\ Goto(p, "config") /\ UNCHANGED guard
        ELSE Leave(p) /\ UNCHANGED registry
     /\ UNCHANGED <<configs, stores, cloud, minted>> /\ Same(p)

(***************************************************************************)
(* nauro attach and nauro reconnect: an existing cloud project.             *)
(***************************************************************************)
AttachCheck(p, r, i) ==
  /\ ConfigAllows(r, i, FALSE) /\ Unclaimed(r, i)
  /\ Begin(p, "attach", "guard", r, i, "none")
  /\ UNCHANGED <<registry, configs, stores, cloud, guard, minted, hands>>

(* Reconnect offers a restore where the config names a cloud project whose      *)
(* record is missing or that was never connected here.                          *)
ReconnectCheck(p, r) ==
  LET c == configs[r]
  IN /\ Valid(r) /\ c.mode = "cloud" /\ ~HasStore(c.id)
     /\ ConnectionFor(c).kind = "disconnected"
     /\ Registered(c.id) => ~Contradicts(EntryOf(c.id), c)
     /\ Begin(p, "reconnect", "guard", r, c.id, c.name)
     /\ UNCHANGED <<registry, configs, stores, cloud, guard, minted, hands>>

ConnectGuard(p) ==
  /\ At(p, {"attach", "reconnect"}, "guard")
  /\ Acquire(p, task[p].id, "restore")
  /\ UNCHANGED <<registry, configs, stores, cloud, minted>> /\ Same(p)

(* Membership, then the record: what is there is kept, what is missing is        *)
(* restored, and an empty cloud record gives attach alone an empty store.        *)
ConnectRestore(p) ==
  LET t == task[p]
      i == t.id
      known == Registered(i) /\ HasStore(i)
      member == cloud[i].name # "none"
      restorable == stores[i] # "full" /\ cloud[i].full
      blank == t.cmd = "attach" /\ ~Registered(i) /\ ~HasStore(i) /\ ~cloud[i].full
  IN /\ At(p, {"attach", "reconnect"}, "restore")
     /\ IF member /\ (known \/ restorable \/ blank)
        THEN /\ task' = [task EXCEPT ![p].at = "bind", ![p].name = cloud[i].name]
             /\ UNCHANGED guard
             /\ stores' = IF known THEN stores
                          ELSE [stores EXCEPT ![i] = IF blank THEN "empty" ELSE "full"]
        ELSE Leave(p) /\ UNCHANGED stores
     /\ UNCHANGED <<registry, configs, cloud, minted>> /\ Same(p)

(* Reconnect binds with the config it reads again now, and writes that config    *)
(* back only if the cloud has another name for the project.                       *)
Bind(p) ==
  LET t == task[p]
      c == configs[t.repo]
      again == t.cmd = "reconnect"
  IN /\ At(p, {"attach", "reconnect"}, "bind")
     /\ IF HasStore(t.id) /\ CanBind(t.id) /\ (again => c.mode = "cloud")
        THEN /\ BindStore(t.id, t.name, t.repo)
             /\ IF again /\ c.name = t.name THEN Leave(p)
                ELSE /\ task' = [task EXCEPT ![p].at = "config",
                                            ![p].old = IF again THEN c.id ELSE 0]
                     /\ UNCHANGED guard
        ELSE Leave(p) /\ UNCHANGED registry
     /\ UNCHANGED <<configs, stores, cloud, minted>> /\ Same(p)

(***************************************************************************)
(* nauro link: a local project becomes a cloud one under a new id.          *)
(***************************************************************************)
LinkCheck(p, r) ==
  LET c == configs[r]
  IN /\ Valid(r) /\ c.mode = "local" /\ Registered(c.id) /\ HasStore(c.id)
     /\ Begin(p, "link", "guard", r, c.id, c.name)
     /\ UNCHANGED <<registry, configs, stores, cloud, guard, minted, hands>>

LinkGuard(p) ==
  LET i == task[p].id
  IN /\ At(p, {"link"}, "guard")
     /\ IF guard[i] \in {Nobody, p}
        THEN /\ guard' = [guard EXCEPT ![i] = p]
             /\ task' = [task EXCEPT ![p].at = "create", ![p].old = i]
        ELSE Leave(p)
     /\ UNCHANGED <<registry, configs, stores, cloud, minted>> /\ Same(p)

(* Under the registry's lock the store is moved, and then the entry re-keyed;   *)
(* a crash between the two leaves the store under an id nobody registered. The   *)
(* entry keeps all its repositories, whose configs go on naming the old id.       *)
LinkMove(p) ==
  LET t == task[p]
  IN /\ At(p, {"link"}, "move")
     /\ IF Registered(t.old) /\ stores[t.old] = "full" /\ ~HasStore(t.id) /\ ~Registered(t.id)
        THEN /\ stores' = [stores EXCEPT ![t.old] = "none", ![t.id] = stores[t.old]]
             /\ \/ /\ registry' = Append(Without(t.old),
                                  [EntryOf(t.old) EXCEPT !.id = t.id, !.mode = "cloud"])
                   /\ Goto(p, "config") /\ UNCHANGED guard
                   /\ disturbed' = IF disturbed = "no" /\ ~ (EntryOf(t.old).repos \subseteq {t.repo})
                                   THEN "rebound" ELSE disturbed
                \/ Leave(p) /\ UNCHANGED registry /\ disturbed' = "yes"
        ELSE Leave(p) /\ UNCHANGED <<registry, stores, disturbed>>
     /\ UNCHANGED <<configs, cloud, minted, hands>>

LinkPush(p) ==
  /\ At(p, {"link"}, "push")
  /\ \/ cloud' = [cloud EXCEPT ![task[p].id].full = TRUE]
     \/ UNCHANGED cloud
  /\ Leave(p)
  /\ UNCHANGED <<registry, configs, stores, minted>> /\ Same(p)

(***************************************************************************)
(* nauro adopt --remove and nauro projects rm.                              *)
(***************************************************************************)
UnadoptCheck(p, r, purge) ==
  LET e == EntryOf(configs[r].id)
  IN /\ Valid(r)
     /\ purge => e.repos \subseteq {r}
     /\ Start(p, [NoTask EXCEPT !.cmd = "unadopt", !.at = "guard", !.repo = r,
                                !.id = configs[r].id, !.seen = e, !.purge = purge,
                                !.name = configs[r].name])
     /\ UNCHANGED <<registry, configs, stores, cloud, guard, minted, hands>>

(* What was read before the guard is read again under it. A project nobody       *)
(* registered has no store to guard or to delete.                                *)
StillAsReadUnchecked(t) == TRUE
StillAsRead(t) == EntryOf(t.id) = t.seen /\ (t.cmd = "unadopt" => configs[t.repo].id = t.id)

RemoveGuard(p) ==
  LET t == task[p]
  IN /\ At(p, {"unadopt", "rm"}, "guard")
     /\ IF ~StillAsRead(t) THEN Leave(p)
        ELSE IF t.seen = NoEntry THEN Goto(p, "unlink") /\ UNCHANGED guard
        ELSE Acquire(p, t.id, IF t.cmd = "rm" THEN "drop" ELSE "unlink")
     /\ UNCHANGED <<registry, configs, stores, cloud, minted>> /\ Same(p)

(* A failed removal of the wiring ends the command; a failed one of the config  *)
(* does not.                                                                     *)
Unlink(p) ==
  /\ At(p, {"unadopt"}, "unlink")
  /\ \/ /\ configs' \in {configs, [configs EXCEPT ![task[p].repo] = NoConfig]}
        /\ Goto(p, "drop") /\ UNCHANGED guard
     \/ Leave(p) /\ UNCHANGED configs
  /\ UNCHANGED <<registry, stores, cloud, minted>> /\ Same(p)

(* The last repository takes the entry with it; another only its own path.      *)
LastRepo(t) == t.seen.repos \subseteq {t.repo}
DropEntry(p) ==
  LET t == task[p]
  IN /\ At(p, {"unadopt", "rm"}, "drop")
     /\ IF t.cmd = "rm" \/ LastRepo(t) THEN registry' = Without(t.id)
        ELSE IF Registered(t.id) THEN RemoveRepo(t.id, t.repo) ELSE UNCHANGED registry
     /\ IF t.purge /\ t.seen # NoEntry THEN Goto(p, "purge") /\ UNCHANGED guard ELSE Leave(p)
     /\ UNCHANGED <<configs, stores, cloud, minted>> /\ Same(p)

Purge(p) ==
  /\ At(p, {"unadopt"}, "purge")
  /\ stores' = [stores EXCEPT ![task[p].id] = "none"]
  /\ Leave(p)
  /\ UNCHANGED <<registry, configs, cloud, minted>> /\ Same(p)

RemoveCheck(p, i) ==
  /\ Registered(i)
  /\ Start(p, [NoTask EXCEPT !.cmd = "rm", !.at = "guard", !.id = i, !.seen = EntryOf(i)])
  /\ UNCHANGED <<registry, configs, stores, cloud, guard, minted, hands>>

(***************************************************************************)
(* Deaths, hands and the server.                                           *)
(***************************************************************************)
Die(p) ==
  /\ task[p] # NoTask
  /\ Leave(p) /\ disturbed' = "yes"
  /\ UNCHANGED <<registry, configs, stores, cloud, minted, hands>>

(* A config is deleted, damaged, or replaced by one another checkout carries.   *)
EditConfig(r) ==
  /\ hands < MaxHands /\ hands' = hands + 1
  /\ \E c \in {NoConfig, Broken} \union {configs[s] : s \in Repos} :
       c # configs[r] /\ configs' = [configs EXCEPT ![r] = c]
  /\ disturbed' = "yes"
  /\ UNCHANGED <<registry, stores, cloud, guard, task, minted>>

CloudRename(i) ==
  /\ hands < MaxHands /\ hands' = hands + 1
  /\ cloud[i] # NoCloud
  /\ cloud[i].name # Renamed /\ cloud' = [cloud EXCEPT ![i].name = Renamed]
  /\ UNCHANGED <<registry, configs, stores, guard, task, minted, disturbed>>

Starts(p) ==
  \E r \in Repos :
    \/ \E n \in Names : \/ \E m \in Modes, force \in BOOLEAN : InitCheck(p, r, n, m, force)
                        \/ AdoptCheck(p, r, n) \/ AddRepoStart(p, r, n)
    \/ \E i \in Ids : AttachCheck(p, r, i)
    \/ ReconnectCheck(p, r) \/ LinkCheck(p, r)
    \/ \E purge \in BOOLEAN : UnadoptCheck(p, r, purge)

Moves(p) ==
  \/ CreateProject(p) \/ Register(p) \/ WriteConfig(p) \/ Scaffold(p)
  \/ \E force \in BOOLEAN : AddRepoGuard(p, force)
  \/ AddRepoAdd(p) \/ ConnectGuard(p) \/ ConnectRestore(p) \/ Bind(p)
  \/ LinkGuard(p) \/ LinkMove(p) \/ LinkPush(p)
  \/ RemoveGuard(p) \/ Unlink(p) \/ DropEntry(p) \/ Purge(p) \/ Die(p)

NNext ==
  \/ \E p \in Procs : Starts(p) \/ Moves(p) \/ \E i \in Ids : RemoveCheck(p, i)
  \/ \E r \in Repos : EditConfig(r)
  \/ \E i \in Ids : CloudRename(i)

NSpec == NInit /\ [][NNext]_nvars

-----------------------------------------------------------------------------
(* What an entry and a command under way may hold.                            *)
Known == Names \union {Renamed, "none"}
EntryType == [id : Ids, name : Known, mode : Modes, repos : SUBSET Repos]
Stages == {"idle", "guard", "create", "register", "config", "scaffold", "add", "restore",
           "bind", "move", "push", "unlink", "drop", "purge"}
Tasks == [cmd : {"none", "init", "adopt", "add", "attach", "reconnect", "link", "unadopt", "rm"},
          at : Stages, repo : Repos \union {"none"}, id : 0 .. MaxId, old : 0 .. MaxId,
          name : Known, seen : EntryType \union {NoEntry}, purge : BOOLEAN]

(* The variables keep their shapes; an id is registered once, and a config that *)
(* can be read names a project.                                                 *)
NTypeOK ==
  /\ registry \in Seq(EntryType)
  /\ \A k, l \in DOMAIN registry : registry[k].id = registry[l].id => k = l
  /\ configs \in [Repos -> [id : 0 .. MaxId, name : Known, mode : Modes \union {"absent", "broken"}]]
  /\ \A r \in Repos : Valid(r) => configs[r].id # 0
  /\ stores \in [Ids -> {"none", "empty", "full"}]
  /\ cloud \in [Ids -> [name : Known, full : BOOLEAN]]
  /\ guard \in [Ids -> Procs \union {Nobody}]
  /\ task \in [Procs -> Tasks]
  /\ minted \in 0 .. MaxId /\ hands \in 0 .. MaxHands
  /\ disturbed \in {"no", "rebound", "yes"}

(* A repo path resolves to at most one project.                               *)
OneOwner == ~TwoOwners

(* As long as commands run one at a time, none dies, nobody edits a config,    *)
(* no link re-keys a project that other repositories belong to and no add is      *)
(* forced over another project's config, every order of commands leaves each      *)
(* repository at most one owner. Init's own --force takes nothing from this.       *)
OneOwnerUndisturbed == disturbed = "no" => OneOwner

(* What init's refusal is for: commands run one after the other to their ends     *)
(* never give a repository a second owner.                                         *)
OneOwnerInTurn == disturbed # "yes" => OneOwner

(* An un-adopt that goes on to delete the store drops an entry that lists no     *)
(* repository but its own, whatever joined the project since it looked.            *)
PurgeSparesOthers ==
  [][\A p \in DOMAIN task : task[p].at = "drop" /\ task'[p].at = "purge" =>
       EntryOf(task[p].id).repos \subseteq {task[p].repo}]_nvars

(* Two resolvers read the same files, and where the strict one that binds a       *)
(* replica answers with a store, the lenient one behind every other command       *)
(* answers with the same store.                                                    *)
StrictAgrees ==
  ~TwoOwners => \A handle \in Handles, r \in Repos :
    ResolveBinding(handle, r).kind = "store" =>
      ResolveStore(handle, r) = ResolveBinding(handle, r)

(* One owner for each path while nothing interferes or rebinds it, resolvers that  *)
(* agree, and a purge that takes no other repository's record with it.            *)
RepositoriesAreSafe == [](OneOwnerUndisturbed /\ StrictAgrees) /\ PurgeSparesOthers

=============================================================================
