------------------------------ MODULE Surfaces ------------------------------
(***************************************************************************)
(* The files the set-up commands write into repositories and the user's     *)
(* home so that coding agents find a project: nauro adopt and setup, the     *)
(* AGENTS.md that every sync renders, adopt --remove. A run is a list of     *)
(* steps, one per file. It may die between any two or in the middle of       *)
(* AGENTS.md, while people edit the same files and another run goes on.      *)
(* A text file is a sequence of pieces, each the user's or Nauro's; a JSON or *)
(* TOML config is the set of its entries, and is absent when it has none.     *)
(***************************************************************************)
EXTENDS Naturals, Sequences, SequencesExt

CONSTANTS Procs, RepoOrder, Projects,
          EditedRepos,                       \* where people edit files by hand
          Payloads,                          \* what the store can render to
          MaxRuns, MaxMishaps                \* bounds: runs; hand edits, deaths and failed writes

None == "none"
Repos == ToSet(RepoOrder)
WiringFiles == {"mcp", "hooks"}                    \* the machine-local wiring of a repository
NoRun == [cmd |-> None, todo |-> <<>>, of |-> None, repos |-> {}, clear |-> FALSE, failed |-> FALSE]

VARIABLES
  member,     \* the registered project of each repository
  wiring,     \* each wiring file of a repository: its entries
  shared,     \* .claude/settings.json, where older releases put the hook
  ignore,     \* the lines of .gitignore
  tracked,    \* the wiring files git tracks
  agents,     \* AGENTS.md
  claude,     \* CLAUDE.md
  payload,    \* what the store renders to now
  codex,      \* ~/.codex/config.toml
  skill,      \* a bundled skill under the home: the file and its backup
  version,    \* the release installed, whose bundled texts are written
  run,        \* the set-up command each process runs
  typed,      \* the texts the user put into AGENTS.md's own sections
  marks,      \* what happened to a repository that a promise does not cover
  count       \* runs and mishaps so far

repoFiles == <<wiring, shared, ignore, agents, claude>>
homeFiles == <<codex, skill>>
given == <<tracked, payload, version>>
svars == <<member, repoFiles, homeFiles, given, run, typed, marks, count>>

Owned == "nauro"
Broken == {"broken"}                         \* a config that does not parse
Bundled(v) == IF v = 1 THEN "bundled1" ELSE "bundled2"

SInit ==
  /\ member = [r \in Repos |-> None]
  /\ wiring = [r \in Repos |-> [f \in WiringFiles |-> {}]]
  /\ \E entries \in {{}, {Owned, "user"}} : shared = [r \in Repos |-> entries]
  /\ ignore = [r \in Repos |-> <<>>] /\ tracked = [r \in Repos |-> {}]
  /\ \E file \in {<<>>, <<"own">>} : agents = [r \in Repos |-> IF r \in EditedRepos THEN file ELSE <<>>]
  /\ typed = [r \in Repos |-> ToSet(agents[r])]
  /\ claude = [r \in Repos |-> <<>>]
  /\ payload \in Payloads
  /\ codex = {} /\ skill = [file |-> None, backup |-> None] /\ version = 1
  /\ run = [p \in Procs |-> NoRun]
  /\ marks = [torn |-> {}, crossed |-> {}, met |-> {}, touched |-> {}, stopped |-> {}, overlapped |-> FALSE, raced |-> FALSE]
  /\ count = [runs |-> 0, mishaps |-> 0]

(* Where a sequence first holds one of the pieces, or 0.                       *)
FirstAt(s, pieces) ==
  IF \E i \in DOMAIN s : s[i] \in pieces
  THEN CHOOSE i \in DOMAIN s : s[i] \in pieces /\ \A k \in 1 .. i - 1 : s[k] \notin pieces
  ELSE 0

(***************************************************************************)
(* .gitignore: the managed block.                                          *)
(***************************************************************************)
Begin == "begin"
End == "end"
Blank == "blank"
HasBlock(lines) == \E i, j \in DOMAIN lines : i < j /\ lines[i] = Begin /\ lines[j] = End
                                              /\ Begin \notin {lines[k] : k \in 1 .. i - 1}
BeginOf(lines) == FirstAt(lines, {Begin})
EndOf(lines) == BeginOf(lines) + FirstAt(SubSeq(lines, BeginOf(lines) + 1, Len(lines)), {End})
Entries(lines) == IF HasBlock(lines) THEN SubSeq(lines, BeginOf(lines) + 1, EndOf(lines) - 1) ELSE <<>>
Around(lines) ==
  IF HasBlock(lines) THEN SubSeq(lines, 1, BeginOf(lines) - 1) \o SubSeq(lines, EndOf(lines) + 1, Len(lines))
  ELSE lines

Ignored(r, f) == f \in ToSet(ignore[r]) \ tracked[r]

(* An orphaned begin marker is refused: a second block would make the lines     *)
(* between look owned.                                                         *)
EnsureIgnored(lines, f) ==
  IF HasBlock(lines)
  THEN IF f \in ToSet(Entries(lines)) THEN lines ELSE InsertAt(lines, EndOf(lines), f)
  ELSE IF Begin \in ToSet(lines) THEN lines
  ELSE lines \o (IF lines # <<>> /\ Last(lines) # Blank THEN <<Blank>> ELSE <<>>) \o <<Begin, f, End>>

WithoutBlock(lines) ==
  LET before == SubSeq(lines, 1, BeginOf(lines) - 1)
  IN (IF before # <<>> /\ Last(before) = Blank THEN Front(before) ELSE before)
     \o SubSeq(lines, EndOf(lines) + 1, Len(lines))

RemoveIgnored(lines, f) ==
  LET left == SelectSeq(Entries(lines), LAMBDA l : l # f)
      kept == IF left = <<>> THEN WithoutBlock(lines)
              ELSE SubSeq(lines, 1, BeginOf(lines)) \o left \o SubSeq(lines, EndOf(lines), Len(lines))
  IN IF f \notin ToSet(Entries(lines)) THEN lines
     ELSE IF ToSet(kept) \subseteq {Blank} THEN <<>> ELSE kept

(***************************************************************************)
(* AGENTS.md: the generated pieces, and the two sections a render keeps.     *)
(***************************************************************************)
Manual == "# Manual"
Skills == "## Skills"
Managed(file) == {"head", "foot"} \subseteq ToSet(file)
SafeToReplace(file) == file = <<>> \/ Managed(file)

HeaderAt(file, h) == FirstAt(file, {h})
(* What follows a header, up to the other one or the footer.                   *)
Body(file, h, other) ==
  LET rest == SubSeq(file, HeaderAt(file, h) + 1, Len(file))
      stop == FirstAt(rest, {other, "foot"})
  IN IF HeaderAt(file, h) = 0 THEN <<>> ELSE IF stop = 0 THEN rest ELSE SubSeq(rest, 1, stop - 1)

ManualOf(file) == Body(file, Manual, Skills)
SkillsOf(file) == Body(file, Skills, Manual)

Section(h, body) == IF body = <<>> THEN <<>> ELSE <<h>> \o body
Preserved(file) ==
  LET manual == Section(Manual, ManualOf(file))
      skills == Section(Skills, SkillsOf(file))
  IN IF manual \o skills = <<>> THEN <<Manual>>
     ELSE IF HeaderAt(file, Skills) < HeaderAt(file, Manual) THEN skills \o manual ELSE manual \o skills

Generate(text, file) == <<"head">> \o text \o <<"routing">> \o Preserved(file) \o <<"foot">>

(* Teardown keeps the manual section alone.                                    *)
Reduced(file) ==
  IF "foot" \notin ToSet(file) THEN file ELSE Section(Manual, ManualOf(file))

(* CLAUDE.md: the owned bridge, a marker and its import, is one piece.         *)
Bridge == "bridge"
WithoutBridge(file) ==
  IF Bridge \in ToSet(file) THEN RemoveAt(file, HeaderAt(file, Bridge)) ELSE file

(* Bound: two runs overlap once, or mishaps happen, never both in one behaviour. *)
Alone(p) == \A q \in Procs \ {p} : run[q] = NoRun
MayFail == count.mishaps < MaxMishaps /\ ~marks.overlapped

(***************************************************************************)
(* The plans of the commands.                                              *)
(***************************************************************************)
Step(kind, r, f) == [do |-> kind, repo |-> r, file |-> f]
ForEach(repos, S(_)) == FlattenSeq([i \in DOMAIN RepoOrder |->
  IF RepoOrder[i] \in repos THEN <<S(RepoOrder[i])>> ELSE <<>>])

Render(repos) == ForEach(repos, LAMBDA r : Step("agents", r, None))
Install(repos, hooks) ==
  ForEach(repos, LAMBDA r : Step("wire", r, "mcp")) \o <<Step("skill", None, None)>>
  \o ForEach(IF hooks THEN repos ELSE {}, LAMBDA r : Step("wire", r, "hooks"))
  \o <<Step("codex", None, None)>> \o Render(repos)
Teardown(r) ==
  <<Step("unwire", r, "mcp"), Step("unskill", r, None), Step("unwire", r, "hooks"),
    Step("uncodex", r, None), Step("unagents", r, None), Step("unbridge", r, None),
    Step("deregister", r, None)>>

ReposOf(j) == {r \in Repos : member[r] = j}
Registered == {member[r] : r \in Repos} \ {None}

Begins(p, cmd, j, repos, todo, clear) ==
  LET now == [run EXCEPT ![p] = [cmd |-> cmd, todo |-> todo, of |-> j, repos |-> repos, clear |-> clear,
                             failed |-> FALSE]]
      others == Procs \ {p}
  IN /\ run[p] = NoRun /\ p = (CHOOSE q \in Procs : run[q] = NoRun) /\ count.runs < MaxRuns
     /\ Alone(p) \/ (count.mishaps = 0 /\ ~marks.overlapped)
     /\ run' = now /\ count' = [count EXCEPT !.runs = @ + 1]
     /\ marks' = [marks EXCEPT !.met = @ \union UNION {repos \intersect run[q].repos : q \in others},
                               !.stopped = IF cmd = "setup" THEN @ \ repos ELSE @,
                               !.overlapped = @ \/ ~Alone(p),
                               !.raced = @ \/ \E q \in others : run[q] # NoRun /\ (clear \/ run[q].clear)]
     /\ UNCHANGED <<repoFiles, homeFiles, given, typed>>

(* adopt registers a new project and wires its repository, without the hooks;   *)
(* attach and link add one to a project and only render; setup wires the hooks   *)
(* when it is asked to.                                                        *)
Adopt(p, r, j) ==
  /\ member[r] = None /\ j = CHOOSE i \in Projects : i \notin Registered
  /\ member' = [member EXCEPT ![r] = j]
  /\ Begins(p, "adopt", j, {r}, Install({r}, FALSE), FALSE)

Attach(p, r, j) ==
  /\ member[r] = None /\ j \in Registered
  /\ member' = [member EXCEPT ![r] = j]
  /\ Begins(p, "sync", j, ReposOf(j) \union {r}, Render(ReposOf(j) \union {r}), FALSE)

Setup(p, j) ==
  /\ j \in Registered
  /\ \/ Begins(p, "setup", j, ReposOf(j), Install(ReposOf(j), TRUE), FALSE)
     \/ Begins(p, "adopt", j, ReposOf(j), Install(ReposOf(j), FALSE), FALSE)
  /\ UNCHANGED member

Sync(p, j) ==
  /\ j \in Registered
  /\ Begins(p, "sync", j, ReposOf(j), Render(ReposOf(j)), FALSE) /\ UNCHANGED member

(* The user's home is cleared only for the last repository of the only project. *)
SafeToClear(j) == Registered \subseteq {j}
Unadopt(p, r) ==
  LET j == member[r]
  IN /\ j # None
     /\ Begins(p, "remove", j, {r}, Teardown(r), ReposOf(j) = {r} /\ SafeToClear(j)) /\ UNCHANGED member

(***************************************************************************)
(* The steps. Each is the head of a run's list and may add steps after it.   *)
(***************************************************************************)
Rest(p) == Tail(run[p].todo)
Goes(p, more) ==
  LET todo == more \o Rest(p)
  IN run' = [run EXCEPT ![p] = IF todo = <<>> THEN NoRun ELSE [@ EXCEPT !.todo = todo]]
Takes(p, kind, r, f) == run[p].todo # <<>> /\ Head(run[p].todo) = Step(kind, r, f)

(* The hook goes into the personal settings before it leaves the shared ones.  *)
After(r, f) == (IF f = "hooks" THEN <<Step("strip", r, f)>> ELSE <<>>)

(* A rerun that finds its entry and stops there, for a mutant.                  *)
WireOnce(p, r, f) ==
  /\ Takes(p, "wire", r, f)
  /\ IF f \in tracked[r] \/ wiring[r][f] = Broken \/ Owned \in wiring[r][f]
     THEN Goes(p, <<>>) /\ UNCHANGED wiring
     ELSE /\ wiring' = [wiring EXCEPT ![r][f] = @ \union {Owned}]
          /\ Goes(p, After(r, f) \o <<Step("ignore", r, f)>>)
  /\ UNCHANGED <<member, shared, ignore, agents, claude, homeFiles, given, typed, marks, count>>

Wire(p, r, f) ==
  /\ Takes(p, "wire", r, f)
  /\ IF f \in tracked[r] \/ wiring[r][f] = Broken
     THEN Goes(p, <<>>) /\ UNCHANGED wiring
     ELSE /\ wiring' = [wiring EXCEPT ![r][f] = @ \union {Owned}]
          /\ Goes(p, After(r, f) \o <<Step("ignore", r, f)>>)
  /\ UNCHANGED <<member, shared, ignore, agents, claude, homeFiles, given, typed, marks, count>>

Unwire(p, r, f) ==
  /\ Takes(p, "unwire", r, f)
  /\ IF wiring[r][f] = Broken
     THEN Goes(p, <<>>) /\ UNCHANGED wiring
     ELSE /\ wiring' = [wiring EXCEPT ![r][f] = @ \ {Owned}]
          /\ Goes(p, After(r, f) \o <<Step("unignore", r, f)>>)
  /\ UNCHANGED <<member, shared, ignore, agents, claude, homeFiles, given, typed, marks, count>>

StripShared(p, r, f) ==
  /\ Takes(p, "strip", r, f) /\ Goes(p, <<>>)
  /\ shared' = [shared EXCEPT ![r] = @ \ {Owned}]
  /\ UNCHANGED <<member, wiring, ignore, agents, claude, homeFiles, given, typed, marks, count>>

Ignore(p, r, f) ==
  /\ Takes(p, "ignore", r, f) /\ Goes(p, <<>>)
  /\ ignore' = [ignore EXCEPT ![r] = IF Ignored(r, f) THEN @ ELSE EnsureIgnored(@, f)]
  /\ UNCHANGED <<member, wiring, shared, agents, claude, homeFiles, given, typed, marks, count>>

Unignore(p, r, f) ==
  /\ Takes(p, "unignore", r, f) /\ Goes(p, <<>>)
  /\ ignore' = [ignore EXCEPT ![r] = RemoveIgnored(@, f)]
  /\ UNCHANGED <<member, wiring, shared, agents, claude, homeFiles, given, typed, marks, count>>

(* A file that would not change is not written, and then the bridge is not       *)
(* looked at either.                                                           *)
Rendered(r) == Generate(payload, agents[r])
Agents(p, r) ==
  /\ Takes(p, "agents", r, None)
  /\ IF ~SafeToReplace(agents[r]) \/ agents[r] = Rendered(r)
     THEN Goes(p, <<>>) /\ UNCHANGED <<agents, marks>>
     ELSE /\ agents' = [agents EXCEPT ![r] = Rendered(r)]
          /\ marks' = [marks EXCEPT !.crossed = IF Skills \in ToSet(payload) THEN @ \union {r} ELSE @]
          /\ Goes(p, <<Step("bridge", r, None)>>)
  /\ UNCHANGED <<member, wiring, shared, ignore, claude, homeFiles, given, typed, count>>

EnsureBridge(p, r) ==
  /\ Takes(p, "bridge", r, None) /\ Goes(p, <<>>)
  /\ claude' = [claude EXCEPT ![r] = IF @ = <<>> THEN <<Bridge>> ELSE @]
  /\ UNCHANGED <<member, wiring, shared, ignore, agents, homeFiles, given, typed, marks, count>>

RemoveAgents(p, r) ==
  /\ Takes(p, "unagents", r, None) /\ Goes(p, <<>>)
  /\ agents' = [agents EXCEPT ![r] = Reduced(@)]
  /\ typed' = [typed EXCEPT ![r] = IF agents'[r] = agents[r] THEN @ ELSE @ \ {"skill text"}]
  /\ UNCHANGED <<member, wiring, shared, ignore, claude, homeFiles, given, marks, count>>

RemoveBridge(p, r) ==
  /\ Takes(p, "unbridge", r, None) /\ Goes(p, <<>>)
  /\ claude' = [claude EXCEPT ![r] = WithoutBridge(@)]
  /\ UNCHANGED <<member, wiring, shared, ignore, agents, homeFiles, given, typed, marks, count>>

InstallSkill(p) ==
  /\ Takes(p, "skill", None, None) /\ Goes(p, <<>>)
  /\ skill' = [file |-> Bundled(version),
               backup |-> IF skill.file \in {None, Bundled(version)} THEN skill.backup ELSE skill.file]
  /\ UNCHANGED <<member, repoFiles, codex, given, typed, marks, count>>

RemoveSkill(p, r) ==
  /\ Takes(p, "unskill", r, None) /\ Goes(p, <<>>)
  /\ skill' = [skill EXCEPT !.file = IF run[p].clear /\ @ = Bundled(version) THEN None ELSE @]
  /\ UNCHANGED <<member, repoFiles, codex, given, typed, marks, count>>

WireCodex(p) ==
  /\ Takes(p, "codex", None, None) /\ Goes(p, <<>>)
  /\ codex' = codex \union {Owned}
  /\ UNCHANGED <<member, repoFiles, skill, given, typed, marks, count>>

UnwireCodex(p, r) ==
  /\ Takes(p, "uncodex", r, None) /\ Goes(p, <<>>)
  /\ codex' = IF run[p].clear THEN codex \ {Owned} ELSE codex
  /\ UNCHANGED <<member, repoFiles, skill, given, typed, marks, count>>

(* The registration outlives a removal in which a write did not land.           *)
Deregister(p, r) ==
  /\ Takes(p, "deregister", r, None) /\ Goes(p, <<>>)
  /\ member' = [member EXCEPT ![r] = IF run[p].failed THEN @ ELSE None]
  /\ UNCHANGED <<repoFiles, homeFiles, given, typed, marks, count>>

Works(p) ==
  \/ \E r \in Repos, f \in WiringFiles :
       Wire(p, r, f) \/ Unwire(p, r, f) \/ StripShared(p, r, f) \/ Ignore(p, r, f) \/ Unignore(p, r, f)
  \/ \E r \in Repos :
       \/ Agents(p, r) \/ EnsureBridge(p, r) \/ RemoveAgents(p, r) \/ RemoveBridge(p, r)
       \/ RemoveSkill(p, r) \/ UnwireCodex(p, r) \/ Deregister(p, r)
  \/ InstallSkill(p) \/ WireCodex(p)

(***************************************************************************)
(* A write does not land. The run goes on and reports it at the end; only the  *)
(* shared settings and .gitignore are not counted. A render stops there, and    *)
(* so no bridge is looked at.                                                 *)
(***************************************************************************)
Quiet == {"strip", "ignore", "unignore"}
FailWrite(p) ==
  LET step == Head(run[p].todo)
      todo == IF step.do = "agents" THEN SelectSeq(Rest(p), LAMBDA s : s.do # "agents") ELSE Rest(p)
  IN /\ run[p] # NoRun /\ step.do # "deregister" /\ MayFail
     /\ run' = [run EXCEPT ![p] = IF todo = <<>> THEN NoRun
                                 ELSE [@ EXCEPT !.todo = todo, !.failed = @ \/ step.do \notin Quiet]]
     /\ count' = [count EXCEPT !.mishaps = @ + 1]
     /\ marks' = [marks EXCEPT !.touched = IF step.do \in Quiet THEN @ \union {step.repo} ELSE @,
                               !.stopped = @ \union run[p].repos]
     /\ UNCHANGED <<member, repoFiles, homeFiles, given, typed>>

(***************************************************************************)
(* A run dies. AGENTS.md is written in place: a part of it may be left.       *)
(***************************************************************************)
Dies(p) ==
  /\ run[p] # NoRun /\ MayFail
  /\ run' = [run EXCEPT ![p] = NoRun] /\ count' = [count EXCEPT !.mishaps = @ + 1]
  /\ UNCHANGED <<member, wiring, shared, ignore, claude, homeFiles, given, typed>>

Die(p) ==
  /\ Dies(p) /\ UNCHANGED agents
  /\ marks' = [marks EXCEPT !.stopped = @ \union run[p].repos]

DieWriting(p, r) ==
  /\ Takes(p, "agents", r, None) /\ SafeToReplace(agents[r]) /\ agents[r] # Rendered(r)
  /\ \E n \in 0 .. Len(Rendered(r)) - 1 : agents' = [agents EXCEPT ![r] = SubSeq(Rendered(r), 1, n)]
  /\ marks' = [marks EXCEPT !.torn = @ \union {r}, !.stopped = @ \union run[p].repos]
  /\ Dies(p)

(***************************************************************************)
(* What people do meanwhile.                                               *)
(***************************************************************************)
Hand == MayFail /\ count' = [count EXCEPT !.mishaps = @ + 1] /\ UNCHANGED <<member, run, shared>>

EditWiring(r, f) ==
  /\ Hand /\ wiring[r][f] # Broken
  /\ \E entries \in {wiring[r][f] \union {"user"}, Broken} : wiring' = [wiring EXCEPT ![r][f] = entries]
  /\ UNCHANGED <<ignore, agents, claude, homeFiles, given, typed, marks>>

GitAdd(r, f) ==
  /\ Hand /\ wiring[r][f] # {} /\ f \notin tracked[r] /\ tracked' = [tracked EXCEPT ![r] = @ \union {f}]
  /\ UNCHANGED <<repoFiles, payload, version, homeFiles, typed, marks>>

EditIgnore(r) ==
  /\ Hand
  /\ \/ \E line \in {"u", Blank} \union WiringFiles :
          ignore' = [ignore EXCEPT ![r] = Append(@, line)] /\ UNCHANGED marks
     \/ /\ HasBlock(ignore[r])
        /\ \E cut \in {BeginOf(ignore[r]), EndOf(ignore[r])} : ignore' = [ignore EXCEPT ![r] = RemoveAt(@, cut)]
        /\ marks' = [marks EXCEPT !.touched = @ \union {r}]
  /\ UNCHANGED <<wiring, agents, claude, homeFiles, given, typed>>

TypeText(r) ==
  /\ Hand /\ Managed(agents[r])
  /\ \/ /\ Manual \in ToSet(agents[r])
        /\ agents' = [agents EXCEPT ![r] = InsertAt(@, HeaderAt(@, Manual) + 1, "manual text")]
        /\ typed' = [typed EXCEPT ![r] = @ \union {"manual text"}]
     \/ /\ \E at \in {HeaderAt(agents[r], h) : h \in {Manual, "foot"}} \ {0} :
             agents' = [agents EXCEPT ![r] = InsertAt(InsertAt(@, at, "skill text"), at, Skills)]
        /\ typed' = [typed EXCEPT ![r] = @ \union {"skill text"}]
  /\ UNCHANGED <<wiring, ignore, claude, homeFiles, given, marks>>

EditClaude(r) ==
  /\ Hand /\ claude' = [claude EXCEPT ![r] = Append(@, "u")]
  /\ UNCHANGED <<wiring, ignore, agents, homeFiles, given, typed, marks>>

EditStore ==
  /\ Hand /\ payload' \in Payloads \ {payload}
  /\ UNCHANGED <<repoFiles, tracked, version, homeFiles, typed, marks>>

EditSkill ==
  /\ Hand /\ skill.file \notin {None, "edit"} /\ skill' = [skill EXCEPT !.file = "edit"]
  /\ UNCHANGED <<repoFiles, given, codex, typed, marks>>

Upgrade ==
  /\ Hand /\ version = 1 /\ version' = 2
  /\ UNCHANGED <<repoFiles, tracked, payload, homeFiles, typed, marks>>

People ==
  \/ \E r \in EditedRepos : EditIgnore(r) \/ TypeText(r) \/ EditClaude(r)
  \/ \E r \in EditedRepos, f \in WiringFiles : EditWiring(r, f) \/ GitAdd(r, f)
  \/ EditStore \/ EditSkill \/ Upgrade

SNext ==
  \/ \E p \in Procs :
       \/ Works(p) \/ FailWrite(p) \/ Die(p)
       \/ \E j \in Projects : Setup(p, j) \/ Sync(p, j)
       \/ \E r \in Repos : Unadopt(p, r) \/ DieWriting(p, r)
       \/ \E r \in Repos, j \in Projects : Adopt(p, r, j) \/ Attach(p, r, j)
  \/ People

-----------------------------------------------------------------------------
STypeOK ==
  /\ member \in [Repos -> Projects \union {None}]
  /\ \A r \in Repos, f \in WiringFiles : wiring[r][f] = Broken \/ wiring[r][f] \subseteq {Owned, "user"}
  /\ \A r \in Repos : ToSet(ignore[r]) \subseteq {Begin, End, Blank, "u"} \union WiringFiles
  /\ codex \subseteq {Owned} /\ tracked \in [Repos -> SUBSET WiringFiles]

(* Wiring names this machine's paths. Between runs every wired file is ignored by  *)
(* git, unless git tracks it or somebody broke the block; what a run left that     *)
(* stopped half-way, the next set-up makes up for, though the wiring is the same.  *)
WiredIsIgnored ==
  \A r \in Repos \ UNION ({marks.met, marks.touched, marks.stopped} \union {run[p].repos : p \in Procs}) :
    \A f \in WiringFiles : Owned \in wiring[r][f] => Ignored(r, f) \/ f \in tracked[r]

(* A text the user put under # Manual survives every render and the removal, one  *)
(* under ## Skills every render, and a file Nauro did not write is left alone:     *)
(* unless a run died in the write or the store itself renders such a header.       *)
TextKept ==
  \A r \in Repos \ marks.torn :
    \A t \in typed[r] : t \in ToSet(agents[r]) \/ (t = "skill text" /\ r \in marks.crossed)

(* A set-up run never leaves a repository that had the hook without one.           *)
Hooked(r) == Owned \in wiring[r]["hooks"] \union shared[r]
NeverUnhooked ==
  \A r \in Repos \ marks.met :
    Hooked(r) /\ ~Hooked(r)' =>
      \/ \E p \in Procs : run[p].cmd = "remove" /\ r \in run[p].repos
      \/ wiring'[r]["hooks"] = Broken

(* Nauro's steps leave the user's entries, lines and edits where they are.          *)
UsersLines(lines) == SelectSeq(Around(lines), LAMBDA l : l \notin {Blank, Begin, End})
UsersPiecesStand ==
  run' # run =>
    /\ \A r \in Repos, f \in WiringFiles : wiring[r][f] \ {Owned} = wiring'[r][f] \ {Owned}
    /\ \A r \in Repos :
         /\ shared[r] \ {Owned} = shared'[r] \ {Owned}
         /\ r \in marks.touched \/ UsersLines(ignore[r]) = UsersLines(ignore'[r])
         /\ WithoutBridge(claude[r]) = WithoutBridge(claude'[r])
    /\ skill.file \in {None, Bundled(version), skill'.file, skill'.backup}

(* A repository that was removed keeps nothing of Nauro's that still works.         *)
Clean(r) ==
  /\ \A f \in WiringFiles : Owned \notin wiring[r][f]
  /\ Owned \in shared[r] => wiring[r]["hooks"] = Broken \/ r \in marks.touched
  /\ ~Managed(agents[r]) /\ Bridge \notin ToSet(claude[r])
  /\ \A f \in WiringFiles : f \in ToSet(Entries(ignore[r])) => wiring[r][f] = Broken \/ r \in marks.touched
RemovedIsClean ==
  \A r \in Repos \ marks.met : member[r] # None /\ member'[r] = None => Clean(r)'

(* What is shared under the home serves every registered project that was set up:   *)
(* a removal clears it for the last one only.                                      *)
HomeServes ==
  marks.raced \/ (Owned \in codex /\ Owned \notin codex' => Registered' = {run[p].of : p \in {q \in Procs : run[q].clear}})

SurfacesSound ==
  /\ [](WiredIsIgnored /\ TextKept)
  /\ [][NeverUnhooked /\ UsersPiecesStand /\ RemovedIsClean /\ HomeServes]_svars
=============================================================================
