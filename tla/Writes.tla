------------------------------- MODULE Writes -------------------------------
(***************************************************************************)
(* The write commands of a flat store, step by step (mcp/tools.py,           *)
(* cli/commands/{note,import_cmd,sync}.py, store/post_commit.py,             *)
(* store/journal.py, sync/hooks.py, nauro_core/operations/update_state.py).    *)
(*                                                                         *)
(* A command holds the store's migration_write_guard from its first step to   *)
(* its last, so one runs at a time; another waits and is refused. It writes,    *)
(* brings up to date what is derived from the store, and records an event. A    *)
(* step may fail, a command may be killed, and hands edit files at any time.    *)
(***************************************************************************)
EXTENDS Integers, Sequences, FiniteSets

CONSTANTS
  MaxCommands, \* bound: commands run
  MaxMishaps,  \* bound: steps that fail and commands that are killed
  MaxRetouches \* bound: edits of the state file by hand

(* The parts of a store, each by its version. The state file's version names   *)
(* the body it holds; the project file may be cut off.                        *)
Part == {"decisions", "questions", "state", "project"}
Absent == -1
Blank == 0
Cut == -1

VARIABLES
  hosting,  \* "local", "signed out" of the cloud, or "cloud"
  store,    \* store[p]: what part p of the store holds
  legacy,   \* the body of a state.md from before the split, or Absent
  history,  \* the bodies in state_history.md
  journal,  \* the lines of journal/events.jsonl
  shot,     \* what the newest snapshot captured
  agents,   \* what AGENTS.md was rendered from
  held,     \* what the server holds
  job,      \* the command under way
  report,   \* what the latest command said when it ended
  begun, minted, mishaps, retouches,
  bodies,   \* every body the state file ever held
  gone,     \* those a kill or a hand took away
  logged,   \* the events whose append succeeded
  carried,  \* the events that would be true
  owed      \* the derived artifacts whose latest step failed

derived == <<shot, agents, held, owed>>
stateFiles == <<store, legacy, history, bodies, gone>>
events == <<journal, logged>>
wvars == <<hosting, stateFiles, events, derived, job, report, begun, minted, mishaps, retouches, carried>>

-----------------------------------------------------------------------------
(* The commands, as the steps they take.                                    *)
Steps ==
  [propose |-> <<"decide", "snapshot", "agents", "push", "journal">>,
   flag    |-> <<"ask", "snapshot", "push", "journal">>,
   state   |-> <<"read", "replace", "archive", "snapshot", "push", "journal">>,
   note    |-> <<"decide", "journal", "agents">>,
   inquire |-> <<"ask", "journal", "agents">>,
   import  |-> <<"truncate", "fill", "journal", "decide", "journal", "read", "replace",
                 "archive", "journal", "snapshot">>,
   sync    |-> <<"pull", "snapshot", "agents", "push">>]

Tools == {"propose", "flag", "state"}  \* the MCP tools, which may also refuse

Event(id, target, status) == [id |-> id, target |-> target, status |-> status]
NoEvent == Event(0, "none", "none")
NoPlan == [current |-> Absent, history |-> <<>>]
NoReport == [kind |-> "none", ok |-> FALSE, wrote |-> FALSE]
Idle == [id |-> 0, kind |-> "none", todo |-> <<>>, event |-> NoEvent, prior |-> Absent,
         plan |-> NoPlan, delta |-> Absent, degraded |-> {}, edited |-> FALSE,
         wrote |-> FALSE]

Due(step) == job.todo # <<>> /\ job.todo[1] = step
Rest == Tail(job.todo)

(* The command goes on with the steps ss, or ends and says how it went.        *)
GoOn(j, ss) ==
  IF ss # <<>>
  THEN job' = [j EXCEPT !.todo = ss] /\ report' = report
  ELSE /\ job' = Idle
       /\ report' = [kind |-> j.kind, ok |-> j.degraded = {} /\ ~j.edited, wrote |-> j.wrote]

(* It ends at once, by an error or a kill, and says nothing that counts.       *)
Die == job' = Idle /\ report' = NoReport

Mishap == mishaps < MaxMishaps /\ mishaps' = mishaps + 1

Begin(kind) ==
  /\ job = Idle /\ begun < MaxCommands
  /\ begun' = begun + 1
  /\ job' = [Idle EXCEPT !.id = begun + 1, !.kind = kind, !.todo = Steps[kind]]
  /\ report' = NoReport
  /\ UNCHANGED <<hosting, stateFiles, events, derived, minted, mishaps, retouches, carried>>

-----------------------------------------------------------------------------
(* Writing                                                                  *)

(* A decision or a question is written, atomically, or the tool refuses.      *)
WritePart(step, part) ==
  /\ Due(step)
  /\ LET done == Event(job.id, part, "committed")
     IN /\ store' = [store EXCEPT ![part] = minted + 1] /\ minted' = minted + 1
        /\ carried' = carried \cup {done}
        /\ GoOn([job EXCEPT !.event = done, !.wrote = TRUE], Rest)
  /\ UNCHANGED <<hosting, legacy, history, bodies, gone, events, derived, begun, mishaps, retouches>>

RefusePart(step, part) ==
  /\ Due(step) /\ job.kind \in Tools
  /\ LET refused == Event(job.id, part, "rejected")
     IN /\ carried' = carried \cup {refused}
        /\ GoOn([job EXCEPT !.event = refused], <<"journal">>)
  /\ UNCHANGED <<hosting, stateFiles, events, derived, begun, minted, mishaps, retouches>>

Decide == WritePart("decide", "decisions") \/ RefusePart("decide", "decisions")
Ask == WritePart("ask", "questions") \/ RefusePart("ask", "questions")

(* What an update of the state makes of the two files, planned at once for a    *)
(* host that replaces both together.                                         *)
PlanStateUpdate(current, past, old, delta) ==
  LET replaced == IF current = Absent THEN old ELSE current
  IN [current |-> delta,
      history |-> IF replaced = Blank THEN past ELSE Append(past, replaced)]

(* update_state of a store without a state file does nothing. One with only the *)
(* file from before the split first gets a copy of it.                        *)
ReadState ==
  /\ Due("read")
  /\ IF store.state = Absent /\ legacy = Absent
     THEN /\ store' = store
          /\ GoOn(job, IF job.kind = "import" THEN <<"snapshot">> ELSE <<>>)
     ELSE LET prior == IF store.state = Absent THEN legacy ELSE store.state
          IN /\ store' = [store EXCEPT !.state = prior]
             /\ GoOn([job EXCEPT !.prior = prior, !.delta = minted + 1,
                                 !.plan = PlanStateUpdate(store.state, history, legacy, minted + 1)],
                     Rest)
  /\ minted' = minted + 1
  /\ UNCHANGED <<hosting, legacy, history, bodies, gone, events, derived, begun, mishaps, retouches, carried>>

(* The state file is replaced whatever it holds by now.                       *)
ReplaceState ==
  /\ Due("replace")
  /\ store' = [store EXCEPT !.state = job.delta]
  /\ gone' = IF store.state # job.prior THEN gone \cup {store.state} ELSE gone
  /\ bodies' = bodies \cup {job.delta}
  /\ GoOn(job, Rest)
  /\ UNCHANGED <<hosting, legacy, history, events, derived, begun, minted, mishaps, retouches, carried>>

(* Then the body it replaced is added to the history, unless it was blank.     *)
ArchiveState ==
  /\ Due("archive")
  /\ LET done == Event(job.id, "state", "committed")
     IN /\ carried' = carried \cup {done}
        /\ GoOn([job EXCEPT !.event = done, !.wrote = TRUE], Rest)
  /\ history' = IF job.prior = Blank THEN history ELSE Append(history, job.prior)
  /\ UNCHANGED <<hosting, store, legacy, bodies, gone, events, derived, begun, minted, mishaps, retouches>>

(* An import adds to the project file in place: it is cut off and filled again.  *)
(* An empty source is passed over.                                           *)
TruncateProject ==
  /\ Due("truncate")
  /\ \/ store' = [store EXCEPT !.project = Cut] /\ GoOn(job, Rest)
     \/ store' = store /\ GoOn(job, Tail(Tail(Rest)))
  /\ UNCHANGED <<hosting, legacy, history, bodies, gone, events, derived, begun, minted, mishaps, retouches,
                 carried>>

FillProject == WritePart("fill", "project")

-----------------------------------------------------------------------------
(* What is derived from the store. After a tool or a note a step that fails is   *)
(* named in the answer and the next one runs; it ends a sync.                  *)
Degrades(step) ==
  /\ owed' = owed \cup {step}
  /\ IF job.kind = "sync" /\ step # "push"
     THEN Die
     ELSE GoOn([job EXCEPT !.degraded = @ \cup {step}], Rest)

Captured == shot' = store /\ owed' = owed \ {"snapshot"} /\ GoOn(job, Rest)
Snapshot ==
  /\ Due("snapshot")
  /\ \/ Captured /\ mishaps' = mishaps
     \/ Mishap /\ Degrades("snapshot") /\ shot' = shot
  /\ UNCHANGED <<hosting, stateFiles, events, agents, held, begun, minted, retouches, carried>>

Rendered == agents' = store /\ owed' = owed \ {"agents"} /\ GoOn(job, Rest)
Regenerate ==
  /\ Due("agents")
  /\ \/ Rendered /\ mishaps' = mishaps
     \/ Mishap /\ Degrades("agents") /\ agents' = agents
  /\ UNCHANGED <<hosting, stateFiles, events, shot, held, begun, minted, retouches, carried>>

(* A push uploads every part that differs, or some of them and says so. Without  *)
(* a login the hook after a tool pushes nothing and finds nothing wrong; a sync   *)
(* reports it.                                                               *)
Uploaded(parts) == held' = [p \in Part |-> IF p \in parts THEN store[p] ELSE held[p]]
Push ==
  /\ Due("push")
  /\ \/ /\ hosting = "local" \/ (hosting = "signed out" /\ job.kind # "sync")
        /\ GoOn(job, Rest)
        /\ UNCHANGED <<held, owed, mishaps>>
     \/ /\ hosting = "signed out" /\ job.kind = "sync"
        /\ Degrades("push")
        /\ UNCHANGED <<held, mishaps>>
     \/ /\ hosting = "cloud"
        /\ Uploaded(Part) /\ owed' = owed \ {"push"}
        /\ GoOn(job, Rest) /\ mishaps' = mishaps
     \/ /\ hosting = "cloud" /\ Mishap
        /\ \E parts \in SUBSET {p \in Part : held[p] # store[p]} : Uploaded(parts)
        /\ Degrades("push")
  /\ UNCHANGED <<hosting, stateFiles, events, shot, agents, begun, minted, retouches, carried>>

(* A pull, which FileSync follows file by file: here it brings nothing, or the    *)
(* decisions and questions of another machine.                                *)
Pull ==
  /\ Due("pull")
  /\ \E parts \in {{}} \cup (IF hosting = "cloud" THEN {{"decisions"}, {"questions"}} ELSE {}) :
       /\ store' = [p \in Part |-> IF p \in parts THEN minted + 1 ELSE store[p]]
       /\ held' = [p \in Part |-> IF p \in parts THEN minted + 1 ELSE held[p]]
  /\ minted' = minted + 1
  /\ GoOn(job, Rest)
  /\ UNCHANGED <<hosting, legacy, history, bodies, gone, events, shot, agents, owed, begun, mishaps, retouches,
                 carried>>

-----------------------------------------------------------------------------
(* The journal: a line is read back if it is whole, and ended by a newline. An    *)
(* append first ends a line a kill left open.                                  *)
Line(e, readable, ended) == [event |-> e, readable |-> readable, ended |-> ended]
Closed(lines) ==
  IF lines = <<>> THEN lines ELSE [lines EXCEPT ![Len(lines)].ended = TRUE]

AppendedAsIs(lines, line) ==  \* the open line is not ended first
  IF lines = <<>> \/ lines[Len(lines)].ended THEN Append(lines, line)
  ELSE [lines EXCEPT ![Len(lines)] = Line(line.event, FALSE, line.ended)]

Appended(lines, line) == Append(Closed(lines), line)

Readable(lines) == {lines[i].event : i \in {k \in 1..Len(lines) : lines[k].readable}}

(* The append may fail, after none or some of its bytes, and is not missed.    *)
Partly(lines, e) ==
  {lines, Closed(lines), Appended(lines, Line(e, FALSE, FALSE)), Appended(lines, Line(e, TRUE, FALSE))}

Journal ==
  /\ Due("journal")
  /\ \/ /\ journal' = Appended(journal, Line(job.event, TRUE, TRUE))
        /\ logged' = logged \cup {job.event}
        /\ mishaps' = mishaps
     \/ /\ Mishap
        /\ journal' \in Partly(journal, job.event)
        /\ logged' = logged
  /\ GoOn([job EXCEPT !.event = NoEvent], Rest)
  /\ UNCHANGED <<hosting, stateFiles, derived, begun, minted, retouches, carried>>

-----------------------------------------------------------------------------
(* A write fails and its error ends the command, or the command is killed. If   *)
(* that is between the two files of the state, the body it replaced is in none.  *)
Kill ==
  /\ job # Idle /\ Mishap
  /\ gone' = IF Due("archive") THEN gone \cup {job.prior} ELSE gone
  /\ IF Due("journal") THEN journal' \in Partly(journal, job.event) ELSE journal' = journal
  /\ Die
  /\ UNCHANGED <<hosting, store, legacy, history, bodies, logged, derived, begun, minted, retouches, carried>>

(* Somebody rewrites the state file, or empties it.                            *)
Retouch ==
  /\ retouches < MaxRetouches /\ retouches' = retouches + 1
  /\ store.state # Absent
  /\ \E body \in {minted + 1, Blank} :
       store' = [store EXCEPT !.state = body] /\ bodies' = bodies \cup {body}
  /\ minted' = minted + 1
  /\ gone' = gone \cup {store.state}
  /\ job' = [job EXCEPT !.edited = job # Idle]
  /\ report' = NoReport
  /\ UNCHANGED <<hosting, legacy, history, events, derived, begun, mishaps, carried>>

Fresh == [decisions |-> 1, questions |-> 1, state |-> 1, project |-> 1]

WInit ==
  /\ hosting \in {"local", "signed out", "cloud"}
  /\ \E s \in {Absent, Blank, 1} : store = [Fresh EXCEPT !.state = s]
  /\ legacy \in IF store.state = Absent THEN {Absent, 1} ELSE {Absent}
  /\ history = <<>> /\ journal = <<>>
  /\ shot = store /\ agents = store /\ held = store
  /\ job = Idle /\ report = NoReport
  /\ begun = 0 /\ minted = 1 /\ mishaps = 0 /\ retouches = 0
  /\ bodies = {store.state, legacy} /\ gone = {} /\ logged = {} /\ carried = {} /\ owed = {}

WNext ==
  \/ \E kind \in DOMAIN Steps : Begin(kind)
  \/ Decide \/ Ask \/ ReadState \/ ReplaceState \/ ArchiveState
  \/ TruncateProject \/ FillProject
  \/ Snapshot \/ Regenerate \/ Push \/ Pull \/ Journal
  \/ Kill \/ Retouch

-----------------------------------------------------------------------------
(* The variables have their types.                                          *)
WTypeOK ==
  /\ store \in [Part -> -1..minted] /\ legacy \in {Absent, 1}
  /\ shot \in [Part -> -1..minted] /\ agents \in [Part -> -1..minted]
  /\ held \in [Part -> -1..minted]
  /\ \A i \in 1..Len(history) : history[i] \in 1..minted
  /\ job.kind \in DOMAIN Steps \cup {"none"}
  /\ owed \subseteq {"snapshot", "agents", "push"} /\ gone \subseteq -1..minted
  /\ Readable(journal) \subseteq carried

(* No body the state file ever held is lost: it is current, or in the history, or   *)
(* about to get there, unless a kill between the two writes or a hand took it     *)
(* ("Replace current state, archiving the prior body"); none is there twice.      *)
BodiesArchived ==
  LET Copies(body) == Cardinality({i \in 1..Len(history) : history[i] = body})
      underWay == IF Due("archive") THEN {job.prior} ELSE {}
  IN /\ \A body \in bodies \ {Absent, Blank} :
          Copies(body) = 0 => body \in {store.state, legacy} \cup underWay \cup gone
     /\ \A body \in bodies : Copies(body) <= 1

(* A command carried through its steps makes of the two state files what the     *)
(* plan of the same update makes of them (plan_state_update).                  *)
PlanAgrees ==
  job.delta # Absent /\ ~job.edited /\ ~Due("replace") /\ ~Due("archive") =>
    job.plan = [current |-> store.state, history |-> history]

(* Every event that can be read tells what happened, once; and an event once      *)
(* appended can be read for ever, whatever kills and failures came later.        *)
JournalTruthful ==
  /\ Readable(journal) \subseteq carried
  /\ logged \subseteq Readable(journal)
  /\ \A i, k \in 1..Len(journal) :
       journal[i].readable /\ journal[k].readable /\ journal[i].event = journal[k].event => i = k

(* A command that reports no trouble has left what it derives from the store up   *)
(* to date: a snapshot, AGENTS.md, the server.                                 *)
ReportTruthful ==
  report.ok /\ (report.wrote \/ report.kind = "sync") =>
    /\ report.kind \in Tools \cup {"import", "sync"} => shot = store
    /\ report.kind \in {"propose", "note", "inquire", "sync"} => agents = store
    /\ report.kind \in Tools \cup {"sync"} /\ hosting = "cloud" => held = store

WritesSound == WTypeOK /\ BodiesArchived /\ PlanAgrees /\ JournalTruthful /\ ReportTruthful

(* store/post_commit.py:8-9 says of the steps after a write that "each artifact     *)
(* self-heals on the next write or sync": once a write reports no trouble, no       *)
(* guidance an earlier command failed to write is still out of date.              *)
GuidanceHeals == report.ok /\ report.wrote => "agents" \notin owed
=============================================================================
