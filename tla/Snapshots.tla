------------------------------ MODULE Snapshots ------------------------------
(***************************************************************************)
(* The store's snapshots (store/snapshot.py): numbered captures of the      *)
(* project files, thinned as they age, and the diff that compares two.      *)
(*                                                                         *)
(* A capture holds the directory's lock from its scan to the end of its     *)
(* pruning; a diff takes no lock. Time is counted in ticks.                 *)
(***************************************************************************)
EXTENDS Naturals, FiniteSets, FiniteSetsExt

CONSTANTS Capturers, Differs,
          MaxVersion, MaxTime,          \* bounds: file numbers, ticks
          MaxEdits,                     \* bound: files damaged by hand
          KeepAll, Daily, Weekly,       \* ages up to which each rule holds
          DayLen, WeekLen, MonthLen,    \* ticks of a calendar day, week, month
          Lookbacks                     \* the lookbacks a diff asks for; Previous for none

Versions == 1 .. MaxVersion
Previous == MaxTime + 1
NoFile == [made |-> 0, kind |-> "none"]
Files == [made : 0 .. MaxTime, kind : {"none", "dated", "undated", "broken"}]
NoTask == [at |-> "idle", seen |-> {}, next |-> 0, base |-> 0, last |-> 0, from |-> 0]

VARIABLES
  captures,  \* the file of each version: when it was captured, whether it can be read
  now,       \* the clock
  locked,    \* the capture that holds the lock, or "nobody"
  task,      \* where each capture and each diff stands
  watched,   \* one capture to account for: its time, 0 while none is chosen
  edits

svars == <<captures, now, locked, task, watched, edits>>

SInit ==
  /\ captures = [v \in Versions |-> NoFile]
  /\ now = 1
  /\ locked = "nobody"
  /\ task = [p \in Capturers \union Differs |-> NoTask]
  /\ watched = 0
  /\ edits = 0

(* The scan skips a file it cannot read, with a warning.                     *)
Scanned == {v \in Versions : captures[v].kind \in {"dated", "undated"}}
NextVersionByCount(seen) == Cardinality(seen) + 1
NextVersion(seen) == (IF seen = {} THEN 0 ELSE Max(seen)) + 1

(***************************************************************************)
(* Which of the scanned versions pruning keeps.                            *)
(***************************************************************************)
IsDated(v) == captures[v].kind = "dated"
Age(v) == now - captures[v].made

(* The calendar period a version is thinned by: its day, week or month.      *)
Rule(v) == IF Age(v) <= Daily THEN "day" ELSE IF Age(v) <= Weekly THEN "week" ELSE "month"
Length(rule) == CASE rule = "day" -> DayLen [] rule = "week" -> WeekLen [] OTHER -> MonthLen
Bucket(v) == <<Rule(v), captures[v].made \div Length(Rule(v))>>

Oldest(vs) == CHOOSE v \in vs : \A w \in vs : captures[v].made <= captures[w].made
Newest(vs) == CHOOSE v \in vs : \A w \in vs : captures[w].made <= captures[v].made

Kept(metas) ==
  LET dated == {v \in metas : IsDated(v)}
      always == {v \in metas : ~IsDated(v)} \union {Max(metas), Max(dated)}
                  \union {v \in dated : Age(v) <= KeepAll}
      thinned == dated \ always
      bucketOf(v) == {w \in thinned : Bucket(w) = Bucket(v)}
  IN IF Cardinality(metas) <= 1 \/ dated = {} THEN metas
     ELSE always \union {Newest(bucketOf(v)) : v \in thinned}

(***************************************************************************)
(* Capture. A process that dies leaves the lock free.                       *)
(***************************************************************************)
Stands(p, place) == task[p].at = place
Moves(p, new) == task' = [task EXCEPT ![p] = new]

ScanUnlocked(p) ==
  /\ Stands(p, "idle") /\ NextVersion(Scanned) \in Versions
  /\ locked' = p
  /\ Moves(p, [NoTask EXCEPT !.at = "write", !.seen = Scanned, !.next = NextVersion(Scanned)])
  /\ UNCHANGED <<captures, now, watched, edits>>

(* The lock is taken and the directory scanned under it.                      *)
Scan(p) ==
  /\ Stands(p, "idle") /\ locked = "nobody"
  /\ NextVersion(Scanned) \in Versions
  /\ locked' = p
  /\ Moves(p, [NoTask EXCEPT !.at = "write", !.seen = Scanned, !.next = NextVersion(Scanned)])
  /\ UNCHANGED <<captures, now, watched, edits>>

(* The file is replaced whole, whatever it was; its timestamp is the clock's. *)
Write(p) ==
  /\ Stands(p, "write")
  /\ captures' = [captures EXCEPT ![task[p].next] = [made |-> now, kind |-> "dated"]]
  /\ watched' \in IF watched = 0 THEN {0, now} ELSE {watched}
  /\ Moves(p, [task[p] EXCEPT !.at = "prune"])
  /\ UNCHANGED <<now, locked, edits>>

(* Over the versions scanned and the one just written, with a clock read again; *)
(* what a hand made undated or unreadable since the scan is pruned by its old   *)
(* header, so only files the hand left alone are at stake here.                 *)
Prune(p) ==
  LET metas == task[p].seen \union {task[p].next}
  IN /\ Stands(p, "prune")
     /\ captures' = [v \in Versions |-> IF v \in metas \ Kept(metas) THEN NoFile ELSE captures[v]]
     /\ locked' = "nobody"
     /\ Moves(p, NoTask)
     /\ UNCHANGED <<now, watched, edits>>

Die(p) ==
  /\ task[p].at \in {"write", "prune"}
  /\ locked' = "nobody"
  /\ Moves(p, NoTask)
  /\ UNCHANGED <<captures, now, watched, edits>>

(***************************************************************************)
(* Diff: one scan chooses both versions, then each is loaded by its number. *)
(***************************************************************************)
NearestAtOrBefore(seen, target) ==
  LET dated == {v \in seen : IsDated(v)}
      before == {v \in dated : captures[v].made <= target}
  IN IF before # {} THEN Newest(before)
     ELSE CHOOSE v \in dated : \A w \in dated : captures[v].made <= captures[w].made

Baseline(seen, days) ==
  IF days = Previous THEN (IF Cardinality(seen) < 2 THEN 0 ELSE Max(seen \ {Max(seen)}))
  ELSE IF \E v \in seen : IsDated(v)
       THEN NearestAtOrBefore(seen, IF days >= now THEN 0 ELSE now - days) ELSE 0

Resolve(d, days) ==
  /\ Stands(d, "idle")
  /\ Scanned # {} /\ Baseline(Scanned, days) # 0
  /\ Moves(d, [NoTask EXCEPT !.at = "baseline", !.base = Baseline(Scanned, days),
                             !.last = Max(Scanned)])
  /\ UNCHANGED <<captures, now, locked, watched, edits>>

(* A version pruned or broken since the scan ends the diff with an error.     *)
Loadable(v) == captures[v].kind \in {"dated", "undated"}
LoadBaseline(d) ==
  /\ Stands(d, "baseline")
  /\ Moves(d, IF Loadable(task[d].base)
              THEN [task[d] EXCEPT !.at = "latest", !.from = captures[task[d].base].made]
              ELSE NoTask)
  /\ UNCHANGED <<captures, now, locked, watched, edits>>

LoadLatest(d) ==
  /\ Stands(d, "latest")
  /\ Moves(d, NoTask)
  /\ UNCHANGED <<captures, now, locked, watched, edits>>

(***************************************************************************)
(* The clock, and the hand that damages a file when no capture runs.        *)
(***************************************************************************)
Tick ==
  /\ now < MaxTime
  /\ now' = now + 1
  /\ UNCHANGED <<captures, locked, task, watched, edits>>

Damage(v) ==
  /\ edits < MaxEdits /\ locked = "nobody" /\ captures[v].kind = "dated"
  /\ \E kind \in {"undated", "broken"} : captures' = [captures EXCEPT ![v].kind = kind]
  /\ edits' = edits + 1
  /\ watched' = 0
  /\ UNCHANGED <<now, locked, task>>

SNext ==
  \/ \E p \in Capturers : Scan(p) \/ Write(p) \/ Prune(p) \/ Die(p)
  \/ \E d \in Differs : LoadBaseline(d) \/ LoadLatest(d) \/ \E n \in Lookbacks : Resolve(d, n)
  \/ Tick
  \/ \E v \in Versions : Damage(v)

SSpec == SInit /\ [][SNext]_svars

-----------------------------------------------------------------------------
(* The variables keep their shapes, and the lock is its holder's.             *)
STypeOK ==
  /\ captures \in [Versions -> Files] /\ now \in 1 .. MaxTime
  /\ watched \in 0 .. MaxTime /\ edits \in 0 .. MaxEdits
  /\ \A p \in Capturers : task[p].at # "idle" <=> locked = p

(* Thinning loses time, never the record: a captured state of age a is still   *)
(* there, or a later one is, close to it: of the same day once KeepAll has     *)
(* passed, then at most a week later than that, then a month. The three rules  *)
(* run on what the earlier ones left, so the distances add up.                 *)
Slack(age) ==
  (IF age > KeepAll THEN DayLen - 1 ELSE 0)
  + (IF age > Daily THEN WeekLen - 1 ELSE 0)
  + (IF age > Weekly THEN MonthLen - 1 ELSE 0)
NearbySurvivor ==
  watched # 0 => \E v \in Versions :
    /\ captures[v].kind # "none"
    /\ captures[v].made \in watched .. watched + Slack(now - watched)

(* A capture never takes the place of one that can be read: its version was     *)
(* free, or its file had been broken by hand.                                   *)
NoCaptureReplaced ==
  [][\A v \in Versions : captures[v].kind \in {"dated", "undated"} =>
       captures'[v] = NoFile \/ captures'[v].made = captures[v].made]_svars

(* A diff compares an earlier capture with a later one, although captures,      *)
(* pruning and reused versions go on between its scan and its two loads.        *)
DiffLooksBack ==
  \A d \in Differs : Stands(d, "latest") /\ Loadable(task[d].last) =>
    task[d].from <= captures[task[d].last].made

(* The history of snapshots holds: nothing is replaced, nothing thinned beyond *)
(* the promised distance, and a diff looks back.                             *)
CapturesStand == NoCaptureReplaced /\ [](NearbySurvivor /\ DiffLooksBack)
=============================================================================
