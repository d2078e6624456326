---------------------------- MODULE Agents_proofs ----------------------------
(***************************************************************************)
(* For any processes, accounts, generations and changes around the calls:   *)
(* what an agent is told was authorized for its account since the call      *)
(* began, an answer from flat files found all of them, and a write replaces *)
(* the document it was prepared on, however often it was sent.              *)
(*                                                                          *)
(* The answers need the most: what a call holds from the fetch or the       *)
(* authorization on was named for it, and the server's answer of the moment *)
(* always is, which no change to the head or to a grant may slip past       *)
(* (Renamed).                                                               *)
(*                                                                          *)
(* And for any persons, actions and steps of a judgment's workers: a repair *)
(* is saved before it is sent, takes nothing from a worker whose lease      *)
(* runs, and is the only one of the state it was made for. An action keeps  *)
(* what was seen of the lease; a lease that was renewed has another number. *)
(*                                                                          *)
(* And for any operations, accounts, connections and sends: a typed write   *)
(* is carried out at most once and as it was saved, and what is recorded of *)
(* it is what happened.                                                     *)
(***************************************************************************)
EXTENDS Access, JudgmentRepair, Families, FiniteSetTheorems, TLAPS

(* The steps of a call, of a flat one, and those at which one holds what it *)
(* was told.                                                                *)
Steps == {"idle", "admit", "fetch", "prepare", "authorize", "rendered", "answered", "open",
          "send", "committed", "applied", "absent", "install", "confirm"}
FlatSteps == {"open", "rendered", "answered"}
Told == {"install", "confirm", "rendered", "answered"}

(* A call is a record of these fields.                                      *)
Shaped(c) ==
  c \in [at : Steps, kind : {"read", "refresh", "write", "flat"}, place : {c.place},
         actor : {c.actor}, got : {c.got}, from : {c.from}, base : {c.base}, first : {c.first}]

(* With n named for it since it began, grants g and the head h of the       *)
(* server: a call on a generation holds what was named.                     *)
Authorized(c, n, g, h) ==
  c.at # "idle" /\ c.kind # "flat" =>
    /\ c.at # "open" /\ c.actor # Nobody
    /\ [user |-> c.actor, gen |-> h, scope |-> g[c.actor]] \in n
    /\ c.at \in Told => c.got \in n

(* A call on flat files that did not find them all began after they were    *)
(* moved, and will find the store (s) no longer flat; the files never come  *)
(* back.                                                                    *)
Whole(c, s) ==
  c.kind = "flat" =>
    /\ c.at \in FlatSteps
    /\ c.at = "rendered" /\ c.base # 1 => s \in {"moved", "generation"}
    /\ c.at = "answered" => c.base = 1

(* The revision of a write stays the one it was prepared on.                *)
Conditional(c) == c.at \in {"send", "applied", "absent"} => c.base = c.first

Fit(c, n, g, h, s) ==
  Shaped(c) /\ Authorized(c, n, g, h) /\ Whole(c, s) /\ Conditional(c)

(* The inductive invariant.                                                 *)
IInv ==
  /\ DOMAIN call = Process /\ call = [p \in Process |-> call[p]]
  /\ named = [p \in Process |-> named[p]]
  /\ authority \in {"flat", "admitted", "moved", "generation"}
  /\ WritesReplaceWhatTheyWerePreparedOn
  /\ \A p \in Process : Fit(call[p], named[p], grant, Newest, authority)

LEMMA Says == IInv => CallsAreSound
  BY DEF IInv, Fit, Authorized, Whole, Told, CallsAreSound, AnswersWereAuthorized,
         FlatAnswersAreWhole

LEMMA Start == AInit => IInv
<1>1. Shaped(Idle)
  BY DEF Shaped, Idle, Steps
<1>2. ASSUME NEW n, NEW g, NEW h, NEW s PROVE Fit(Idle, n, g, h, s)
  BY <1>1 DEF Fit, Idle, Authorized, Whole, Conditional
<1> QED
  BY <1>2 DEF AInit, IInv, WritesReplaceWhatTheyWerePreparedOn

(* One call takes a step and nothing that the others rely on changes.       *)
LEMMA OneCall ==
  ASSUME IInv, NEW p \in Process, NEW c, NEW n,
         call' = [call EXCEPT ![p] = c], named' = [named EXCEPT ![p] = n],
         UNCHANGED <<authority, server>>,
         Fit(c, n, grant, Newest, authority)
  PROVE  IInv'
<1>1. UNCHANGED <<authority, docs, grant, lastWrite>>
  BY DEF server
<1>2. Newest' = Newest
  BY <1>1 DEF Newest
<1>3. ASSUME NEW q \in Process
      PROVE  Fit(call'[q], named'[q], grant, Newest, authority)
  BY DEF IInv
<1>4. /\ DOMAIN call' = Process /\ call' = [q \in Process |-> call'[q]]
      /\ named' = [q \in Process |-> named'[q]]
  BY DEF IInv
<1>5. WritesReplaceWhatTheyWerePreparedOn'
  BY <1>1 DEF IInv, WritesReplaceWhatTheyWerePreparedOn
<1> QED
  BY <1>1, <1>2, <1>3, <1>4, <1>5 DEF IInv

(* The same when nothing is named anew.                                     *)
LEMMA OneStep ==
  ASSUME IInv, NEW p \in Process, NEW c,
         Set(p, c), UNCHANGED <<named, authority, server>>,
         Fit(c, named[p], grant, Newest, authority)
  PROVE  IInv'
<1>1. named' = [named EXCEPT ![p] = named[p]]
  BY DEF IInv
<1> QED
  BY <1>1, OneCall DEF Set

(* What a step of the call alone keeps, however the rest of it changes.     *)
LEMMA Moving ==
  ASSUME NEW c, NEW n, NEW g, NEW h, NEW s, Fit(c, n, g, h, s), NEW at \in Steps \ {"open"},
         c.at # "idle", c.kind # "flat",
         at \in Told => c.got \in n,
         at \in {"send", "applied", "absent"} => c.base = c.first
  PROVE  Fit([c EXCEPT !.at = at], n, g, h, s)
<1> DEFINE d == [c EXCEPT !.at = at]
<1>1. Shaped(d) /\ d.at = at /\ d.kind = c.kind /\ d.actor = c.actor /\ d.got = c.got
        /\ d.base = c.base /\ d.first = c.first
  BY DEF Fit, Shaped
<1> HIDE DEF d
<1>2. Authorized(d, n, g, h) /\ Whole(d, s) /\ Conditional(d)
  BY <1>1 DEF Fit, Authorized, Whole, Conditional
<1> QED
  BY <1>1, <1>2 DEF Fit, d

(* What the invariant says of the call that takes the step.                 *)
LEMMA OwnCall ==
  ASSUME IInv, NEW p \in Process
  PROVE  Fit(call[p], named[p], grant, Newest, authority)
  BY DEF IInv

LEMMA Still ==
  ASSUME Same
  PROVE  UNCHANGED <<named, authority, server>>
  BY DEF Same, machine

(* The steps that only move a call on.                                      *)
LEMMA Moves ==
  ASSUME IInv, NEW p \in Process, NEW at \in Steps \ {"open"}, To(p, at),
         UNCHANGED <<named, authority, server>>,
         call[p].at # "idle", call[p].kind # "flat",
         at \in Told => call[p].got \in named[p],
         at \in {"send", "applied", "absent"} => call[p].base = call[p].first
  PROVE  IInv'
<1>1. Fit([call[p] EXCEPT !.at = at], named[p], grant, Newest, authority)
  BY OwnCall, Moving
<1> QED
  BY <1>1, OneStep DEF To

(* A flat call is at none of the steps of the others.                       *)
LEMMA Other ==
  ASSUME IInv, NEW p \in Process, call[p].at \in Steps \ FlatSteps
  PROVE  call[p].kind # "flat"
  BY OwnCall DEF Fit, Whole

LEMMA Beginning ==
  ASSUME IInv, NEW p \in Process, NEW kind \in DOMAIN First, Begin(p, kind)
  PROVE  IInv'
<1>1. PICK a : a = First[kind]
  OBVIOUS
<1>2. kind \in {"read", "refresh", "write"} /\ a \in {"admit", "fetch", "prepare"}
  BY <1>1 DEF First
<1>3. PICK w, u : w = place /\ u = account
  OBVIOUS
<1> DEFINE c == [Idle EXCEPT !.at = a, !.kind = kind, !.place = w, !.actor = u]
           n == {Current(account)}
<1>4. Shaped(Idle)
  BY DEF Shaped, Idle, Steps
<1>5. Shaped(c) /\ c.kind # "flat" /\ c.actor = u /\ c.at = a
  BY <1>2, <1>4 DEF Shaped, Steps
<1>6. u = account /\ u # Nobody /\ UNCHANGED <<authority, server>>
  BY <1>3 DEF Begin, machine
<1>7. call' = [call EXCEPT ![p] = c] /\ named' = [named EXCEPT ![p] = n]
  BY <1>1, <1>3 DEF Begin, Set
<1>8. [user |-> u, gen |-> Newest, scope |-> grant[u]] \in n
  BY <1>6 DEF Current
<1> HIDE DEF c, n
<1>9. Fit(c, n, grant, Newest, authority)
  BY <1>2, <1>5, <1>6, <1>8 DEF Fit, Authorized, Whole, Conditional, Told
<1> QED
  BY <1>6, <1>7, <1>9, OneCall

LEMMA Admitting ==
  ASSUME IInv, NEW p \in Process, Admit(p)
  PROVE  IInv'
<1>1. PICK r : r = replica[call[p].actor]
  OBVIOUS
<1> DEFINE c == [call[p] EXCEPT !.at = "authorize", !.got = r]
<1>2. Set(p, c) /\ UNCHANGED <<named, authority, server>> /\ call[p].at = "admit"
  BY <1>1, Still DEF Admit
<1>3. call[p].kind # "flat"
  BY <1>2, Other DEF Steps, FlatSteps
<1>4. Shaped(c) /\ c.at = "authorize" /\ c.kind = call[p].kind /\ c.actor = call[p].actor
  BY OwnCall DEF Fit, Shaped, Steps
<1>5. Fit(c, named[p], grant, Newest, authority)
  <2> HIDE DEF c
  <2> QED
    BY <1>2, <1>3, <1>4, OwnCall DEF Fit, Authorized, Whole, Conditional, Told
<1> QED
  BY <1>2, <1>5, OneStep

LEMMA Authorizing ==
  ASSUME IInv, NEW p \in Process, Authorize(p)
  PROVE  IInv'
<1>1. To(p, "rendered") /\ UNCHANGED <<named, authority, server>> /\ call[p].at = "authorize"
  BY Still DEF Authorize
<1>2. call[p].kind # "flat"
  BY <1>1, Other DEF Steps, FlatSteps
<1>3. [user |-> call[p].actor, gen |-> Newest, scope |-> grant[call[p].actor]] \in named[p]
  BY <1>1, <1>2, OwnCall DEF Fit, Authorized
<1>4. call[p].got \in named[p]
  BY <1>3 DEF Authorize, Current
<1> QED
  BY <1>1, <1>2, <1>4, Moves DEF Steps

LEMMA Delivering ==
  ASSUME IInv, NEW p \in Process, Deliver(p) \/ WriteGuidance(p)
  PROVE  IInv'
<1>1. /\ To(p, "answered") /\ UNCHANGED <<named, authority, server>>
      /\ call[p].at = "rendered" /\ call[p].kind # "flat"
  BY Still DEF Deliver, WriteGuidance, machine
<1>2. call[p].got \in named[p]
  BY <1>1, OwnCall DEF Fit, Authorized, Told
<1> QED
  BY <1>1, <1>2, Moves DEF Steps

LEMMA FlatCalls ==
  ASSUME IInv, NEW p \in Process, BeginFlat(p) \/ ReadFlat(p) \/ DeliverFlat(p)
  PROVE  IInv'
<1>0. UNCHANGED <<named, authority, server>>
  BY Still DEF BeginFlat, ReadFlat, DeliverFlat
<1>1. CASE BeginFlat(p)
  <2> DEFINE c == [Idle EXCEPT !.at = "open", !.kind = "flat"]
  <2>1. Shaped(c) /\ c.at = "open" /\ c.kind = "flat"
    BY DEF Shaped, Idle, Steps
  <2>2. Set(p, c)
    BY <1>1 DEF BeginFlat
  <2> HIDE DEF c
  <2>3. Fit(c, named[p], grant, Newest, authority)
    BY <2>1 DEF Fit, Authorized, Whole, Conditional, FlatSteps
  <2> QED
    BY <1>0, <2>2, <2>3, OneStep
<1>2. CASE ReadFlat(p)
  <2>1. PICK b : b = IF authority \in {"flat", "admitted"} THEN 1 ELSE 0
    OBVIOUS
  <2> DEFINE c == [call[p] EXCEPT !.at = "rendered", !.base = b]
  <2>2. Set(p, c) /\ call[p].at = "open"
    BY <1>2, <2>1 DEF ReadFlat
  <2>3. /\ Shaped(c) /\ c.at = "rendered" /\ c.kind = call[p].kind /\ c.base = b
        /\ c.actor = call[p].actor /\ c.got = call[p].got
    BY OwnCall DEF Fit, Shaped, Steps
  <2>4. b # 1 => authority \in {"moved", "generation"}
    BY <2>1 DEF IInv
  <2> HIDE DEF c
  <2>5. Fit(c, named[p], grant, Newest, authority)
    BY <2>2, <2>3, <2>4, OwnCall DEF Fit, Authorized, Whole, Conditional, FlatSteps
  <2> QED
    BY <1>0, <2>2, <2>5, OneStep
<1>3. CASE DeliverFlat(p)
  <2> DEFINE c == [call[p] EXCEPT !.at = "answered"]
  <2>1. Set(p, c) /\ call[p].at = "rendered" /\ call[p].kind = "flat" /\ authority = "flat"
    BY <1>3 DEF DeliverFlat, To, Flat
  <2>2. Shaped(c) /\ c.at = "answered" /\ c.kind = "flat" /\ c.base = call[p].base
    BY <2>1, OwnCall DEF Fit, Shaped, Steps
  <2>3. call[p].base = 1
    BY <2>1, OwnCall DEF Fit, Whole
  <2> HIDE DEF c
  <2>4. Fit(c, named[p], grant, Newest, authority)
    BY <2>2, <2>3 DEF Fit, Authorized, Whole, Conditional, FlatSteps
  <2> QED
    BY <1>0, <2>1, <2>4, OneStep
<1> QED
  BY <1>1, <1>2, <1>3

LEMMA Preparing ==
  ASSUME IInv, NEW p \in Process, CaptureRevision(p) \/ ExplicitRevision(p)
  PROVE  IInv'
<1>1. PICK r : Set(p, [call[p] EXCEPT !.at = "send", !.base = r, !.first = r])
  BY DEF CaptureRevision, ExplicitRevision
<1> DEFINE c == [call[p] EXCEPT !.at = "send", !.base = r, !.first = r]
<1>2. call[p].at = "prepare" /\ UNCHANGED <<named, authority, server>>
  BY Still DEF CaptureRevision, ExplicitRevision
<1>3. call[p].kind # "flat"
  BY <1>2, Other DEF Steps, FlatSteps
<1>4. /\ Shaped(c) /\ c.at = "send" /\ c.kind = call[p].kind /\ c.actor = call[p].actor
      /\ c.base = r /\ c.first = r
  BY OwnCall DEF Fit, Shaped, Steps
<1>5. Fit(c, named[p], grant, Newest, authority)
  <2> HIDE DEF c
  <2> QED
    BY <1>2, <1>3, <1>4, OwnCall DEF Fit, Authorized, Whole, Conditional, Told
<1> QED
  BY <1>1, <1>2, <1>5, OneStep

LEMMA Retrying ==
  ASSUME IInv, NEW p \in Process, NotCommitted(p) \/ Retry(p)
  PROVE  IInv'
<1>1. /\ UNCHANGED <<named, authority, server>>
      /\ call[p].at \in {"send", "applied", "absent"}
      /\ \E at \in {"absent", "committed", "send"} : To(p, at)
  BY Still DEF NotCommitted, Retry
<1>2. call[p].kind # "flat"
  BY <1>1, Other DEF Steps, FlatSteps
<1>3. call[p].base = call[p].first
  BY <1>1, OwnCall DEF Fit, Conditional
<1> QED
  BY <1>1, <1>2, <1>3, Moves DEF Steps, Told

LEMMA Fetching ==
  ASSUME IInv, NEW p \in Process, RefreshCommitted(p) \/ Fetch(p)
  PROVE  IInv'
<1>0. UNCHANGED <<named, authority, server>> /\ call[p].at \in {"committed", "fetch"}
  BY Still DEF RefreshCommitted, Fetch
<1>1. call[p].kind # "flat"
  BY <1>0, Other DEF Steps, FlatSteps
<1>2. CASE RefreshCommitted(p)
  <2> DEFINE c == [call[p] EXCEPT !.at = "fetch", !.base = 0, !.first = 0]
  <2>1. Set(p, c)
    BY <1>2 DEF RefreshCommitted
  <2>2. Shaped(c) /\ c.at = "fetch" /\ c.kind = call[p].kind /\ c.actor = call[p].actor
    BY OwnCall DEF Fit, Shaped, Steps
  <2> HIDE DEF c
  <2>3. Fit(c, named[p], grant, Newest, authority)
    BY <1>0, <1>1, <2>2, OwnCall DEF Fit, Authorized, Whole, Conditional, Told
  <2> QED
    BY <1>0, <2>1, <2>3, OneStep
<1>3. CASE Fetch(p)
  <2>1. PICK m, r : m = Current(call[p].actor) /\ r = replica[call[p].actor]
    OBVIOUS
  <2> DEFINE c == [call[p] EXCEPT !.at = "install", !.got = m, !.from = r]
  <2>2. Set(p, c)
    BY <1>3, <2>1 DEF Fetch
  <2>3. /\ Shaped(c) /\ c.at = "install" /\ c.kind = call[p].kind
        /\ c.actor = call[p].actor /\ c.got = m
    BY OwnCall DEF Fit, Shaped, Steps
  <2>4. m = [user |-> call[p].actor, gen |-> Newest, scope |-> grant[call[p].actor]]
    BY <2>1 DEF Current
  <2> HIDE DEF c
  <2>5. Fit(c, named[p], grant, Newest, authority)
    BY <1>0, <1>1, <2>3, <2>4, OwnCall DEF Fit, Authorized, Whole, Conditional, Told
  <2> QED
    BY <1>0, <2>2, <2>5, OneStep
<1> QED
  BY <1>2, <1>3

LEMMA Installing ==
  ASSUME IInv, NEW p \in Process, Install(p) \/ Confirm(p)
  PROVE  IInv'
<1>0. UNCHANGED <<named, authority, server>> /\ call[p].at \in {"install", "confirm"}
  BY Still DEF Install, Confirm, machine
<1>1. call[p].kind # "flat"
  BY <1>0, Other DEF Steps, FlatSteps
<1>2. call[p].got \in named[p]
  BY <1>0, <1>1, OwnCall DEF Fit, Authorized, Told
<1>3. CASE Install(p)
  <2> DEFINE c == [call[p] EXCEPT !.at = "confirm", !.from = Nothing]
  <2>1. Set(p, c)
    BY <1>3 DEF Install
  <2>2. /\ Shaped(c) /\ c.at = "confirm" /\ c.kind = call[p].kind
        /\ c.actor = call[p].actor /\ c.got = call[p].got
    BY OwnCall DEF Fit, Shaped, Steps
  <2> HIDE DEF c
  <2>3. Fit(c, named[p], grant, Newest, authority)
    BY <1>0, <1>1, <1>2, <2>2, OwnCall DEF Fit, Authorized, Whole, Conditional, Told
  <2> QED
    BY <1>0, <2>1, <2>3, OneStep
<1>4. CASE Confirm(p)
  <2>1. To(p, "rendered")
    BY <1>4 DEF Confirm
  <2> QED
    BY <1>0, <1>1, <1>2, <2>1, Moves DEF Steps
<1> QED
  BY <1>3, <1>4

LEMMA Ending ==
  ASSUME IInv, NEW p \in Process, End(p)
  PROVE  IInv'
<1>1. Fit(Idle, {}, grant, Newest, authority)
  BY DEF Fit, Shaped, Idle, Steps, Authorized, Whole, Conditional
<1>2. call' = [call EXCEPT ![p] = Idle] /\ named' = [named EXCEPT ![p] = {}]
  BY DEF End, Set
<1>3. UNCHANGED <<authority, server>>
  BY DEF End, machine
<1> QED
  BY <1>1, <1>2, <1>3, OneCall

-----------------------------------------------------------------------------
(* The server moves on: its new answer is named for every call that is      *)
(* open.                                                                    *)
LEMMA Renaming ==
  ASSUME NEW c, NEW n, NEW g, NEW h, NEW s, Fit(c, n, g, h, s), NEW g2, NEW h2, NEW m,
         m = IF c.at = "idle" \/ c.actor = Nobody THEN n
             ELSE n \cup {[user |-> c.actor, gen |-> h2, scope |-> g2[c.actor]]}
  PROVE  Fit(c, m, g2, h2, s)
  BY DEF Fit, Authorized

LEMMA Committing ==
  ASSUME IInv, NEW p \in Process, Commit(p)
  PROVE  IInv'
<1>1. PICK at \in {"committed", "applied"} : To(p, at)
  BY DEF Commit
<1>2. /\ call[p].at = "send" /\ UNCHANGED <<authority, grant>>
      /\ docs[Newest] = call[p].base /\ Renamed
      /\ lastWrite' = [replaced |-> docs[Newest], preparedOn |-> call[p].first]
  BY DEF Commit, machine
<1>3. call[p].kind # "flat" /\ call[p].base = call[p].first
  BY <1>2, Other, OwnCall DEF Steps, FlatSteps, Fit, Conditional
<1>4. WritesReplaceWhatTheyWerePreparedOn'
  BY <1>2, <1>3 DEF WritesReplaceWhatTheyWerePreparedOn
<1> DEFINE c == [call[p] EXCEPT !.at = at]
<1>5. call' = [call EXCEPT ![p] = c]
  BY <1>1 DEF To, Set
<1>6. Fit(c, named[p], grant, Newest, authority)
  BY <1>2, <1>3, OwnCall, Moving DEF Steps, Told
<1>7. c.at # "idle" /\ call[p].at # "idle" /\ c.actor = call[p].actor
  BY <1>2, OwnCall DEF Fit, Shaped
<1> HIDE DEF c
<1>8. ASSUME NEW q \in Process
      PROVE  Fit(call'[q], named'[q], grant', Newest', authority')
  <2>1. Fit(call'[q], named[q], grant, Newest, authority)
    BY <1>5, <1>6 DEF IInv
  <2>2. named'[q] = IF call'[q].at = "idle" \/ call'[q].actor = Nobody THEN named[q]
                    ELSE named[q] \cup {[user |-> call'[q].actor, gen |-> Newest',
                                         scope |-> grant'[call'[q].actor]]}
    BY <1>2, <1>5, <1>7 DEF Renamed, Newest, IInv
  <2> QED
    BY <2>1, <2>2, <1>2, Renaming
<1>9. /\ DOMAIN call' = Process /\ call' = [q \in Process |-> call'[q]]
      /\ named' = [q \in Process |-> named'[q]]
  BY <1>2, <1>5 DEF IInv, Renamed
<1> QED
  BY <1>2, <1>4, <1>8, <1>9 DEF IInv

LEMMA Moved ==
  ASSUME IInv, Advance \/ \E u \in User, s \in Scope : Regrant(u, s)
  PROVE  IInv'
<1>1. UNCHANGED <<authority, call, lastWrite>> /\ Renamed
  BY DEF Advance, Regrant, Change, machine
<1>2. ASSUME NEW q \in Process
      PROVE  Fit(call'[q], named'[q], grant', Newest', authority')
  <2>1. Fit(call[q], named[q], grant, Newest, authority)
    BY OwnCall
  <2>2. named'[q] = IF call[q].at = "idle" \/ call[q].actor = Nobody THEN named[q]
                    ELSE named[q] \cup {[user |-> call[q].actor, gen |-> Newest',
                                         scope |-> grant'[call[q].actor]]}
    BY <1>1 DEF Renamed, Newest
  <2> QED
    BY <2>1, <2>2, <1>1, Renaming
<1>3. named' = [q \in Process |-> named'[q]]
  BY <1>1 DEF Renamed
<1> QED
  BY <1>1, <1>2, <1>3 DEF IInv, WritesReplaceWhatTheyWerePreparedOn

(* A conversion that moved the files never gives the store back to them.    *)
LEMMA Converting ==
  ASSUME IInv, Convert
  PROVE  IInv'
<1>1. UNCHANGED <<call, named, docs, grant, lastWrite>>
  BY DEF Convert, Change, server
<1>2. /\ authority' \in {"flat", "admitted", "moved", "generation"}
      /\ authority \in {"moved", "generation"} => authority' \in {"moved", "generation"}
  BY DEF Convert
<1>3. ASSUME NEW q \in Process
      PROVE  Fit(call[q], named[q], grant, Newest, authority')
  BY <1>2, OwnCall DEF Fit, Whole
<1>4. Newest' = Newest
  BY <1>1 DEF Newest
<1> QED
  BY <1>1, <1>2, <1>3, <1>4 DEF IInv, WritesReplaceWhatTheyWerePreparedOn

LEMMA OtherCalls ==
  ASSUME IInv, UNCHANGED <<call, named, authority, docs, grant, lastWrite>>
  PROVE  IInv'
  BY DEF IInv, Newest, WritesReplaceWhatTheyWerePreparedOn

LEMMA World ==
  ASSUME IInv, Rebind \/ (\E u \in User \cup {Nobody} : Login(u))
                 \/ (\E u \in User : Damage(u)) \/ UNCHANGED avars
  PROVE  IInv'
<1>1. UNCHANGED <<call, named, authority, docs, grant, lastWrite>>
  BY DEF Rebind, Login, Damage, Change, machine, server, avars
<1> QED
  BY <1>1, OtherCalls

LEMMA Stepping ==
  ASSUME IInv, NEW p \in Process, Step(p)
  PROVE  IInv'
  BY Beginning, Admitting, Authorizing, Delivering, FlatCalls, Preparing, Retrying, Fetching,
     Installing, Ending, Committing
     DEF Step

LEMMA Preserved == IInv /\ [ANext]_avars => IInv'
  BY Stepping, Moved, Converting, World DEF ANext

-----------------------------------------------------------------------------
(* What a call tells an agent was authorized, or found whole, when it was   *)
(* told (mcp/read_dispatch.py _read: nothing is locked between the capture  *)
(* and the answer), and a write replaces what it was prepared on (sync/     *)
(* generation_writes.py: retries keep the saved revision).                  *)
THEOREM CallsStand == ASpec => []CallsAreSound
  BY Start, Preserved, Says, PTL DEF ASpec

-----------------------------------------------------------------------------
(* The repair of a judgment.                                                *)

Sagas == [status : {"active", "recovery_required", "committed", "abandoned"},
          fence : Nat, lease : Nat, over : BOOLEAN]
Actions == [id : Nat, disposition : Dispositions, status : {"active", "recovery_required"},
            fence : Nat, lease : Nat]
Sessions == [at : {"idle", "lookup", "confirm", "dispatch", "waiting"}, action : Actions,
             resend : BOOLEAN]

(* An action was made for a lease that had run out, and that has not been   *)
(* renewed as long as its number stands.                                    *)
SawTheEnd(a, s) ==
  a.status = "active" =>
    a.lease <= s.lease /\ (a.lease = s.lease => s.over \/ s.status # "active")

(* An accepted action is of an earlier fence, or it abandoned the judgment  *)
(* for good.                                                                *)
Past(a, s) ==
  \/ a.fence < s.fence
  \/ a.fence = s.fence /\ s.status = "abandoned"

(* A command dispatches what it saved, and resends what was.                *)
Backed(c, d) ==
  c.at = "dispatch" \/ (c.at \in {"lookup", "confirm"} /\ c.resend) => c.action \in d

RTypes ==
  /\ minted \in Nat /\ saga \in Sagas
  /\ accepted \subseteq Actions /\ disk \subseteq Actions
  /\ session \in [Person -> Sessions]

RInv ==
  /\ RTypes
  /\ RepairSound
  /\ \A a \in disk : SawTheEnd(a, saga)
  /\ \A p \in Person : SawTheEnd(session[p].action, saga) \/ session[p].at = "idle"
  /\ \A a \in accepted : Past(a, saga)
  /\ \A p \in Person : Backed(session[p], disk)

LEMMA RepairStart == JInit => RInv
<1> SUFFICES ASSUME JInit PROVE RInv
  OBVIOUS
<1>1. NoAction \in Actions
  BY DEF NoAction, Actions, Dispositions
<1>2. NoSession \in Sessions /\ NoSession.at = "idle"
  BY <1>1 DEF NoSession, Sessions
<1>3. RTypes
  BY <1>2 DEF JInit, RTypes, Sagas
<1>4. RepairSound
  BY DEF JInit, RepairSound, SentIsSaved, WorkerUndisturbed, OneRepairPerState
<1> QED
  BY <1>2, <1>3, <1>4 DEF JInit, RInv, Backed

(* One command moves, and the judgment and what was sent stay.              *)
LEMMA OneSession ==
  ASSUME RInv, NEW p \in Person, NEW c \in Sessions, Put(p, c),
         minted' \in Nat, UNCHANGED <<saga, accepted, robbed, dispatched, disk>>,
         SawTheEnd(c.action, saga) \/ c.at = "idle", Backed(c, disk)
  PROVE  RInv'
<1>1. session' = [session EXCEPT ![p] = c]
  BY DEF Put
<1>2. RTypes'
  BY <1>1 DEF RInv, RTypes
<1>3. RepairSound'
  BY DEF RInv, RepairSound, SentIsSaved, WorkerUndisturbed, OneRepairPerState
<1>4. ASSUME NEW q \in Person
      PROVE  /\ SawTheEnd(session'[q].action, saga) \/ session'[q].at = "idle"
             /\ Backed(session'[q], disk)
  BY <1>1 DEF RInv, RTypes
<1> QED
  BY <1>2, <1>3, <1>4 DEF RInv

LEMMA Inspecting ==
  ASSUME RInv, NEW p \in Person, NEW d \in Dispositions, Inspect(p, d)
  PROVE  RInv'
<1>1. PICK a, s, n : a = Bind(saga, d) /\ s = saga /\ n = minted
  OBVIOUS
<1>2. s \in Sagas /\ n \in Nat
  BY <1>1 DEF RInv, RTypes
<1>3. a = [id |-> n + 1, disposition |-> d, status |-> s.status, fence |-> s.fence,
           lease |-> IF s.status = "active" THEN s.lease ELSE 0]
  BY <1>1 DEF Bind
<1>4. s.status = "recovery_required" \/ (s.status = "active" /\ s.over)
  BY <1>1 DEF Inspect, Eligible
<1>5. a \in Actions
  BY <1>2, <1>3, <1>4 DEF Actions, Sagas
<1>6. SawTheEnd(a, s)
  BY <1>2, <1>3, <1>4 DEF SawTheEnd, Sagas
<1> DEFINE c == [at |-> "lookup", action |-> a, resend |-> FALSE]
<1>7. c \in Sessions /\ c.action = a /\ Backed(c, disk)
  BY <1>5 DEF Sessions, Backed
<1>8. Put(p, c) /\ minted' \in Nat /\ UNCHANGED <<saga, accepted, robbed, dispatched, disk>>
  BY <1>1, <1>2 DEF Inspect, service
<1> HIDE DEF c
<1> QED
  BY <1>1, <1>6, <1>7, <1>8, OneSession

LEMMA Commanding ==
  ASSUME RInv, NEW p \in Person, (\E a \in disk : Reload(p, a)) \/ LookUp(p) \/ Stop(p)
  PROVE  RInv'
<1>0. minted' \in Nat /\ UNCHANGED <<saga, accepted, robbed, dispatched, disk>>
  BY DEF Reload, LookUp, Stop, service, RInv, RTypes
<1>1. session[p] \in Sessions
  BY DEF RInv, RTypes
<1>2. ASSUME Put(p, NoSession) PROVE RInv'
  <2>1. NoSession \in Sessions /\ NoSession.at = "idle"
    BY DEF NoSession, Sessions, NoAction, Actions, Dispositions
  <2> QED
    BY <1>0, <1>2, <2>1, OneSession DEF Backed
<1>3. ASSUME NEW a \in disk, Reload(p, a) PROVE RInv'
  <2> DEFINE c == [at |-> "lookup", action |-> a, resend |-> TRUE]
  <2>1. c \in Sessions /\ c.action = a /\ Backed(c, disk)
    BY DEF RInv, RTypes, Sessions, Backed
  <2>2. Put(p, c) /\ SawTheEnd(a, saga)
    BY <1>3 DEF Reload, RInv
  <2> HIDE DEF c
  <2> QED
    BY <1>0, <2>1, <2>2, OneSession
<1>4. ASSUME GoTo(p, "confirm"), session[p].at = "lookup" PROVE RInv'
  <2> DEFINE c == [session[p] EXCEPT !.at = "confirm"]
  <2>1. /\ c \in Sessions /\ c.at = "confirm" /\ c.action = session[p].action
        /\ c.resend = session[p].resend
    BY <1>1 DEF Sessions
  <2>2. Put(p, c)
    BY <1>4 DEF GoTo
  <2> HIDE DEF c
  <2>3. SawTheEnd(c.action, saga) /\ Backed(c, disk)
    BY <1>4, <2>1 DEF RInv, Backed
  <2> QED
    BY <1>0, <2>1, <2>2, <2>3, OneSession
<1> QED
  BY <1>2, <1>3, <1>4 DEF LookUp, Stop

LEMMA Saving ==
  ASSUME RInv, NEW p \in Person, SaveConfirmed(p)
  PROVE  RInv'
<1>1. PICK a : a = session[p].action
  OBVIOUS
<1>2. session[p] \in Sessions /\ a \in Actions
  BY <1>1 DEF RInv, RTypes, Sessions
<1>3. /\ session[p].at = "confirm" /\ disk' = disk \cup {a} /\ GoTo(p, "dispatch")
      /\ session[p].resend \/ \A old \in disk : old.id # a.id
      /\ UNCHANGED <<saga, accepted, robbed, dispatched, minted>>
  BY <1>1 DEF SaveConfirmed, service
<1>4. SawTheEnd(a, saga) /\ (session[p].resend => a \in disk)
  BY <1>1, <1>3 DEF RInv, Backed
<1> DEFINE c == [session[p] EXCEPT !.at = "dispatch"]
<1>5. c \in Sessions /\ c.action = a
  BY <1>1, <1>2 DEF Sessions
<1>6. session' = [session EXCEPT ![p] = c]
  BY <1>3 DEF GoTo, Put
<1> HIDE DEF c
<1>7. RTypes'
  BY <1>2, <1>3, <1>5, <1>6 DEF RInv, RTypes
<1>8. \A one, other \in disk' : one.id = other.id => one = other
  BY <1>3, <1>4 DEF RInv, RepairSound, SentIsSaved
<1>9. RepairSound'
  BY <1>3, <1>8 DEF RInv, RepairSound, SentIsSaved, WorkerUndisturbed, OneRepairPerState
<1>10. ASSUME NEW q \in Person
       PROVE  /\ SawTheEnd(session'[q].action, saga) \/ session'[q].at = "idle"
              /\ Backed(session'[q], disk')
  BY <1>3, <1>4, <1>5, <1>6 DEF RInv, RTypes, Backed
<1> QED
  BY <1>3, <1>4, <1>7, <1>9, <1>10 DEF RInv

LEMMA Dispatching ==
  ASSUME RInv, NEW p \in Person, Dispatch(p)
  PROVE  RInv'
<1>1. PICK a : a = session[p].action
  OBVIOUS
<1>2. /\ session[p].at = "dispatch" /\ dispatched' = dispatched \cup {a} /\ GoTo(p, "waiting")
      /\ UNCHANGED <<saga, accepted, robbed, disk, minted>>
  BY <1>1 DEF Dispatch, service
<1>3. a \in disk /\ session[p] \in Sessions
  BY <1>1, <1>2 DEF RInv, RTypes, Backed
<1> DEFINE c == [session[p] EXCEPT !.at = "waiting"]
<1>4. c \in Sessions /\ c.at = "waiting" /\ c.action = a
  BY <1>1, <1>3 DEF Sessions
<1>5. session' = [session EXCEPT ![p] = c]
  BY <1>2 DEF GoTo, Put
<1> HIDE DEF c
<1>6. RTypes'
  BY <1>2, <1>4, <1>5 DEF RInv, RTypes
<1>7. RepairSound'
  BY <1>2, <1>3 DEF RInv, RepairSound, SentIsSaved, WorkerUndisturbed, OneRepairPerState
<1>8. ASSUME NEW q \in Person
      PROVE  /\ SawTheEnd(session'[q].action, saga) \/ session'[q].at = "idle"
             /\ Backed(session'[q], disk)
  BY <1>3, <1>4, <1>5 DEF RInv, RTypes, Backed
<1> QED
  BY <1>2, <1>6, <1>7, <1>8 DEF RInv

(* What became of the judgment since: a renewal has a new number, and       *)
(* without one a lease that ran out has run out and a worker that is gone   *)
(* is gone.                                                                 *)
Later(s, t) ==
  \/ t.lease > s.lease
  \/ t.lease = s.lease /\ (s.over => t.over) /\ (s.status # "active" => t.status # "active")

LEMMA StillOver ==
  ASSUME NEW s \in Sagas, NEW t \in Sagas, NEW a \in Actions, SawTheEnd(a, s), Later(s, t)
  PROVE  SawTheEnd(a, t)
  BY DEF Sagas, Actions, SawTheEnd, Later

LEMMA Working ==
  ASSUME RInv, WorkerSteps
  PROVE  RInv'
<1>1. PICK s, t : s = saga /\ t = saga'
  OBVIOUS
<1>2. s \in Sagas /\ s.status = "active"
  BY <1>1 DEF RInv, RTypes, WorkerSteps
<1>3. \/ t = [s EXCEPT !.lease = @ + 1, !.over = FALSE]
      \/ t = [s EXCEPT !.over = TRUE]
      \/ t = [s EXCEPT !.status = "recovery_required"]
      \/ t = [s EXCEPT !.status = "committed"]
  BY <1>1 DEF WorkerSteps
<1>4. t \in Sagas /\ Later(s, t) /\ t.fence = s.fence
  <2>1. CASE t = [s EXCEPT !.lease = @ + 1, !.over = FALSE]
    <3>1. PICK n : n = s.lease + 1
      OBVIOUS
    <3>2. n \in Nat /\ n > s.lease
      BY <1>2, <3>1 DEF Sagas
    <3>3. t = [s EXCEPT !.lease = n, !.over = FALSE]
      BY <2>1, <3>1
    <3>4. t \in Sagas /\ t.lease = n /\ t.fence = s.fence
      BY <1>2, <3>2, <3>3 DEF Sagas
    <3> QED
      BY <3>2, <3>4 DEF Later
  <2>2. CASE t = [s EXCEPT !.over = TRUE]
    <3>1. t \in Sagas /\ t.lease = s.lease /\ t.fence = s.fence /\ t.over = TRUE
      BY <1>2, <2>2 DEF Sagas
    <3>2. t.status = s.status
      BY <1>2, <2>2 DEF Sagas
    <3> QED
      BY <3>1, <3>2 DEF Later
  <2>3. CASE \/ t = [s EXCEPT !.status = "recovery_required"]
             \/ t = [s EXCEPT !.status = "committed"]
    <3>1. t \in Sagas /\ t.lease = s.lease /\ t.fence = s.fence /\ t.over = s.over
      BY <1>2, <2>3 DEF Sagas
    <3>2. t.status # "active"
      BY <1>2, <2>3 DEF Sagas
    <3> QED
      BY <3>1, <3>2 DEF Later
  <2> QED
    BY <1>3, <2>1, <2>2, <2>3
<1>5. UNCHANGED <<accepted, robbed, dispatched, disk, minted, session>>
  BY DEF WorkerSteps
<1>6. ASSUME NEW a \in Actions, SawTheEnd(a, s) PROVE SawTheEnd(a, t)
  BY <1>2, <1>4, <1>6, StillOver
<1>7. \A a \in accepted : Past(a, t)
  BY <1>1, <1>2, <1>4 DEF RInv, Past
<1>8. RTypes' /\ RepairSound'
  BY <1>1, <1>4, <1>5
     DEF RInv, RTypes, RepairSound, SentIsSaved, WorkerUndisturbed, OneRepairPerState
<1>9. /\ \A a \in disk : SawTheEnd(a, t)
      /\ \A p \in Person : SawTheEnd(session[p].action, t) \/ session[p].at = "idle"
  BY <1>1, <1>6 DEF RInv, RTypes, Sessions
<1> QED
  BY <1>1, <1>5, <1>7, <1>8, <1>9 DEF RInv

LEMMA Serving ==
  ASSUME RInv, NEW a \in dispatched, Serve(a)
  PROVE  RInv'
<1>1. PICK s, t : s = saga /\ t = saga'
  OBVIOUS
<1>2. s \in Sagas /\ a \in disk /\ a \in Actions /\ SawTheEnd(a, s)
  BY <1>1 DEF RInv, RTypes, RepairSound, SentIsSaved
<1>3. dispatched' = dispatched \ {a} /\ UNCHANGED <<disk, minted, session>>
  BY DEF Serve
<1>4. CASE UNCHANGED service
  <2>1. UNCHANGED <<saga, accepted, robbed>>
    BY <1>4 DEF service
  <2>2. RepairSound'
    BY <2>1, <1>3 DEF RInv, RepairSound, SentIsSaved, WorkerUndisturbed, OneRepairPerState
  <2> QED
    BY <2>1, <2>2, <1>3 DEF RInv, RTypes
<1>5. CASE ~(UNCHANGED service)
  <2>1. /\ s.status = a.status /\ s.fence = a.fence
        /\ s.status = "active" => s.lease = a.lease
        /\ accepted' = accepted \cup {a}
        /\ robbed' = (robbed \/ (s.status = "active" /\ ~s.over))
        /\ t = [s EXCEPT !.status = IF a.disposition = "resume" THEN "active" ELSE "abandoned",
                         !.fence = Resulting(a), !.lease = @ + 1, !.over = FALSE]
    BY <1>1, <1>5 DEF Serve, Matches
  <2>2. /\ Resulting(a) \in Nat /\ Resulting(a) >= s.fence
        /\ Resulting(a) = s.fence => a.disposition # "resume"
    BY <1>2, <2>1 DEF Resulting, Actions, Sagas
  <2>3. /\ t \in Sagas /\ Later(s, t) /\ t.fence = Resulting(a)
        /\ a.disposition # "resume" => t.status = "abandoned"
    <3>1. PICK st : st = IF a.disposition = "resume" THEN "active" ELSE "abandoned"
      OBVIOUS
    <3>2. PICK f : f = Resulting(a)
      OBVIOUS
    <3>3. PICK n : n = s.lease + 1
      OBVIOUS
    <3>4. st \in {"active", "abandoned"} /\ f \in Nat /\ n \in Nat /\ n > s.lease
      BY <1>2, <2>2, <3>1, <3>2, <3>3 DEF Sagas
    <3>5. t = [s EXCEPT !.status = st, !.fence = f, !.lease = n, !.over = FALSE]
      BY <2>1, <3>1, <3>2, <3>3
    <3>6. t \in Sagas /\ t.lease = n /\ t.fence = f /\ t.status = st
      BY <1>2, <3>4, <3>5 DEF Sagas
    <3> QED
      BY <3>1, <3>2, <3>4, <3>6 DEF Later
  <2>4. s.status # "abandoned"
    BY <1>2, <2>1 DEF Actions
  <2>5. ASSUME NEW b \in accepted
        PROVE  b.fence < a.fence /\ b \in Actions
    BY <1>1, <2>1, <2>4 DEF RInv, RTypes, Past
  <2>6. \A one, other \in accepted' :
          one.fence = other.fence /\ one.status = other.status => one = other
    BY <1>2, <2>1, <2>5 DEF RInv, RepairSound, OneRepairPerState, Actions
  <2>7. \A b \in accepted' : Past(b, t)
    BY <1>2, <2>1, <2>2, <2>3, <2>5 DEF Past, Actions, Sagas
  <2>8. ~(s.status = "active" /\ ~s.over)
    BY <1>2, <2>1 DEF SawTheEnd
  <2>9. robbed' = FALSE
    BY <2>1, <2>8, Zenon DEF RInv, RepairSound, WorkerUndisturbed
  <2>10. RTypes' /\ RepairSound'
    <3>1. accepted' \subseteq disk
      BY <1>2, <2>1 DEF RInv, RepairSound, SentIsSaved
    <3>2. SentIsSaved'
      BY <3>1, <1>3 DEF RInv, RepairSound, SentIsSaved
    <3>3. WorkerUndisturbed' /\ OneRepairPerState'
      BY <2>6, <2>9 DEF WorkerUndisturbed, OneRepairPerState
    <3>4. RTypes'
      BY <1>1, <1>2, <1>3, <2>1, <2>3 DEF RInv, RTypes
    <3> QED
      BY <3>2, <3>3, <3>4 DEF RepairSound
  <2>11. ASSUME NEW b \in Actions, SawTheEnd(b, s) PROVE SawTheEnd(b, t)
    BY <1>2, <2>3, <2>11, StillOver
  <2>12. /\ \A b \in disk : SawTheEnd(b, t)
         /\ \A p \in Person : SawTheEnd(session[p].action, t) \/ session[p].at = "idle"
    BY <1>1, <2>11 DEF RInv, RTypes, Sessions
  <2> QED
    BY <1>1, <1>3, <2>7, <2>10, <2>12 DEF RInv
<1> QED
  BY <1>4, <1>5

LEMMA Waiting ==
  ASSUME RInv,
         (\E a \in dispatched : LoseRequest(a)) \/ (\E id \in 1..minted : WindowCloses(id))
           \/ UNCHANGED jvars
  PROVE  RInv'
<1>1. /\ UNCHANGED <<saga, accepted, robbed, disk, minted, session>>
      /\ dispatched' \subseteq dispatched
  BY DEF LoseRequest, WindowCloses, service, jvars
<1>2. RepairSound'
  BY <1>1 DEF RInv, RepairSound, SentIsSaved, WorkerUndisturbed, OneRepairPerState
<1> QED
  BY <1>1, <1>2 DEF RInv, RTypes

LEMMA RepairPreserved == RInv /\ [JNext]_jvars => RInv'
  BY Inspecting, Commanding, Saving, Dispatching, Serving, Working, Waiting DEF JNext

(* Whatever is delayed, killed, sent again or done by others: a repair is   *)
(* on disk before it is sent, disturbs no worker whose lease runs, and is   *)
(* the one repair of the state it names (cli/judgment_repair.py _prepare    *)
(* and _send, store/ recovery_actions.py).                                  *)
THEOREM RepairsAreSound == JSpec => []RepairSound
<1>1. RInv => RepairSound
  BY DEF RInv
<1> QED
  BY <1>1, RepairStart, RepairPreserved, PTL DEF JSpec

-----------------------------------------------------------------------------
(* The typed writes.                                                        *)

Statuses == {"none", "noop_observed", "revision_conflict_observed", "slug_conflict_observed",
             "no_change_observed"} \cup Everywhere
Persons == Author \cup {NoOne}
Records ==
  [kind : Kind \cup {"none"}, user : Persons, conn : Conn, base : Nat,
   phase : {"none", "prepared", "uncertain", "resolved"},
   result : [status : Statuses, unresolved : BOOLEAN]]
Answers == [status : Statuses, op : Op \cup {0}, base : Nat, current : Nat]
Attempts ==
  [at : {"idle", "send", "marked", "waiting", "answered", "ask", "told"},
   mode : {"submit", "recover", "retry"}, actor : Persons, conn : Conn,
   before : {"none", "prepared", "uncertain", "resolved"}, sent : Nat, answer : Answers]
LogEntries == [op : Op \cup {0}, user : Persons, kind : Kind, over : Nat]

FTypes ==
  /\ login \in Persons /\ conn \in Conn
  /\ saved \in [Op -> Records] /\ attempt \in [Op -> Attempts]
  /\ log \in [Conn -> Seq(LogEntries)]
  /\ \A r \in wire : r.op \in Op

(* An entry of server c fits the record of the operation it is of.          *)
Stands(c, e, s) ==
  c = s.conn /\ e.user = s.user /\ (s.base # 0 => e.over = s.base)

LogInv ==
  \A c \in Conn :
    /\ \A i \in DOMAIN log[c] : log[c][i].op \in Op =>
         Stands(c, log[c][i], saved[log[c][i].op]) /\ saved[log[c][i].op].phase # "none"
    /\ \A i, j \in DOMAIN log[c] : log[c][i].op \in Op /\ log[c][i].op = log[c][j].op => i = j

(* The requests of operation o that are under way.                          *)
Mine(o) == {r \in wire : r.op = o}

(* A record, the call that works on it, its requests W and its entries I.   *)
RecordFits(s, W, I) ==
  /\ s.base # 0 => s.kind \in Revised
  /\ s.phase # "none" => s.kind \in Kind
  /\ W # {} \/ I # {} => s.phase \in {"uncertain", "resolved"}
  /\ \A r \in W : r.conn = s.conn /\ r.user = s.user /\ r.base = s.base

CallFits(o, s, a, I) ==
  /\ a.at # "idle" => s.phase \in {"prepared", "uncertain"}
  /\ a.at \in {"marked", "waiting", "answered"} => s.phase = "uncertain"
  /\ a.at \in {"waiting", "answered", "told"} => s.conn = a.conn
  /\ a.at \in {"ask", "told"} => a.before = "none"
  /\ a.at \in {"answered", "told"} /\ a.answer.status = "committed" /\ a.answer.op = o => I # {}

(* The first request of an operation is its only one while its call lasts.  *)
FirstOnly(a, W, I) ==
  a.before = "prepared" =>
    /\ a.at = "marked" => W = {} /\ I = {}
    /\ a.at = "waiting" => I = {} /\ \A r, q \in W : r = q /\ r.n = a.sent
    /\ a.at = "answered" => W = {} /\ (a.answer.status = "refused_early" => I = {})

(* What is recorded for good.                                               *)
Truthful(s, W, I) ==
  s.phase = "resolved" =>
    /\ s.result.status = "committed" => I # {}
    /\ s.result.status \notin {"committed", "expired"} => W = {} /\ I = {}

OpInv(o, s, a, W, I) ==
  RecordFits(s, W, I) /\ CallFits(o, s, a, I) /\ FirstOnly(a, W, I) /\ Truthful(s, W, I)

FamInv ==
  /\ FTypes /\ LogInv
  /\ \A o \in Op : OpInv(o, saved[o], attempt[o], Mine(o), Own(saved[o].conn, o))

-----------------------------------------------------------------------------
(* Where nothing was prepared nothing is written.                           *)
LEMMA NothingYet ==
  ASSUME FamInv, NEW o \in Op, saved[o].phase = "none"
  PROVE  \A c \in Conn : Own(c, o) = {}
BY DEF FamInv, LogInv, Own

(* One operation moves: its record to s, its call to a; the servers stay.   *)
LEMMA OneMoves ==
  ASSUME FamInv, NEW o \in Op, NEW s \in Records, NEW a \in Attempts, NEW W,
         saved' = [saved EXCEPT ![o] = s], attempt' = [attempt EXCEPT ![o] = a],
         log' = log, login' = login, conn' = conn,
         wire' = (wire \ Mine(o)) \cup W, \A r \in W : r.op = o,
         \/ saved[o].phase = "none"
         \/ s.conn = saved[o].conn /\ s.user = saved[o].user /\ s.base = saved[o].base
            /\ s.phase # "none",
         OpInv(o, s, a, W, Own(s.conn, o))
  PROVE  FamInv'
<1>1. /\ saved'[o] = s /\ attempt'[o] = a
      /\ \A d \in Op \ {o} : saved'[d] = saved[d] /\ attempt'[d] = attempt[d]
  BY DEF FamInv, FTypes
<1>2. FTypes'
  BY DEF FamInv, FTypes, Mine
<1>3. LogInv'
  <2>1. ASSUME NEW c \in Conn, NEW i \in DOMAIN log[c], log[c][i].op \in Op
        PROVE  Stands(c, log[c][i], saved'[log[c][i].op]) /\ saved'[log[c][i].op].phase # "none"
    <3>1. PICK d \in Op : d = log[c][i].op
      BY <2>1
    <3>2. Stands(c, log[c][i], saved[d]) /\ saved[d].phase # "none"
      BY <3>1 DEF FamInv, LogInv
    <3>3. CASE d = o
      BY <1>1, <3>1, <3>2, <3>3 DEF Stands
    <3>4. CASE d # o
      BY <1>1, <3>1, <3>2, <3>4
    <3> QED
      BY <3>3, <3>4
  <2> QED
    BY <2>1 DEF FamInv, LogInv
<1>4. Mine(o)' = W /\ \A d \in Op \ {o} : Mine(d)' = Mine(d)
  BY DEF Mine
<1>5. \A d : \A c : Own(c, d)' = Own(c, d)
  BY DEF Own
<1>6. ASSUME NEW d \in Op
      PROVE  OpInv(d, saved'[d], attempt'[d], Mine(d)', Own(saved[d].conn, d)')
  <2>1. CASE d = o
    BY <1>1, <1>4, <1>5, <2>1
  <2>2. CASE d # o
    BY <1>1, <1>4, <1>5, <2>2 DEF FamInv
  <2> QED
    BY <2>1, <2>2
<1> QED
  BY <1>2, <1>3, <1>6 DEF FamInv

LEMMA FStart == FInit => FamInv
<1> SUFFICES ASSUME FInit PROVE FamInv
  OBVIOUS
<1>1. Unsaved \in Records /\ NoAttempt \in Attempts
  BY DEF Records, Unsaved, NoResult, Statuses, Persons, Conn, Attempts, NoAttempt, Answers, NoAnswer
<1>2. FTypes
  BY <1>1 DEF FInit, FTypes, Persons, Conn
<1>3. LogInv
  BY DEF FInit, LogInv
<1>4. ASSUME NEW o \in Op
      PROVE  OpInv(o, saved[o], attempt[o], Mine(o), Own(saved[o].conn, o))
  <2>1. saved[o] = Unsaved /\ attempt[o] = NoAttempt /\ Mine(o) = {}
    BY DEF FInit, Mine
  <2>2. Unsaved.phase = "none" /\ Unsaved.base = 0 /\ Unsaved.conn \in Conn
    BY DEF Unsaved, Conn
  <2>3. Own(Unsaved.conn, o) = {}
    BY <2>2 DEF FInit, Own
  <2>4. NoAttempt.at = "idle" /\ NoAttempt.before = "none"
    BY DEF NoAttempt
  <2> QED
    BY <2>1, <2>2, <2>3, <2>4 DEF OpInv, RecordFits, CallFits, FirstOnly, Truthful
<1> QED
  BY <1>2, <1>3, <1>4 DEF FamInv

-----------------------------------------------------------------------------
(* The servers' documents.                                                  *)
LEMMA RevisionIsNat ==
  ASSUME FTypes, NEW c \in Conn, NEW kind
  PROVE  Revision(c, kind) \in Nat \ {0}
<1>1. Len(log[c]) \in Nat /\ DOMAIN log[c] = 1..Len(log[c])
  BY DEF FTypes
<1>2. IsFiniteSet(DOMAIN log[c])
  BY <1>1, FS_Interval
<1>3. IsFiniteSet(Entries(c, kind))
  BY <1>2, FS_Subset DEF Entries
<1>4. Cardinality(Entries(c, kind)) \in Nat
  BY <1>3, FS_CardinalityType
<1> QED
  BY <1>4 DEF Revision

(* A receipt is of an entry.                                                *)
LEMMA ReceiptType ==
  ASSUME NEW e \in LogEntries
  PROVE  Receipt(e) \in Answers /\ Receipt(e).op = e.op /\ Receipt(e).status = "committed"
BY DEF Receipt, LogEntries, Answers, Statuses, Everywhere

LEMMA ObservedType ==
  ASSUME NEW o \in Op, NEW status \in Statuses, NEW b \in Nat, NEW n \in Nat
  PROVE  /\ Observed(o, status, b, n) \in Answers
         /\ Observed(o, status, b, n).status = status
BY DEF Observed, Answers

LEMMA DeclinesType ==
  ASSUME FamInv, NEW r \in wire, NEW x \in Declines(r)
  PROVE  x \in Answers /\ x.status # "committed"
<1>1. r.op \in Op /\ r \in Mine(r.op)
  BY DEF FamInv, FTypes, Mine
<1>2. PICK o \in Op : o = r.op
  BY <1>1
<1>3. RecordFits(saved[o], Mine(o), Own(saved[o].conn, o)) /\ saved[o] \in Records
  BY <1>2 DEF FamInv, OpInv, FTypes
<1>4. r.base \in Nat /\ r.conn \in Conn
  BY <1>1, <1>2, <1>3 DEF RecordFits, Records
<1>5. PICK n : n = Revision(r.conn, saved[r.op].kind)
  OBVIOUS
<1>6. n \in Nat
  BY <1>4, <1>5, RevisionIsNat DEF FamInv
<1>7. PICK status \in Statuses \ {"committed"} : x = Observed(o, status, r.base, n)
  BY <1>2, <1>5 DEF Declines, Statuses, Everywhere, Refusal
<1> QED
  BY <1>4, <1>6, <1>7, ObservedType

-----------------------------------------------------------------------------
(* The steps of a call.                                                     *)

(* What is known of an operation and of the call that works on it.          *)
LEMMA OpKnown ==
  ASSUME FamInv, NEW o \in Op
  PROVE  /\ saved[o] \in Records /\ attempt[o] \in Attempts
         /\ OpInv(o, saved[o], attempt[o], Mine(o), Own(saved[o].conn, o))
         /\ wire = (wire \ Mine(o)) \cup Mine(o) /\ \A r \in Mine(o) : r.op = o
BY DEF FamInv, FTypes, Mine

LEMMA Resting ==
  ASSUME NEW a \in Attempts
  PROVE  LET b == [NoAttempt EXCEPT !.sent = a.sent]
         IN  b \in Attempts /\ b.at = "idle" /\ b.before = "none"
<1>1. PICK n : n = NoAttempt
  OBVIOUS
<1>2. n \in Attempts /\ n.at = "idle" /\ n.before = "none"
  BY <1>1 DEF NoAttempt, Attempts, Answers, NoAnswer, Statuses, Persons, Conn
<1>3. a.sent \in Nat
  BY DEF Attempts
<1> QED
  BY <1>1, <1>2, <1>3 DEF Attempts

(* A call at rest, or one that gives up, has nothing to answer for.         *)
LEMMA IdleFits ==
  ASSUME NEW o, NEW s, NEW a, NEW W, NEW I, RecordFits(s, W, I), Truthful(s, W, I),
         a.at \in {"idle", "send", "ask"}, a.at # "idle" => s.phase \in {"prepared", "uncertain"},
         a.at = "ask" => a.before = "none"
  PROVE  OpInv(o, s, a, W, I)
BY DEF OpInv, CallFits, FirstOnly

LEMMA Drafting ==
  ASSUME FamInv, NEW o \in Op, NEW kind \in Kind, NEW base \in Nat,
         base # 0 => kind \in Revised, Prepare(o, kind, base)
  PROVE  FamInv'
<1>1. PICK u, n, p, c : u = Unsaved /\ n = NoAttempt /\ p = login /\ c = conn
  OBVIOUS
<1>2. u \in Records /\ n \in Attempts /\ p \in Persons /\ c \in Conn
  BY <1>1 DEF Records, Unsaved, NoResult, Statuses, Persons, Conn, Attempts, NoAttempt, Answers,
     NoAnswer, FamInv, FTypes
<1>3. PICK s, a :
        /\ s = [u EXCEPT !.kind = kind, !.user = p, !.conn = c, !.base = base, !.phase = "prepared"]
        /\ a = [n EXCEPT !.at = "send", !.actor = p, !.conn = c]
  OBVIOUS
<1>4. s \in Records /\ s.kind = kind /\ s.base = base /\ s.phase = "prepared" /\ s.conn = c
  BY <1>2, <1>3 DEF Records
<1>5. a \in Attempts /\ a.at = "send"
  BY <1>2, <1>3 DEF Attempts
<1>6. /\ saved[o].phase = "none" /\ saved' = [saved EXCEPT ![o] = s]
      /\ attempt' = [attempt EXCEPT ![o] = a]
      /\ wire' = wire /\ log' = log /\ login' = login /\ conn' = conn
  BY <1>1, <1>3 DEF Prepare, Save, Continue, world
<1>7. Mine(o) = {} /\ Own(c, o) = {}
  BY <1>2, <1>6, NothingYet, OpKnown DEF OpInv, RecordFits
<1>8. OpInv(o, s, a, {}, Own(s.conn, o))
  <2>1. RecordFits(s, {}, Own(s.conn, o)) /\ Truthful(s, {}, Own(s.conn, o))
    BY <1>4, <1>7 DEF RecordFits, Truthful
  <2> QED
    BY <1>4, <1>5, <2>1, IdleFits
<1>9. wire' = (wire \ Mine(o)) \cup {} /\ \A r \in {} : r.op = o
  BY <1>6, <1>7
<1>10. \/ saved[o].phase = "none"
       \/ s.conn = saved[o].conn /\ s.user = saved[o].user /\ s.base = saved[o].base
          /\ s.phase # "none"
  BY <1>6
<1>11. PICK W : W = {}
  OBVIOUS
<1>12. /\ wire' = (wire \ Mine(o)) \cup W /\ \A r \in W : r.op = o
       /\ OpInv(o, s, a, W, Own(s.conn, o))
  BY <1>8, <1>9, <1>11
<1> QED
  BY <1>4, <1>5, <1>6, <1>10, <1>12, OneMoves

(* A step of the call alone.                                                *)
LEMMA CallMoves ==
  ASSUME FamInv, NEW o \in Op, NEW a \in Attempts, attempt' = [attempt EXCEPT ![o] = a],
         UNCHANGED <<saved, wire, log, login, conn>>,
         OpInv(o, saved[o], a, Mine(o), Own(saved[o].conn, o))
  PROVE  FamInv'
<1>1. PICK s, W : s = saved[o] /\ W = Mine(o)
  OBVIOUS
<1>2. s \in Records /\ saved' = [saved EXCEPT ![o] = s]
  BY <1>1 DEF FamInv, FTypes
<1>3. saved[o].phase = "none" \/ (s.conn = saved[o].conn /\ s.user = saved[o].user
                                  /\ s.base = saved[o].base /\ s.phase # "none")
  BY <1>1
<1>4. wire' = (wire \ Mine(o)) \cup W /\ \A r \in W : r.op = o
  BY <1>1, OpKnown
<1>5. OpInv(o, s, a, W, Own(s.conn, o))
  BY <1>1
<1> QED
  BY <1>2, <1>3, <1>4, <1>5, OneMoves

LEMMA Resuming ==
  ASSUME FamInv, NEW o \in Op, NEW mode \in {"recover", "retry"}, Resume(o, mode)
  PROVE  FamInv'
<1>1. PICK b, p, c : b = Rest(o) /\ p = login /\ c = conn
  OBVIOUS
<1>2. b \in Attempts /\ b.before = "none" /\ p \in Persons /\ c \in Conn
  BY <1>1, OpKnown, Resting DEF Rest, FamInv, FTypes
<1>3. PICK a : a = [b EXCEPT !.at = "ask", !.mode = mode, !.actor = p, !.conn = c]
  OBVIOUS
<1>4. a \in Attempts /\ a.at = "ask" /\ a.before = "none"
  BY <1>2, <1>3 DEF Attempts
<1>5. /\ attempt' = [attempt EXCEPT ![o] = a] /\ saved[o].phase \in {"prepared", "uncertain"}
      /\ UNCHANGED <<saved, wire, log, login, conn>>
  BY <1>1, <1>3 DEF Resume, Continue, world
<1>6. OpInv(o, saved[o], a, Mine(o), Own(saved[o].conn, o))
  BY <1>4, <1>5, OpKnown, IdleFits DEF OpInv
<1> QED
  BY <1>4, <1>5, <1>6, CallMoves

LEMMA Stopping ==
  ASSUME FamInv, NEW o \in Op, StopAttempt(o)
  PROVE  FamInv'
<1>1. PICK a : a = Rest(o)
  OBVIOUS
<1>2. a \in Attempts /\ a.at = "idle"
  BY <1>1, OpKnown, Resting DEF Rest
<1>3. attempt' = [attempt EXCEPT ![o] = a] /\ UNCHANGED <<saved, wire, log, login, conn>>
  BY <1>1 DEF StopAttempt, Continue, world
<1>4. OpInv(o, saved[o], a, Mine(o), Own(saved[o].conn, o))
  BY <1>2, OpKnown, IdleFits DEF OpInv
<1> QED
  BY <1>2, <1>3, <1>4, CallMoves

(* A record that was only prepared has sent nothing before it is marked.    *)
LEMMA Marked ==
  ASSUME FamInv, NEW o \in Op, Mark(o)
  PROVE  FamInv'
<1>1. PICK r, k, W, I : r = saved[o] /\ k = attempt[o] /\ W = Mine(o) /\ I = Own(saved[o].conn, o)
  OBVIOUS
<1>2. r \in Records /\ k \in Attempts /\ OpInv(o, r, k, W, I) /\ \A q \in W : q.op = o
  BY <1>1, OpKnown
<1>3. PICK s, a : s = [r EXCEPT !.phase = "uncertain"]
                  /\ a = [k EXCEPT !.at = "marked", !.before = r.phase]
  OBVIOUS
<1>4. /\ s \in Records /\ s.phase = "uncertain" /\ s.kind = r.kind /\ s.base = r.base
      /\ s.conn = r.conn /\ s.user = r.user
  BY <1>2, <1>3 DEF Records
<1>5. a \in Attempts /\ a.at = "marked" /\ a.before = r.phase
  <2>1. r.phase \in {"none", "prepared", "uncertain", "resolved"}
    BY <1>2 DEF Records
  <2> QED
    BY <1>2, <1>3, <2>1 DEF Attempts
<1>6. /\ k.at = "send" /\ saved' = [saved EXCEPT ![o] = s] /\ attempt' = [attempt EXCEPT ![o] = a]
      /\ wire' = wire /\ log' = log /\ login' = login /\ conn' = conn
  BY <1>1, <1>3 DEF Mark, Save, Continue, world
<1>7. r.phase \in {"prepared", "uncertain"}
  BY <1>2, <1>6 DEF OpInv, CallFits
<1>8. OpInv(o, s, a, W, I)
  <2>1. RecordFits(s, W, I)
    BY <1>2, <1>4, <1>7 DEF OpInv, RecordFits
  <2>2. CallFits(o, s, a, I)
    BY <1>4, <1>5 DEF CallFits
  <2>3. FirstOnly(a, W, I)
    BY <1>2, <1>5 DEF FirstOnly, OpInv, RecordFits
  <2>4. Truthful(s, W, I)
    BY <1>4 DEF Truthful
  <2> QED
    BY <2>1, <2>2, <2>3, <2>4 DEF OpInv
<1>9. wire' = (wire \ Mine(o)) \cup W /\ I = Own(s.conn, o)
  BY <1>1, <1>4, <1>6, OpKnown
<1>10. s.conn = saved[o].conn /\ s.user = saved[o].user /\ s.base = saved[o].base /\ s.phase # "none"
  BY <1>1, <1>4
<1>11. OpInv(o, s, a, W, Own(s.conn, o))
  BY <1>8, <1>9
<1> QED
  BY <1>2, <1>4, <1>5, <1>6, <1>9, <1>10, <1>11, OneMoves

LEMMA Sent ==
  ASSUME FamInv, NEW o \in Op, Send(o)
  PROVE  FamInv'
<1>1. PICK s, k, W, I : s = saved[o] /\ k = attempt[o] /\ W = Mine(o) /\ I = Own(saved[o].conn, o)
  OBVIOUS
<1>2. s \in Records /\ k \in Attempts /\ OpInv(o, s, k, W, I) /\ \A q \in W : q.op = o
  BY <1>1, OpKnown
<1>3. PICK a, n : n = k.sent + 1 /\ a = [k EXCEPT !.at = "waiting", !.sent = n]
  OBVIOUS
<1>4. a \in Attempts /\ a.at = "waiting" /\ a.before = k.before /\ a.sent = n /\ a.conn = k.conn
  <2>1. n \in Nat
    BY <1>2, <1>3 DEF Attempts
  <2> QED
    BY <1>2, <1>3, <2>1 DEF Attempts
<1>5. PICK route : wire' = wire \cup {Request(o, route)}
  BY DEF Send, StateRequest, StackRequest, ShareRequest, QuestionRequest
<1>6. PICK q : q = Request(o, route)
  OBVIOUS
<1>7. /\ k.at = "marked" /\ s.conn = k.conn /\ s.user = login
      /\ attempt' = [attempt EXCEPT ![o] = a] /\ saved' = saved
      /\ log' = log /\ login' = login /\ conn' = conn
  BY <1>1, <1>2, <1>3 DEF Send, MayRequest, Binds, Continue, world, FamInv, FTypes
<1>8. q.op = o /\ q.n = n /\ q.conn = s.conn /\ q.user = s.user /\ q.base = s.base
  BY <1>1, <1>3, <1>6, <1>7 DEF Request
<1>9. s.phase = "uncertain"
  BY <1>2, <1>7 DEF OpInv, CallFits
<1>10. OpInv(o, s, a, W \cup {q}, I)
  <2>1. RecordFits(s, W \cup {q}, I)
    BY <1>2, <1>8, <1>9 DEF OpInv, RecordFits
  <2>2. CallFits(o, s, a, I)
    BY <1>4, <1>7, <1>9 DEF CallFits
  <2>3. FirstOnly(a, W \cup {q}, I)
    BY <1>2, <1>4, <1>7, <1>8 DEF OpInv, FirstOnly
  <2>4. Truthful(s, W \cup {q}, I)
    BY <1>9 DEF Truthful
  <2> QED
    BY <2>1, <2>2, <2>3, <2>4 DEF OpInv
<1>11. wire' = (wire \ Mine(o)) \cup (W \cup {q}) /\ \A x \in W \cup {q} : x.op = o
  BY <1>1, <1>2, <1>5, <1>6, <1>8, OpKnown
<1>12. saved' = [saved EXCEPT ![o] = s]
  BY <1>1, <1>7 DEF FamInv, FTypes
<1>13. s.conn = saved[o].conn /\ s.user = saved[o].user /\ s.base = saved[o].base /\ s.phase # "none"
  BY <1>1, <1>9
<1>14. OpInv(o, s, a, W \cup {q}, Own(s.conn, o))
  BY <1>1, <1>10
<1> QED
  BY <1>2, <1>4, <1>7, <1>11, <1>12, <1>13, <1>14, OneMoves

(* A lookup names what is carried out, or that it is not.                   *)
LEMMA LookedUp ==
  ASSUME FamInv, NEW o \in Op, Lookup(o)
  PROVE  FamInv'
<1>1. PICK s, k, W, I : s = saved[o] /\ k = attempt[o] /\ W = Mine(o) /\ I = Own(saved[o].conn, o)
  OBVIOUS
<1>2. s \in Records /\ k \in Attempts /\ OpInv(o, s, k, W, I)
  BY <1>1, OpKnown
<1>3. PICK x : /\ attempt' = [attempt EXCEPT ![o] = [k EXCEPT !.at = "told", !.answer = x]]
               /\ \/ \E status \in {"refused_late", "expired", "absent"} :
                       x = Observed(o, status, 0, 0)
                  \/ \E i \in DOMAIN log[k.conn] : x = Receipt(log[k.conn][i])
  <2>1. PICK x \in {Observed(o, "refused_late", 0, 0)}
                   \cup {Receipt(log[k.conn][i]) : i \in DOMAIN log[k.conn]}
                   \cup {Observed(o, "expired", 0, 0), Observed(o, "absent", 0, 0)} :
          attempt' = [attempt EXCEPT ![o] = [k EXCEPT !.at = "told", !.answer = x]]
    <3>1. PICK x \in {Observed(o, "refused_late", 0, 0)}
                     \cup {Receipt(log[attempt[o].conn][i]) : i \in DOMAIN log[attempt[o].conn]}
                     \cup (IF CarriedOut(attempt[o].conn, o) THEN {}
                           ELSE {Observed(o, IF o \in aged THEN "expired" ELSE "absent", 0, 0)}) :
            Continue(o, [attempt[o] EXCEPT !.at = "told", !.answer = x])
      BY DEF Lookup
    <3>2. x \in {Observed(o, "refused_late", 0, 0)}
               \cup {Receipt(log[k.conn][i]) : i \in DOMAIN log[k.conn]}
               \cup {Observed(o, "expired", 0, 0), Observed(o, "absent", 0, 0)}
      BY <1>1, <3>1
    <3> QED
      BY <1>1, <3>1, <3>2 DEF Continue
  <2>2. \/ \E status \in {"refused_late", "expired", "absent"} : x = Observed(o, status, 0, 0)
        \/ \E i \in DOMAIN log[k.conn] : x = Receipt(log[k.conn][i])
    BY <2>1
  <2> QED
    BY <2>1, <2>2
<1>4. k.at = "ask" /\ s.conn = k.conn /\ UNCHANGED <<saved, wire, log, login, conn>>
  BY <1>1 DEF Lookup, MayRequest, Binds, world
<1>5. x \in Answers /\ (x.status = "committed" /\ x.op = o => I # {})
  <2>1. CASE \E status \in {"refused_late", "expired", "absent"} : x = Observed(o, status, 0, 0)
    <3>1. PICK status \in {"refused_late", "expired", "absent"} : x = Observed(o, status, 0, 0)
      BY <2>1
    <3>2. status \in Statuses /\ status # "committed"
      BY DEF Statuses, Everywhere, Refusal
    <3> QED
      BY <3>1, <3>2, ObservedType
  <2>2. CASE \E i \in DOMAIN log[k.conn] : x = Receipt(log[k.conn][i])
    <3>1. PICK i \in DOMAIN log[k.conn] : x = Receipt(log[k.conn][i])
      BY <2>2
    <3>2. k.conn \in Conn
      BY <1>2 DEF Attempts
    <3>3. log[k.conn][i] \in LogEntries
      BY <3>1, <3>2 DEF FamInv, FTypes
    <3>4. x \in Answers /\ x.op = log[k.conn][i].op
      BY <3>1, <3>3, ReceiptType
    <3>5. x.op = o => i \in I
      BY <1>1, <1>4, <3>1, <3>4 DEF Own
    <3> QED
      BY <3>4, <3>5
  <2> QED
    BY <1>3, <2>1, <2>2
<1>6. PICK a : a = [k EXCEPT !.at = "told", !.answer = x]
  OBVIOUS
<1>7. a \in Attempts /\ a.at = "told" /\ a.before = k.before /\ a.conn = k.conn /\ a.answer = x
  BY <1>2, <1>5, <1>6 DEF Attempts
<1>8. OpInv(o, s, a, W, I)
  <2>1. k.before = "none" /\ s.phase \in {"prepared", "uncertain"}
    BY <1>2, <1>4 DEF OpInv, CallFits
  <2>2. CallFits(o, s, a, I)
    BY <1>4, <1>5, <1>7, <2>1 DEF CallFits
  <2> QED
    BY <1>2, <1>7, <2>1, <2>2 DEF OpInv, FirstOnly
<1> QED
  BY <1>1, <1>3, <1>4, <1>6, <1>7, <1>8, CallMoves

-----------------------------------------------------------------------------
(* Answers that are taken.                                                  *)

LEMMA VerifiesOwn ==
  ASSUME NEW o, NEW x, NEW lookup \in BOOLEAN, Verifies(o, x, lookup)
  PROVE  x.op = o
BY DEF Verifies, StateAccepts, StackAccepts, ShareAccepts, QuestionAccepts

(* What becomes of the record.                                              *)
LEMMA Recording ==
  ASSUME FamInv, NEW o \in Op, attempt[o].at \in {"answered", "told"}, attempt[o].answer.op = o,
         NEW s, s = Recorded(o, attempt[o].answer)
  PROVE  /\ s \in Records /\ s.phase \in {"uncertain", "resolved"} /\ s.kind = saved[o].kind
         /\ s.base = saved[o].base /\ s.conn = saved[o].conn /\ s.user = saved[o].user
         /\ attempt[o].answer.status = "absent" => s.phase = "uncertain"
         /\ RecordFits(s, Mine(o), Own(saved[o].conn, o))
         /\ Truthful(s, Mine(o), Own(saved[o].conn, o))
<1>1. PICK r, k, W, I, x : /\ r = saved[o] /\ k = attempt[o] /\ W = Mine(o)
                           /\ I = Own(saved[o].conn, o) /\ x = attempt[o].answer
  OBVIOUS
<1>2. r \in Records /\ k \in Attempts /\ OpInv(o, r, k, W, I) /\ x = k.answer /\ x.op = o
      /\ k.at \in {"answered", "told"}
  BY <1>1, OpKnown
<1>3. x.status \in Statuses
  BY <1>2 DEF Attempts, Answers
<1>4. PICK ph \in {"uncertain", "resolved"}, un \in BOOLEAN :
        /\ s = [r EXCEPT !.phase = ph, !.result = [status |-> x.status, unresolved |-> un]]
        /\ ph = "resolved" => \/ x.status \in {"committed", "expired"}
                              \/ x.status = "refused_early" /\ k.before = "prepared"
  <2>1. CASE Final(o, x)
    BY <1>1, <2>1 DEF Recorded, Final
  <2>2. CASE ~Final(o, x)
    BY <1>1, <2>2 DEF Recorded
  <2> QED
    BY <2>1, <2>2
<1>5. /\ s \in Records /\ s.phase = ph /\ s.kind = r.kind /\ s.base = r.base
      /\ s.conn = r.conn /\ s.user = r.user /\ s.result.status = x.status
  <2>1. PICK e : e = [status |-> x.status, unresolved |-> un]
    OBVIOUS
  <2>2. e \in [status : Statuses, unresolved : BOOLEAN] /\ e.status = x.status
    BY <1>3, <2>1
  <2>3. s = [r EXCEPT !.phase = ph, !.result = e]
    BY <1>4, <2>1
  <2> QED
    BY <1>2, <2>2, <2>3 DEF Records
<1>6. RecordFits(s, W, I)
  BY <1>2, <1>4, <1>5 DEF OpInv, RecordFits, CallFits
<1>7. Truthful(s, W, I)
  <2>1. x.status = "committed" => I # {}
    BY <1>2 DEF OpInv, CallFits
  <2>2. x.status = "refused_early" /\ k.before = "prepared" => W = {} /\ I = {}
    BY <1>2 DEF OpInv, CallFits, FirstOnly
  <2> QED
    BY <1>4, <1>5, <2>1, <2>2 DEF Truthful
<1> QED
  BY <1>1, <1>4, <1>5, <1>6, <1>7

LEMMA Taken ==
  ASSUME FamInv, NEW o \in Op, TakeAnswer(o) \/ TakeLookup(o)
  PROVE  FamInv'
<1>1. PICK s, k, W, c : /\ s = Recorded(o, attempt[o].answer) /\ k = attempt[o] /\ W = Mine(o)
                        /\ c = saved[o].conn
  OBVIOUS
<1>2. k \in Attempts /\ k.at \in {"answered", "told"} /\ k.answer.op = o
  BY <1>1, OpKnown, VerifiesOwn DEF TakeAnswer, TakeLookup
<1>3. /\ s \in Records /\ s.phase \in {"uncertain", "resolved"} /\ s.base = saved[o].base
      /\ s.conn = c /\ s.user = saved[o].user /\ (k.answer.status = "absent" => s.phase = "uncertain")
      /\ RecordFits(s, W, Own(c, o)) /\ Truthful(s, W, Own(c, o))
  BY <1>1, <1>2, Recording
<1>4. /\ saved' = [saved EXCEPT ![o] = s] /\ wire' = wire /\ log' = log
      /\ login' = login /\ conn' = conn
  BY <1>1 DEF TakeAnswer, TakeLookup, Save, world
<1>5. PICK a \in Attempts :
        /\ attempt' = [attempt EXCEPT ![o] = a]
        /\ a.at = "idle" \/ (a.at = "send" /\ s.phase = "uncertain")
  <2>1. CASE attempt' = [attempt EXCEPT ![o] = Rest(o)]
    BY <1>1, <1>2, <2>1, Resting DEF Rest
  <2>2. CASE /\ attempt' = [attempt EXCEPT ![o] = [k EXCEPT !.at = "send", !.answer = NoAnswer]]
             /\ k.answer.status = "absent"
    <3>1. PICK n : n = NoAnswer
      OBVIOUS
    <3>2. n \in Answers
      BY <3>1 DEF NoAnswer, Answers, Statuses
    <3>3. PICK a : a = [k EXCEPT !.at = "send", !.answer = n]
      OBVIOUS
    <3>4. a \in Attempts /\ a.at = "send"
      BY <1>2, <3>2, <3>3 DEF Attempts
    <3> QED
      BY <1>3, <2>2, <3>1, <3>3, <3>4
  <2> QED
    BY <1>1, <2>1, <2>2 DEF TakeAnswer, TakeLookup, Continue
<1>6. OpInv(o, s, a, W, Own(c, o))
  BY <1>3, <1>5, IdleFits
<1>7. wire' = (wire \ Mine(o)) \cup W /\ (\A r \in W : r.op = o) /\ OpInv(o, s, a, W, Own(s.conn, o))
  BY <1>1, <1>3, <1>4, <1>6, OpKnown
<1>8. s.conn = saved[o].conn /\ s.user = saved[o].user /\ s.base = saved[o].base /\ s.phase # "none"
  BY <1>1, <1>3
<1> QED
  BY <1>3, <1>4, <1>5, <1>7, <1>8, OneMoves

-----------------------------------------------------------------------------
(* What the service does.                                                   *)

LEMMA Appending ==
  ASSUME FTypes, NEW c \in Conn, NEW e \in LogEntries, log' = [log EXCEPT ![c] = Append(@, e)]
  PROVE  /\ log' \in [Conn -> Seq(LogEntries)]
         /\ \A d \in Conn \ {c} : log'[d] = log[d]
         /\ \E n \in Nat :
              /\ DOMAIN log[c] = 1..n /\ DOMAIN log'[c] = 1..(n + 1) /\ log'[c][n + 1] = e
              /\ \A i \in 1..n : log'[c][i] = log[c][i]
              /\ Len(log'[c]) = n + 1
<1>1. PICK l, m : l = log[c] /\ m = Append(l, e)
  OBVIOUS
<1>2. l \in Seq(LogEntries) /\ log' = [log EXCEPT ![c] = m] /\ log \in [Conn -> Seq(LogEntries)]
  BY <1>1 DEF FTypes
<1>3. m \in Seq(LogEntries)
  BY <1>1, <1>2
<1>4. log'[c] = m /\ log' \in [Conn -> Seq(LogEntries)] /\ \A d \in Conn \ {c} : log'[d] = log[d]
  BY <1>2, <1>3
<1>5. PICK n \in Nat : n = Len(l)
  BY <1>2
<1>6. /\ DOMAIN l = 1..n /\ DOMAIN m = 1..(n + 1) /\ m[n + 1] = e /\ Len(m) = n + 1
      /\ \A i \in 1..n : m[i] = l[i]
  BY <1>1, <1>2, <1>5
<1> QED
  BY <1>1, <1>4, <1>5, <1>6

(* An entry that fits its operation, which has none yet, or that is of none *)
(* here.                                                                    *)
LEMMA LogGrows ==
  ASSUME FamInv, NEW c \in Conn, NEW e \in LogEntries, log' = [log EXCEPT ![c] = Append(@, e)],
         saved' = saved,
         e.op \in Op => /\ Stands(c, e, saved[e.op]) /\ saved[e.op].phase # "none"
                        /\ ~CarriedOut(c, e.op)
  PROVE  /\ log' \in [Conn -> Seq(LogEntries)] /\ LogInv' /\ log'[c][Len(log'[c])] = e
         /\ \A o \in Op : \A d \in Conn :
              IF d = c /\ o = e.op THEN Own(d, o)' # {} ELSE Own(d, o)' = Own(d, o)
<1>0. FTypes
  BY DEF FamInv
<1>1. log' \in [Conn -> Seq(LogEntries)] /\ \A d \in Conn \ {c} : log'[d] = log[d]
  BY <1>0, Appending
<1>2. PICK n \in Nat :
        /\ DOMAIN log[c] = 1..n /\ DOMAIN log'[c] = 1..(n + 1) /\ log'[c][n + 1] = e
        /\ \A i \in 1..n : log'[c][i] = log[c][i]
        /\ Len(log'[c]) = n + 1
  BY <1>0, Appending
<1>3. \A i \in DOMAIN log'[c] : i = n + 1 \/ (i \in DOMAIN log[c] /\ log'[c][i] = log[c][i])
  BY <1>2
<1>4. e.op \in Op => \A i \in DOMAIN log[c] : log[c][i].op # e.op
  BY DEF CarriedOut
<1>5. LogInv'
  <2>1. ASSUME NEW d \in Conn, NEW i \in DOMAIN log'[d], log'[d][i].op \in Op
        PROVE  /\ Stands(d, log'[d][i], saved[log'[d][i].op]) /\ saved[log'[d][i].op].phase # "none"
               /\ \A j \in DOMAIN log'[d] : log'[d][i].op = log'[d][j].op => i = j
    <3>1. CASE d # c
      BY <1>1, <2>1, <3>1 DEF FamInv, LogInv
    <3>2. CASE d = c
      BY <1>2, <1>3, <1>4, <2>1, <3>2 DEF FamInv, LogInv
    <3> QED
      BY <3>1, <3>2
  <2> QED
    BY <2>1 DEF LogInv
<1>6. ASSUME NEW o \in Op, NEW d \in Conn
      PROVE  IF d = c /\ o = e.op THEN Own(d, o)' # {} ELSE Own(d, o)' = Own(d, o)
  <2>1. CASE d # c
    BY <1>1, <2>1 DEF Own
  <2>2. CASE d = c /\ o = e.op
    <3>1. n + 1 \in DOMAIN log'[c] /\ log'[c][n + 1].op = o
      BY <1>2, <2>2
    <3> QED
      BY <2>2, <3>1 DEF Own
  <2>3. CASE d = c /\ o # e.op
    <3>1. \A i \in DOMAIN log[c] : i \in DOMAIN log'[c] /\ log'[c][i] = log[c][i]
      BY <1>2
    <3> QED
      BY <1>2, <1>3, <2>3, <3>1 DEF Own
  <2> QED
    BY <2>1, <2>2, <2>3
<1> QED
  BY <1>1, <1>2, <1>5, <1>6

(* The service takes a request of operation o, or one is lost.              *)
LEMMA ServerMoves ==
  ASSUME FamInv, NEW o \in Op, NEW a \in Attempts, NEW r \in Mine(o),
         saved' = saved, login' = login, conn' = conn,
         attempt' = [attempt EXCEPT ![o] = a], wire' = wire \ {r},
         log' \in [Conn -> Seq(LogEntries)], LogInv',
         \A d \in Op \ {o} : Own(saved[d].conn, d)' = Own(saved[d].conn, d),
         OpInv(o, saved[o], a, Mine(o) \ {r}, Own(saved[o].conn, o)')
  PROVE  FamInv'
<1>1. attempt'[o] = a /\ \A d \in Op \ {o} : attempt'[d] = attempt[d]
  BY DEF FamInv, FTypes
<1>2. FTypes'
  BY DEF FamInv, FTypes
<1>3. Mine(o)' = Mine(o) \ {r} /\ \A d \in Op \ {o} : Mine(d)' = Mine(d)
  BY DEF Mine
<1>4. ASSUME NEW d \in Op
      PROVE  OpInv(d, saved[d], attempt'[d], Mine(d)', Own(saved[d].conn, d)')
  BY <1>1, <1>3 DEF FamInv
<1> QED
  BY <1>2, <1>4 DEF FamInv

(* What an answer must not claim: a receipt of this operation comes after   *)
(* its entry, and an early refusal of its only request before one.          *)
Honest(o, k, x, I) ==
  /\ x \in Answers
  /\ x.status = "committed" /\ x.op = o => I # {}
  /\ k.at = "waiting" /\ k.before = "prepared" /\ x.status = "refused_early" => I = {}

(* A request r of operation o is answered with x; its entries were I and    *)
(* are J.                                                                   *)
LEMMA Answering ==
  ASSUME NEW o \in Op, NEW s, NEW k \in Attempts, NEW W, NEW r \in W, NEW I, NEW J, NEW x,
         OpInv(o, s, k, W, I), Honest(o, k, x, J), I # {} => J # {},
         NEW a,
         IF k.at = "waiting" /\ k.sent = r.n /\ k.conn = r.conn
         THEN a = [k EXCEPT !.at = "answered", !.answer = x] ELSE a = k
  PROVE  a \in Attempts /\ OpInv(o, s, a, W \ {r}, J)
<1>1. /\ RecordFits(s, W, I) /\ CallFits(o, s, k, I) /\ FirstOnly(k, W, I) /\ Truthful(s, W, I)
  BY DEF OpInv
<1>2. s.phase \in {"uncertain", "resolved"} /\ r.conn = s.conn
  BY <1>1 DEF RecordFits
<1>3. RecordFits(s, W \ {r}, J)
  BY <1>1, <1>2 DEF RecordFits
<1>4. Truthful(s, W \ {r}, J)
  BY <1>1 DEF Truthful
<1>5. CASE k.at = "waiting" /\ k.sent = r.n /\ k.conn = r.conn
  <2>1. a = [k EXCEPT !.at = "answered", !.answer = x]
    BY <1>5
  <2>2. /\ a \in Attempts /\ a.at = "answered" /\ a.answer = x /\ a.before = k.before
        /\ a.conn = k.conn
    BY <2>1 DEF Attempts, Honest
  <2>3. CallFits(o, s, a, J)
    BY <1>1, <1>5, <2>2 DEF CallFits, Honest
  <2>4. FirstOnly(a, W \ {r}, J)
    <3>1. k.before = "prepared" => \A q \in W : q = r
      BY <1>1, <1>5 DEF FirstOnly
    <3> QED
      BY <1>5, <2>2, <3>1 DEF FirstOnly, Honest
  <2> QED
    BY <1>3, <1>4, <2>2, <2>3, <2>4 DEF OpInv
<1>6. CASE ~(k.at = "waiting" /\ k.sent = r.n /\ k.conn = r.conn)
  <2>1. a = k
    BY <1>6
  <2>2. CallFits(o, s, k, J)
    BY <1>1 DEF CallFits
  <2>3. k.before = "prepared" => k.at \notin {"marked", "waiting", "answered"}
    BY <1>1, <1>2, <1>6 DEF FirstOnly, CallFits
  <2>4. FirstOnly(k, W \ {r}, J)
    BY <2>3 DEF FirstOnly
  <2> QED
    BY <1>3, <1>4, <2>1, <2>2, <2>4 DEF OpInv
<1> QED
  BY <1>5, <1>6

LEMMA Served ==
  ASSUME FamInv, NEW r \in wire, ServeWrite(r)
  PROVE  FamInv'
<1>1. PICK o, s, k, W, I, c : /\ o = r.op /\ s = saved[r.op] /\ k = attempt[r.op] /\ W = Mine(r.op)
                              /\ I = Own(saved[r.op].conn, r.op) /\ c = r.conn
  OBVIOUS
<1>2. o \in Op /\ r \in W /\ s \in Records /\ k \in Attempts /\ OpInv(o, s, k, W, I)
  <2>1. r.op \in Op /\ r \in Mine(r.op)
    BY DEF FamInv, FTypes, Mine
  <2> QED
    BY <1>1, <2>1, OpKnown
<1>3. /\ s.phase \in {"uncertain", "resolved"} /\ c = s.conn /\ r.user = s.user /\ r.base = s.base
      /\ c \in Conn /\ s.kind \in Kind /\ (s.base # 0 => s.kind \in Revised)
      /\ s.base \in Nat /\ s.user \in Persons
  BY <1>1, <1>2 DEF OpInv, RecordFits, Records
<1>4. /\ saved' = saved /\ login' = login /\ conn' = conn /\ wire' = wire \ {r}
  BY DEF ServeWrite, world
<1>5. (CarriedOut(c, o) <=> I # {}) /\ log[c] \in Seq(LogEntries)
  BY <1>1, <1>3 DEF CarriedOut, Own, FamInv, FTypes
<1>6. ASSUME NEW x, NEW J, Tell(r, x), J = Own(s.conn, o)', Honest(o, k, x, J), I # {} => J # {},
             log' \in [Conn -> Seq(LogEntries)], LogInv',
             \A d \in Op \ {o} : Own(saved[d].conn, d)' = Own(saved[d].conn, d)
      PROVE  FamInv'
  <2>1. PICK a : a = IF k.at = "waiting" /\ k.sent = r.n /\ k.conn = r.conn
                     THEN [k EXCEPT !.at = "answered", !.answer = x] ELSE k
    OBVIOUS
  <2>2. a \in Attempts /\ OpInv(o, s, a, W \ {r}, J)
    <3>1. IF k.at = "waiting" /\ k.sent = r.n /\ k.conn = r.conn
          THEN a = [k EXCEPT !.at = "answered", !.answer = x] ELSE a = k
      BY <2>1
    <3>2. Honest(o, k, x, J) /\ (I # {} => J # {})
      BY <1>6
    <3> QED
      BY <1>2, <3>1, <3>2, Answering
  <2>3. attempt' = [attempt EXCEPT ![o] = a]
    BY <1>1, <1>2, <1>6, <2>1 DEF Tell, FamInv, FTypes
  <2>4. Own(s.conn, o)' = Own(saved[o].conn, o)'
    BY <1>1, <1>4 DEF Own
  <2>5. r \in Mine(o) /\ OpInv(o, saved[o], a, Mine(o) \ {r}, Own(saved[o].conn, o)')
    BY <1>1, <1>2, <1>6, <2>2, <2>4
  <2> QED
    BY <1>2, <1>4, <1>6, <2>2, <2>3, <2>5, ServerMoves
<1>7. ASSUME NEW x, Tell(r, x), UNCHANGED log, Honest(o, k, x, I)
      PROVE  FamInv'
  <2>1. \A d, e : Own(e, d)' = Own(e, d)
    BY <1>7 DEF Own
  <2>2. I = Own(s.conn, o)' /\ \A d \in Op \ {o} : Own(saved[d].conn, d)' = Own(saved[d].conn, d)
    BY <1>1, <1>4, <2>1
  <2>3. log' \in [Conn -> Seq(LogEntries)] /\ LogInv'
    BY <1>4, <1>7 DEF FamInv, FTypes, LogInv
  <2> QED
    BY <1>6, <1>7, <2>2, <2>3
<1>8. k.at = "waiting" /\ k.before = "prepared" => I = {}
  BY <1>2 DEF OpInv, FirstOnly
<1>9. \A i \in DOMAIN log[c] :
        Honest(o, k, Receipt(log[c][i]), I)
  <2>1. ASSUME NEW i \in DOMAIN log[c] PROVE Honest(o, k, Receipt(log[c][i]), I)
    <3>1. log[c][i] \in LogEntries
      BY <1>5
    <3>2. log[c][i].op = o => i \in I
      BY <1>1, <1>3 DEF Own
    <3> QED
      BY <3>1, <3>2, ReceiptType DEF Honest
  <2> QED
    BY <2>1
<1>10. \A status \in {"refused_early", "refused_late"} :
         LET x == Observed(o, status, 0, 0) IN x \in Answers /\ x.status = status
  BY <1>2, ObservedType DEF Statuses, Everywhere, Refusal
<1>11. CASE CarriedOut(r.conn, r.op) /\ UNCHANGED log
            /\ \E x \in {ReceiptOf(r.conn, r.op), Observed(r.op, "refused_early", 0, 0)} : Tell(r, x)
  <2>1. Honest(o, k, Observed(o, "refused_early", 0, 0), I)
    BY <1>1, <1>5, <1>8, <1>10, <1>11 DEF Honest
  <2>2. Honest(o, k, ReceiptOf(c, o), I)
    BY <1>1, <1>9, <1>11 DEF ReceiptOf, CarriedOut
  <2> QED
    BY <1>1, <1>7, <1>11, <2>1, <2>2
<1>12. CASE ~CarriedOut(r.conn, r.op) /\ UNCHANGED log /\ \E x \in Declines(r) : Tell(r, x)
  <2>1. PICK x \in Declines(r) : Tell(r, x)
    BY <1>12
  <2>2. Honest(o, k, x, I)
    BY <1>1, <1>5, <1>12, DeclinesType DEF Honest
  <2> QED
    BY <1>7, <1>12, <2>1, <2>2
<1>13. CASE UNCHANGED log /\ \E i \in DOMAIN log[r.conn] : Tell(r, Receipt(log[r.conn][i]))
  BY <1>1, <1>7, <1>9, <1>13
<1>14. CASE /\ ~CarriedOut(r.conn, r.op) /\ Possible(r) /\ Carry(r)
            /\ \E x \in {Receipt(log'[r.conn][Len(log'[r.conn])]),
                         Observed(r.op, "refused_late", 0, 0)} : Tell(r, x)
  <2>1. PICK v, e : v = Revision(c, s.kind)
                    /\ e = [op |-> o, user |-> s.user, kind |-> s.kind, over |-> v]
    OBVIOUS
  <2>2. v \in Nat
    BY <1>3, <2>1, RevisionIsNat DEF FamInv
  <2>3. e \in LogEntries /\ e.op = o /\ e.user = s.user /\ e.over = v
    BY <1>2, <1>3, <2>1, <2>2 DEF LogEntries
  <2>4. log' = [log EXCEPT ![c] = Append(@, e)]
    BY <1>1, <1>3, <1>14, <2>1 DEF Carry
  <2>5. s.base # 0 => v = s.base
    BY <1>1, <1>3, <1>14, <2>1 DEF Possible, Stale
  <2>6. e.op \in Op => /\ Stands(c, e, saved[e.op]) /\ saved[e.op].phase # "none"
                       /\ ~CarriedOut(c, e.op)
    BY <1>1, <1>3, <1>14, <2>3, <2>5 DEF Stands
  <2>7. /\ log' \in [Conn -> Seq(LogEntries)] /\ LogInv'
        /\ \A p \in Op : \A d \in Conn :
             IF d = c /\ p = o THEN Own(d, p)' # {} ELSE Own(d, p)' = Own(d, p)
    <3>1. \A p \in Op : \A d \in Conn :
            IF d = c /\ p = e.op THEN Own(d, p)' # {} ELSE Own(d, p)' = Own(d, p)
      BY <1>3, <1>4, <2>3, <2>4, <2>6, LogGrows
    <3>2. log' \in [Conn -> Seq(LogEntries)] /\ LogInv'
      BY <1>3, <1>4, <2>3, <2>4, <2>6, LogGrows
    <3> QED
      BY <2>3, <3>1, <3>2
  <2>8. PICK J : J = Own(s.conn, o)'
    OBVIOUS
  <2>9. J # {} /\ \A d \in Op \ {o} : Own(saved[d].conn, d)' = Own(saved[d].conn, d)
    <3>1. ASSUME NEW d \in Op \ {o} PROVE Own(saved[d].conn, d)' = Own(saved[d].conn, d)
      <4>1. PICK b : b = saved[d].conn
        OBVIOUS
      <4>2. b \in Conn
        BY <4>1 DEF FamInv, FTypes, Records
      <4>3. Own(b, d)' = Own(b, d)
        BY <2>7, <4>2
      <4> QED
        BY <1>4, <4>1, <4>3 DEF Own
    <3>2. Own(c, o)' # {}
      BY <1>2, <1>3, <2>7
    <3> QED
      BY <1>3, <2>8, <3>1, <3>2
  <2>10. log'[c][Len(log'[c])] = e
    BY <1>3, <1>4, <2>3, <2>4, <2>6, LogGrows
  <2>11. PICK x : Tell(r, x) /\ x \in {Receipt(e), Observed(o, "refused_late", 0, 0)}
    BY <1>1, <1>14, <2>10
  <2>12. Honest(o, k, x, J)
    BY <1>10, <2>3, <2>9, <2>11, ReceiptType DEF Honest
  <2> QED
    BY <1>6, <2>7, <2>8, <2>9, <2>11, <2>12
<1> QED
  BY <1>11, <1>12, <1>13, <1>14 DEF ServeWrite

LEMMA Lost ==
  ASSUME FamInv, NEW r \in wire, LoseSubmission(r)
  PROVE  FamInv'
<1>1. PICK o, s, a, W, I : /\ o = r.op /\ s = saved[r.op] /\ a = attempt[r.op] /\ W = Mine(r.op)
                           /\ I = Own(saved[r.op].conn, r.op)
  OBVIOUS
<1>2. o \in Op /\ r \in W /\ a \in Attempts /\ OpInv(o, s, a, W, I)
  <2>1. r.op \in Op /\ r \in Mine(r.op)
    BY DEF FamInv, FTypes, Mine
  <2> QED
    BY <1>1, <2>1, OpKnown
<1>3. /\ saved' = saved /\ login' = login /\ conn' = conn /\ wire' = wire \ {r} /\ log' = log
      /\ attempt' = [attempt EXCEPT ![o] = a]
  BY <1>1, <1>2 DEF LoseSubmission, world, FamInv, FTypes
<1>4. \A d, e : Own(e, d)' = Own(e, d)
  BY <1>3 DEF Own
<1>5. log' \in [Conn -> Seq(LogEntries)] /\ LogInv'
  BY <1>3 DEF FamInv, FTypes, LogInv
<1>6. OpInv(o, s, a, W \ {r}, I)
  BY <1>2 DEF OpInv, RecordFits, CallFits, FirstOnly, Truthful
<1>7. /\ r \in Mine(o) /\ OpInv(o, saved[o], a, Mine(o) \ {r}, Own(saved[o].conn, o)')
      /\ \A d \in Op \ {o} : Own(saved[d].conn, d)' = Own(saved[d].conn, d)
  <2>1. I = Own(s.conn, o)' /\ Own(s.conn, o)' = Own(saved[o].conn, o)'
    BY <1>1, <1>3, <1>4 DEF Own
  <2>2. \A d \in Op \ {o} : Own(saved[d].conn, d)' = Own(saved[d].conn, d)
    BY <1>3 DEF Own
  <2> QED
    BY <1>1, <1>2, <1>6, <2>1, <2>2
<1> QED
  BY <1>2, <1>3, <1>5, <1>7, ServerMoves

(* Everything else leaves the operations alone.                             *)
LEMMA WorldMoves ==
  ASSUME FamInv, saved' = saved, attempt' = attempt, wire' = wire,
         login' \in Persons, conn' \in Conn, log' \in [Conn -> Seq(LogEntries)], LogInv',
         \A d \in Op : Own(saved[d].conn, d)' = Own(saved[d].conn, d)
  PROVE  FamInv'
<1>1. FTypes' /\ \A d : Mine(d)' = Mine(d)
  BY DEF FamInv, FTypes, Mine
<1> QED
  BY <1>1 DEF FamInv

LEMMA Elsewheres ==
  ASSUME FamInv, NEW c \in Conn, NEW kind \in Kind, Elsewhere(c, kind)
  PROVE  FamInv'
<1>1. PICK v, e : v = Revision(c, kind)
                  /\ e = [op |-> 0, user |-> NoOne, kind |-> kind, over |-> v]
  OBVIOUS
<1>2. v \in Nat
  BY <1>1, RevisionIsNat DEF FamInv
<1>3. e \in LogEntries /\ e.op = 0
  BY <1>1, <1>2 DEF LogEntries, Persons
<1>4. /\ log' = [log EXCEPT ![c] = Append(@, e)] /\ saved' = saved /\ attempt' = attempt
      /\ wire' = wire /\ login' = login /\ conn' = conn
  BY <1>1 DEF Elsewhere, Shift
<1>5. e.op \notin Op
  BY <1>3, OpAssumption
<1>6. /\ log' \in [Conn -> Seq(LogEntries)] /\ LogInv'
      /\ \A o \in Op : \A d \in Conn :
           IF d = c /\ o = e.op THEN Own(d, o)' # {} ELSE Own(d, o)' = Own(d, o)
  BY <1>3, <1>4, <1>5, LogGrows
<1>7. ASSUME NEW d \in Op PROVE Own(saved[d].conn, d)' = Own(saved[d].conn, d)
  <2>1. PICK b : b = saved[d].conn
    OBVIOUS
  <2>2. b \in Conn
    BY <2>1 DEF FamInv, FTypes, Records
  <2>3. Own(b, d)' = Own(b, d)
    BY <1>5, <1>6, <2>2
  <2> QED
    BY <1>4, <2>1, <2>3 DEF Own
<1>8. login' \in Persons /\ conn' \in Conn
  BY <1>4 DEF FamInv, FTypes
<1> QED
  BY <1>4, <1>6, <1>7, <1>8, WorldMoves

LEMMA FPreserved == FamInv /\ [FNext]_fvars => FamInv'
<1> SUFFICES ASSUME FamInv, [FNext]_fvars PROVE FamInv'
  OBVIOUS
<1>1. ASSUME NEW o \in Op, Attempt(o) PROVE FamInv'
  BY <1>1, Resuming, Marked, Sent, LookedUp, Taken, Stopping DEF Attempt
<1>2. ASSUME NEW o \in Op, StateWrite(o) \/ StackWrite(o) \/ ShareWrite(o) \/ QuestionWrite(o)
      PROVE  FamInv'
  <2>1. PICK kind \in Kind, base \in Nat :
          Prepare(o, kind, base) /\ (base # 0 => kind \in Revised)
    <3>1. conn \in Conn /\ FTypes
      BY DEF FamInv, FTypes
    <3>2. Revision(conn, "state") \in Nat /\ Revision(conn, "stack") \in Nat
      BY <3>1, RevisionIsNat
    <3> QED
      BY <1>2, <3>2 DEF StateWrite, StackWrite, ShareWrite, QuestionWrite, Kind, Revised, Questions
  <2> QED
    BY <2>1, Drafting
<1>3. ASSUME NEW r \in wire, ServeWrite(r) \/ LoseSubmission(r) PROVE FamInv'
  BY <1>3, Served, Lost
<1>4. ASSUME \/ \E u \in Author \cup {NoOne} : SignIn(u)
             \/ Reconnect \/ (\E o \in Op : Age(o)) \/ UNCHANGED fvars
      PROVE  FamInv'
  <2>1. /\ saved' = saved /\ attempt' = attempt /\ wire' = wire /\ log' = log
        /\ login' \in Persons /\ conn' \in Conn
    BY <1>4 DEF SignIn, Reconnect, Age, Shift, fvars, Persons, FamInv, FTypes
  <2>2. /\ log' \in [Conn -> Seq(LogEntries)] /\ LogInv'
        /\ \A d \in Op : Own(saved[d].conn, d)' = Own(saved[d].conn, d)
    BY <2>1 DEF FamInv, FTypes, LogInv, Own
  <2> QED
    BY <2>1, <2>2, WorldMoves
<1>5. ASSUME NEW kind \in Kind, Elsewhere("here", kind) PROVE FamInv'
  BY <1>5, Elsewheres DEF Conn
<1> QED
  BY <1>1, <1>2, <1>3, <1>4, <1>5
     DEF FNext, StateAttempt, StackAttempt, ShareAttempt, QuestionAttempt

LEMMA WritesHold == FamInv => WritesAreSound
<1> SUFFICES ASSUME FamInv PROVE WritesAreSound
  OBVIOUS
<1>1. ASSUME NEW o \in Op
      PROVE  /\ Cardinality(Own("here", o)) + Cardinality(Own("there", o)) <= 1
             /\ \A c \in Conn : \A i \in Own(c, o) :
                  /\ c = saved[o].conn /\ log[c][i].user = saved[o].user
                  /\ saved[o].base # 0 => log[c][i].over = saved[o].base
  <2>1. \A c \in Conn : \A i \in Own(c, o) :
          /\ c = saved[o].conn /\ log[c][i].user = saved[o].user
          /\ saved[o].base # 0 => log[c][i].over = saved[o].base
    BY DEF FamInv, LogInv, Own, Stands
  <2>2. \A c \in Conn : \A i, j \in Own(c, o) : i = j
    BY DEF FamInv, LogInv, Own
  <2>3. \A c \in Conn : Own(c, o) = {} \/ \E i : Own(c, o) = {i}
    BY <2>2
  <2>4. \A c \in Conn : \/ Own(c, o) = {} /\ Cardinality(Own(c, o)) = 0
                        \/ Own(c, o) # {} /\ Cardinality(Own(c, o)) = 1
    BY <2>3, FS_EmptySet, FS_Singleton
  <2>5. Own("here", o) = {} \/ Own("there", o) = {}
    BY <2>1 DEF Conn
  <2>6. Cardinality(Own("here", o)) + Cardinality(Own("there", o)) <= 1
    BY <2>4, <2>5 DEF Conn
  <2> QED
    BY <2>1, <2>6
<1>2. WrittenAsSaved
  BY <1>1 DEF WrittenAsSaved
<1>3. ASSUME NEW o \in Op, saved[o].phase = "resolved"
      PROVE  LET mine == Own(saved[o].conn, o)
             IN  CASE saved[o].result.status = "committed" ->
                        /\ mine # {}
                        /\ saved[o].base # 0 =>
                             \A i \in mine : log[saved[o].conn][i].over = saved[o].base
                   [] saved[o].result.status = "expired" -> TRUE
                   [] OTHER -> mine = {} /\ \A r \in wire : r.op # o
  <2>1. saved[o].conn \in Conn /\ Truthful(saved[o], Mine(o), Own(saved[o].conn, o))
    BY OpKnown DEF OpInv, Records
  <2>2. CASE saved[o].result.status = "committed"
    BY <1>1, <1>3, <2>1, <2>2 DEF Truthful
  <2>3. CASE saved[o].result.status = "expired"
    BY <2>3
  <2>4. CASE saved[o].result.status \notin {"committed", "expired"}
    BY <1>3, <2>1, <2>4 DEF Truthful, Mine
  <2> QED
    BY <2>2, <2>3, <2>4
<1>4. OutcomesTruthful
  BY <1>3 DEF OutcomesTruthful
<1> QED
  BY <1>2, <1>4 DEF WritesAreSound

(* An operation that was retried by whomever, wherever the project is       *)
(* connected by then and whatever answers came late, was carried out at     *)
(* most once, on the server and for the account it was saved for, over the  *)
(* revision it names; what record_*_result calls resolved is what happened  *)
(* to it, and a refusal that settled it left no request behind.             *)
THEOREM WritesStand == FSpec => []WritesAreSound
<1>1. FInit => FamInv
  BY FStart
<1>2. FamInv /\ [FNext]_fvars => FamInv'
  BY FPreserved
<1>3. FamInv => WritesAreSound
  BY WritesHold
<1> QED
  BY <1>1, <1>2, <1>3, PTL DEF FSpec
=============================================================================
