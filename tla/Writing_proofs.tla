-------------------------- MODULE Writing_proofs --------------------------
(***************************************************************************)
(* Proofs about what writes decisions, hosted and local.                      *)
(*                                                                         *)
(* CommitPlan.tla: claims and decisions agree, and publishing plans made from   *)
(* a stale view is a step of the log of DecisionLog.tla, for any committers,     *)
(* titles and texts. Writes.tla: the commands of a flat store keep every body    *)
(* of the state file, plan what they do, and tell the truth in the journal and   *)
(* in their report.                                                          *)
(***************************************************************************)
EXTENDS CommitPlan, Writes, SequenceTheorems, FiniteSetTheorems, TLAPS

(* The bounds are numbers.                                                  *)
Bounds == MaxCommits \in Nat /\ MaxText \in Nat

-----------------------------------------------------------------------------
(* The inductive invariant.                                                 *)

Places == {"idle", "approved", "prepared", "final", "entered", "published"}
Planning == {"prepared", "final", "entered", "published"}
Holding == {"entered", "published"}

Payment == [op : Ops, target : 0 .. MaxCommits, title : Title, text : Text,
            base : 0 .. MaxCommits, counter : 0 .. MaxCommits]

(* The parts of a plan for a payload p: the decision's number, the titles it    *)
(* takes and gives up, its content.                                         *)
Num(t) == Primary(t.payload, t.payload.counter)
Replaces(t) == t.payload.op # "add"
OldTitle(t) == t.planned[t.payload.target].title
NewTitleOf(t) == t.planned[Num(t)].title

Whole(t) == t = [at |-> t.at, payload |-> t.payload, base |-> t.base, planned |-> t.planned,
                 probes |-> t.probes, publication |-> t.publication, seen |-> t.seen]
Filled(t) ==
  /\ t.payload \in Payment
  /\ \A n \in DOMAIN t.planned : t.planned[n] \in Decision /\ n \in Number
  /\ Num(t) \in DOMAIN t.planned
  /\ Replaces(t) => t.payload.target \in DOMAIN t.planned
  /\ t.probes = Probes(t.payload, t.planned, Num(t))
  /\ t.publication = Publication(t.payload, t.planned, Num(t))

(* A plan of the committed generation is what its decision makes of it.       *)
Current(t, g) ==
  /\ t.base <= g.id
  /\ t.base = g.id /\ t.at # "published" =>
       /\ g.id < MaxCommits /\ t.payload.counter = g.counter
       /\ Replaces(t) => t.payload.target \in DOMAIN g.decisions
       /\ t.planned = Planned(t.payload, g.decisions, g.counter)

TaskOK(t, g) ==
  /\ Whole(t) /\ t.at \in Places
  /\ t.at = "idle" => t = NoTask
  /\ t.at = "approved" =>
       /\ t.payload \in Payment /\ t.payload.base < MaxCommits
       /\ t = [NoTask EXCEPT !.at = "approved", !.payload = t.payload]
  /\ t.at \in Planning =>
       /\ Filled(t) /\ t.base \in Nat /\ Current(t, g)
       /\ DOMAIN t.seen \subseteq DOMAIN t.probes

(* What a claim says of the decisions D: a title is the standing decision n's,  *)
(* or for n = 0 nobody's; a content is no decision's.                        *)
Stands(D, n) == n \in DOMAIN D /\ D[n].superseded_by = 0
Holds(D, t, n) == IF n = 0 THEN \A m \in DOMAIN D : Stands(D, m) => D[m].title # t
                  ELSE Stands(D, n) /\ D[n].title = t
New(D, k) == \A m \in DOMAIN D : Content(D, m) # k

(* An entered plan has reserved its claims, and they were true and still are.  *)
Entered(t, D) ==
  t.at = "entered" =>
    /\ Holds(D, NewTitleOf(t), t.probes[TitleKey(NewTitleOf(t))])
    /\ Replaces(t) => Holds(D, OldTitle(t), t.payload.target)
    /\ New(D, Content(t.planned, Num(t)))

(* A published one has yet to say what is already true.                       *)
Published(t, D) ==
  t.at = "published" =>
    /\ Holds(D, NewTitleOf(t), Num(t))
    /\ Replaces(t) /\ OldTitle(t) # NewTitleOf(t) => Holds(D, OldTitle(t), 0)

Reserves(t, cl) == t.at \in Holding => \A k \in DOMAIN t.probes : cl[k] = Reserved(t.probes[k])

Fits(t, cl, D) == Reserves(t, cl) /\ Entered(t, D) /\ Published(t, D)
Apart(t, u) == t.at \in Holding /\ u.at \in Holding => DOMAIN t.probes \intersect DOMAIN u.probes = {}

(* ClaimsMatch in these words.                                              *)
Agrees(cl, D) ==
  /\ \A t \in Title : cl[TitleKey(t)] = NoClaim => Holds(D, t, 0)
  /\ \A t \in Title, n \in Number : cl[TitleKey(t)] = Committed(n) => Holds(D, t, n)
  /\ \A k \in Title \X Rationales : cl[k] = NoClaim => New(D, k)

(* The decisions: no title stands twice, no content is decided twice, links   *)
(* answer and stay among the decisions there are.                            *)
OneStands(D) == \A i, j \in DOMAIN D : Stands(D, i) /\ Stands(D, j) /\ D[i].title = D[j].title => i = j
NoTwice(D) == \A i, j \in DOMAIN D : Content(D, i) = Content(D, j) => i = j
Links(D) == \A i, j \in DOMAIN D : D[i].superseded_by = j <=> D[j].supersedes = i
Inside(D, m) == \A i \in 1 .. m : D[i].supersedes \in 0 .. m /\ D[i].superseded_by \in 0 .. m

GenerationOK(g) ==
  /\ g = [id |-> g.id, counter |-> g.counter, decisions |-> g.decisions]
  /\ g.id \in 0 .. MaxCommits /\ g.counter \in 0 .. g.id
  /\ g.decisions \in [1 .. g.counter -> Decision]
  /\ OneStands(g.decisions) /\ NoTwice(g.decisions) /\ Links(g.decisions)
  /\ Inside(g.decisions, g.counter)

IInv ==
  /\ GenerationOK(generation)
  /\ claims \in [Keys -> Claim] /\ Agrees(claims, generation.decisions)
  /\ DOMAIN task = Committers
  /\ \A c \in Committers : TaskOK(task[c], generation)
  /\ \A c \in Committers : Fits(task[c], claims, generation.decisions)
  /\ \A c, d \in Committers : c # d => Apart(task[c], task[d])

-----------------------------------------------------------------------------
(* Values and their parts.                                                  *)

LEMMA RationaleIsSeq ==
  ASSUME Bounds, NEW s
  PROVE  s \in Rationales <=> s \in Seq(Text) /\ Len(s) \in 1 .. MaxText
<1>1. ASSUME s \in Rationales
      PROVE  s \in Seq(Text) /\ Len(s) \in 1 .. MaxText
  <2>1. PICK k \in 1 .. MaxText : s \in [1 .. k -> Text]
    BY <1>1 DEF Rationales
  <2>2. k \in Nat
    BY DEF Bounds
  <2> QED
    BY <2>1, <2>2 DEF Bounds
<1>2. ASSUME s \in Seq(Text), Len(s) \in 1 .. MaxText
      PROVE  s \in Rationales
  <2>1. s \in [1 .. Len(s) -> Text]
    BY <1>2, LenProperties
  <2> QED
    BY <1>2, <2>1 DEF Rationales
<1> QED
  BY <1>1, <1>2

LEMMA RationaleStarts ==
  ASSUME Bounds, NEW x \in Text, MaxText >= 1
  PROVE  <<x>> \in Rationales
<1>1. <<x>> \in Seq(Text) /\ Len(<<x>>) = 1
  OBVIOUS
<1>2. 1 \in 1 .. MaxText
  BY DEF Bounds
<1> DEFINE s == <<x>>
<1>3. s \in Seq(Text) /\ Len(s) \in 1 .. MaxText
  BY <1>1, <1>2
<1> HIDE DEF s
<1>4. s \in Rationales
  BY <1>3, RationaleIsSeq
<1> QED
  BY <1>4 DEF s

LEMMA RationaleGrows ==
  ASSUME Bounds, NEW s \in Rationales, NEW x \in Text, Len(Append(s, x)) <= MaxText
  PROVE  Append(s, x) \in Rationales
<1>1. s \in Seq(Text) /\ Len(s) \in 1 .. MaxText
  BY RationaleIsSeq
<1>2. Append(s, x) \in Seq(Text) /\ Len(Append(s, x)) = Len(s) + 1
  BY <1>1, AppendProperties
<1>3. Len(Append(s, x)) \in 1 .. MaxText
  BY <1>1, <1>2 DEF Bounds
<1> DEFINE a == Append(s, x)
<1> HIDE DEF a
<1>4. a \in Rationales
  BY <1>2, <1>3, RationaleIsSeq DEF a
<1> QED
  BY <1>4 DEF a

LEMMA NoRationaleIsEmpty ==
  ASSUME Bounds
  PROVE  <<>> \notin Rationales
<1>1. Len(<<>>) = 0
  OBVIOUS
<1> QED
  BY <1>1, RationaleIsSeq

LEMMA ClaimKinds ==
  /\ \A n : Committed(n) # NoClaim /\ Reserved(n) # NoClaim
  /\ \A m, n : Committed(m) # Reserved(n)
  /\ \A m, n : Committed(m) = Committed(n) => m = n
  BY DEF Committed, NoClaim, Reserved

LEMMA ClaimTypes ==
  ASSUME Bounds, NEW n \in 0 .. MaxCommits
  PROVE  NoClaim \in Claim /\ Committed(n) \in Claim /\ Reserved(n) \in Claim
  BY DEF Bounds, Committed, NoClaim, Reserved, Claim

LEMMA DecisionFields ==
  ASSUME NEW d \in Decision
  PROVE  /\ d.title \in Title /\ d.text \in Rationales /\ d.supersedes \in 0 .. MaxCommits
         /\ d.superseded_by \in 0 .. MaxCommits
  BY DEF Decision

LEMMA PaymentFields ==
  ASSUME NEW p \in Payment
  PROVE  /\ p.op \in {"add", "update", "supersede"} /\ p.target \in 0 .. MaxCommits
         /\ p.title \in Title /\ p.text \in Text
         /\ p.base \in 0 .. MaxCommits /\ p.counter \in 0 .. MaxCommits
  BY DEF Payment, Ops

(* Keys are of titles or of contents.                                        *)
LEMMA KeyKinds ==
  ASSUME Bounds
  PROVE  /\ \A t \in Title : TitleKey(t) \in Keys
         /\ \A k \in Title \X Rationales : k \in Keys
         /\ \A k \in Title \X Rationales : \A t : k # TitleKey(t)
         /\ \A k \in Keys : (\E t \in Title : k = TitleKey(t)) \/ k \in Title \X Rationales
         /\ \A t, u : TitleKey(t) = TitleKey(u) => t = u
<1>1. \A k \in Title \X Rationales : k[2] \in Rationales
  OBVIOUS
<1>2. \A k \in Title \X Rationales : \A t : k # TitleKey(t)
  BY <1>1, NoRationaleIsEmpty DEF TitleKey
<1>3. \A k \in Keys : (\E t \in Title : k = TitleKey(t)) \/ k \in Title \X Rationales
  BY DEF Keys, TitleKey
<1>4. \A t \in Title : TitleKey(t) \in Keys
  BY DEF Keys, TitleKey
<1>5. \A k \in Title \X Rationales : k \in Keys
  BY DEF Keys
<1>6. \A t, u : TitleKey(t) = TitleKey(u) => t = u
  BY DEF TitleKey
<1> QED
  BY <1>2, <1>3, <1>4, <1>5, <1>6

LEMMA ContentKind ==
  ASSUME NEW D, NEW n, D[n] \in Decision
  PROVE  Content(D, n) \in Title \X Rationales
  BY DecisionFields DEF Content

LEMMA ContentIs ==
  ASSUME NEW D, NEW E, NEW m, NEW n, D[m].title = E[n].title, D[m].text = E[n].text
  PROVE  Content(D, m) = Content(E, n)
  BY DEF Content

(* What a plan asks of the claims and makes of them.                         *)
LEMMA ProbeFacts ==
  ASSUME Bounds, NEW t, Filled(t)
  PROVE  /\ \A k : k \in DOMAIN t.probes <=>
                   \/ k = TitleKey(NewTitleOf(t)) \/ k = Content(t.planned, Num(t))
                   \/ Replaces(t) /\ k = TitleKey(OldTitle(t))
         /\ t.probes[Content(t.planned, Num(t))] = 0
         /\ Replaces(t) => t.probes[TitleKey(OldTitle(t))] = t.payload.target
         /\ ~Replaces(t) \/ OldTitle(t) # NewTitleOf(t) => t.probes[TitleKey(NewTitleOf(t))] = 0
         /\ \A k \in DOMAIN t.probes : t.probes[k] \in 0 .. MaxCommits
<1> DEFINE p == t.payload
           old == IF p.op = "add" THEN {} ELSE {TitleKey(t.planned[p.target].title)}
           dom == old \union {NewTitle(t.planned, Num(t)), Content(t.planned, Num(t))}
           f == [k \in dom |-> IF k \in old THEN p.target ELSE 0]
<1>1. t.probes = f
  BY DEF Filled, Probes
<1>2. p.target \in 0 .. MaxCommits /\ 0 \in 0 .. MaxCommits
  BY PaymentFields DEF Filled, Bounds
<1>3. Content(t.planned, Num(t)) \in Title \X Rationales
  BY ContentKind DEF Filled
<1>4. Content(t.planned, Num(t)) \notin old
  BY <1>3, KeyKinds
<1>5. NewTitle(t.planned, Num(t)) = TitleKey(NewTitleOf(t))
  BY DEF NewTitle, NewTitleOf
<1>6. \A k : k \in old <=> Replaces(t) /\ k = TitleKey(OldTitle(t))
  BY DEF Replaces, OldTitle
<1>7. Replaces(t) /\ OldTitle(t) # NewTitleOf(t) => TitleKey(NewTitleOf(t)) \notin old
  BY <1>6, KeyKinds
<1> HIDE DEF old
<1> QED
  BY <1>1, <1>2, <1>4, <1>5, <1>6, <1>7

LEMMA PublicationFacts ==
  ASSUME Bounds, NEW t, Filled(t)
  PROVE  /\ DOMAIN t.publication = DOMAIN t.probes
         /\ t.publication[Content(t.planned, Num(t))] = Committed(0)
         /\ t.publication[TitleKey(NewTitleOf(t))] = Committed(Num(t))
         /\ Replaces(t) /\ OldTitle(t) # NewTitleOf(t) =>
              t.publication[TitleKey(OldTitle(t))] = NoClaim
         /\ \A k \in DOMAIN t.probes : t.publication[k] \in Claim
<1> DEFINE dom == DOMAIN t.probes
           co == Content(t.planned, Num(t))
           ti == NewTitle(t.planned, Num(t))
           f == [k \in dom |-> CASE k = co -> Committed(0) [] k = ti -> Committed(Num(t))
                               [] OTHER -> NoClaim]
<1>1. t.publication = f
  BY DEF Filled, Publication
<1>2. co \in Title \X Rationales
  BY ContentKind DEF Filled
<1>3. ti = TitleKey(NewTitleOf(t)) /\ co # ti
  BY <1>2, KeyKinds DEF NewTitle, NewTitleOf
<1>4. co \in dom /\ ti \in dom
  BY <1>3, ProbeFacts
<1>5. Replaces(t) /\ OldTitle(t) # NewTitleOf(t) =>
        TitleKey(OldTitle(t)) \in dom \ {co, ti}
  BY <1>2, <1>3, ProbeFacts, KeyKinds
<1>6. Num(t) \in 0 .. MaxCommits /\ 0 \in 0 .. MaxCommits
  BY DEF Filled, Number, Bounds
<1>7. NoClaim \in Claim /\ Committed(0) \in Claim /\ Committed(Num(t)) \in Claim
  BY <1>6, ClaimTypes
<1> HIDE DEF dom, co, ti
<1>8. f[co] = Committed(0) /\ f[ti] = Committed(Num(t))
  BY <1>3, <1>4
<1>9. \A k \in dom \ {co, ti} : f[k] = NoClaim
  OBVIOUS
<1>10. \A k \in dom : f[k] \in Claim
  BY <1>7
<1>11. DOMAIN f = dom
  OBVIOUS
<1> HIDE DEF f
<1> QED
  BY <1>1, <1>3, <1>5, <1>8, <1>9, <1>10, <1>11 DEF dom, co, ti
-----------------------------------------------------------------------------
(* What a decision makes of a generation.                                    *)

Added(p, from) == [title |-> p.title, text |-> <<p.text>>, superseded_by |-> 0,
                   supersedes |-> from]

(* The decisions E are D with the payload p applied, its decision numbered n.  *)
Makes(p, D, m, E, n) ==
  /\ E \in [1 .. NewCounter(p, m) -> Decision] /\ n \in 1 .. NewCounter(p, m)
  /\ p.op = "update" =>
       /\ n = p.target /\ n \in 1 .. m /\ NewCounter(p, m) = m
       /\ E = [D EXCEPT ![p.target].text = Append(@, p.text)]
       /\ E[n].title = D[n].title /\ E[n].superseded_by = D[n].superseded_by
       /\ E[n].supersedes = D[n].supersedes
  /\ p.op # "update" =>
       /\ n = m + 1 /\ NewCounter(p, m) = m + 1
       /\ E[n] = Added(p, IF p.op = "add" THEN 0 ELSE p.target)
  /\ p.op = "supersede" =>
       /\ p.target \in 1 .. m /\ E[p.target] = [D[p.target] EXCEPT !.superseded_by = m + 1]
  /\ \A j \in 1 .. m : j # n /\ (p.op = "supersede" => j # p.target) => E[j] = D[j]

LEMMA MakesUpdate ==
  ASSUME Bounds, NEW p \in Payment, NEW m \in 0 .. MaxCommits, NEW D \in [1 .. m -> Decision],
         p.op = "update", p.target \in 1 .. m,
         Len(Planned(p, D, m)[p.target].text) <= MaxText
  PROVE  Makes(p, D, m, Planned(p, D, m), Primary(p, m))
<1> DEFINE n == p.target
           E == [D EXCEPT ![n].text = Append(D[n].text, p.text)]
<1>1. Planned(p, D, m) = E /\ Primary(p, m) = n /\ NewCounter(p, m) = m
  BY DEF Planned, Primary, NewCounter
<1>2. D[n] \in Decision
  OBVIOUS
<1>3. E[n] = [D[n] EXCEPT !.text = Append(D[n].text, p.text)] /\ \A j \in 1 .. m : j # n => E[j] = D[j]
  OBVIOUS
<1>4. E[n].text = Append(D[n].text, p.text) /\ E[n].title = D[n].title
      /\ E[n].superseded_by = D[n].superseded_by /\ E[n].supersedes = D[n].supersedes
  BY <1>2, <1>3 DEF Decision
<1>5. Append(D[n].text, p.text) \in Rationales
  BY <1>1, <1>2, <1>4, DecisionFields, PaymentFields, RationaleGrows
<1>6. E[n] \in Decision
  BY <1>2, <1>3, <1>5 DEF Decision
<1>7. E \in [1 .. m -> Decision]
  BY <1>3, <1>6
<1> QED
  BY <1>1, <1>3, <1>4, <1>7 DEF Makes

LEMMA AddedIsDecision ==
  ASSUME Bounds, NEW p \in Payment, NEW from \in 0 .. MaxCommits, MaxText >= 1
  PROVE  Added(p, from) \in Decision
<1>1. <<p.text>> \in Rationales /\ p.title \in Title
  BY PaymentFields, RationaleStarts
<1> QED
  BY <1>1 DEF Added, Decision, Bounds

LEMMA MakesAdd ==
  ASSUME Bounds, NEW p \in Payment, NEW m \in 0 .. MaxCommits, NEW D \in [1 .. m -> Decision],
         m < MaxCommits, p.op = "add", Len(Planned(p, D, m)[m + 1].text) <= MaxText
  PROVE  Makes(p, D, m, Planned(p, D, m), Primary(p, m))
<1> DEFINE n == m + 1
           E == [j \in 1 .. m \union {n} |-> IF j = n THEN Added(p, 0) ELSE D[j]]
<1>0. m \in Nat /\ 1 .. m \union {n} = 1 .. n /\ n \notin 1 .. m
  BY DEF Bounds
<1>1. Planned(p, D, m) = E /\ Primary(p, m) = n /\ NewCounter(p, m) = n
  <2>1. DOMAIN D = 1 .. m
    OBVIOUS
  <2> QED
    BY <2>1 DEF Planned, Primary, NewCounter, NewNumber, Added
<1>2. E[n] = Added(p, 0) /\ \A j \in 1 .. m : E[j] = D[j]
  BY <1>0
<1>3. Added(p, 0).text = <<p.text>> /\ Len(<<p.text>>) = 1
  BY DEF Added
<1>4. Added(p, 0) \in Decision
  <2>1. Planned(p, D, m)[n] = Added(p, 0)
    BY <1>1, <1>2
  <2>2. MaxText >= 1
    BY <2>1, <1>3
  <2>3. 0 \in 0 .. MaxCommits
    BY DEF Bounds
  <2> QED
    BY <2>2, <2>3, AddedIsDecision
<1>5. E \in [1 .. n -> Decision] /\ n \in 1 .. n
  BY <1>0, <1>4
<1> HIDE DEF E
<1> QED
  BY <1>0, <1>1, <1>2, <1>5 DEF Makes

LEMMA MakesSupersede ==
  ASSUME Bounds, NEW p \in Payment, NEW m \in 0 .. MaxCommits, NEW D \in [1 .. m -> Decision],
         m < MaxCommits, p.op = "supersede", p.target \in 1 .. m,
         Len(Planned(p, D, m)[m + 1].text) <= MaxText
  PROVE  Makes(p, D, m, Planned(p, D, m), Primary(p, m))
<1> DEFINE n == m + 1
           R == [D EXCEPT ![p.target].superseded_by = n]
           E == [j \in 1 .. m \union {n} |-> IF j = n THEN Added(p, p.target) ELSE R[j]]
<1>0. m \in Nat /\ 1 .. m \union {n} = 1 .. n /\ n \notin 1 .. m /\ n \in 0 .. MaxCommits
  BY DEF Bounds
<1>1. Planned(p, D, m) = E /\ Primary(p, m) = n /\ NewCounter(p, m) = n
  <2>1. DOMAIN D = 1 .. m
    OBVIOUS
  <2> QED
    BY <2>1 DEF Planned, Primary, NewCounter, NewNumber, Added
<1>2. /\ R[p.target] = [D[p.target] EXCEPT !.superseded_by = n]
      /\ \A j \in 1 .. m : j # p.target => R[j] = D[j]
  OBVIOUS
<1>3. \A j \in 1 .. m : R[j] \in Decision
  <2>1. D[p.target] \in Decision
    OBVIOUS
  <2>2. R[p.target] \in Decision
    BY <1>0, <1>2, <2>1 DEF Decision
  <2> QED
    BY <1>2, <2>2
<1> HIDE DEF R
<1>4. E[n] = Added(p, p.target) /\ \A j \in 1 .. m : E[j] = R[j]
  BY <1>0
<1>5. Added(p, p.target).text = <<p.text>> /\ Len(<<p.text>>) = 1
  BY DEF Added
<1>6. Added(p, p.target) \in Decision
  BY <1>1, <1>4, <1>5, PaymentFields, AddedIsDecision DEF Bounds
<1>7. E \in [1 .. n -> Decision] /\ n \in 1 .. n
  BY <1>0, <1>3, <1>6
<1> HIDE DEF E
<1> QED
  BY <1>0, <1>1, <1>2, <1>4, <1>7 DEF Makes

LEMMA PlannedMakes ==
  ASSUME Bounds, NEW p \in Payment, NEW m \in 0 .. MaxCommits, NEW D \in [1 .. m -> Decision],
         m < MaxCommits, p.op # "add" => p.target \in 1 .. m,
         Len(Planned(p, D, m)[Primary(p, m)].text) <= MaxText
  PROVE  Makes(p, D, m, Planned(p, D, m), Primary(p, m))
<1>1. p.op \in {"add", "update", "supersede"}
  BY PaymentFields
<1>2. CASE p.op = "update"
  BY <1>2, MakesUpdate DEF Primary
<1>3. CASE p.op = "add"
  BY <1>3, MakesAdd DEF Primary, NewNumber
<1>4. CASE p.op = "supersede"
  BY <1>4, MakesSupersede DEF Primary, NewNumber
<1> QED
  BY <1>1, <1>2, <1>3, <1>4
-----------------------------------------------------------------------------
(* What publishing keeps true of the decisions.                              *)

(* Everything of an earlier decision stays but the text of an updated one and   *)
(* the link of a replaced one.                                              *)
LEMMA MakesKeeps ==
  ASSUME Bounds, NEW p \in Payment, NEW m \in 0 .. MaxCommits, NEW D \in [1 .. m -> Decision],
         NEW E, NEW n, Makes(p, D, m, E, n)
  PROVE  \A j \in 1 .. m :
           /\ j \in DOMAIN E /\ E[j].title = D[j].title /\ E[j].supersedes = D[j].supersedes
           /\ j # n => E[j].text = D[j].text
           /\ p.op = "supersede" /\ j = p.target => E[j].superseded_by = m + 1
           /\ ~(p.op = "supersede" /\ j = p.target) => E[j].superseded_by = D[j].superseded_by
<1> SUFFICES ASSUME NEW j \in 1 .. m
             PROVE  /\ j \in DOMAIN E /\ E[j].title = D[j].title /\ E[j].supersedes = D[j].supersedes
                    /\ j # n => E[j].text = D[j].text
                    /\ p.op = "supersede" /\ j = p.target => E[j].superseded_by = m + 1
                    /\ ~(p.op = "supersede" /\ j = p.target) =>
                         E[j].superseded_by = D[j].superseded_by
  OBVIOUS
<1>1. /\ E \in [1 .. NewCounter(p, m) -> Decision] /\ NewCounter(p, m) \in {m, m + 1} /\ m \in Nat
      /\ D[j] \in Decision
  BY DEF Makes, Bounds, NewCounter, NewNumber
<1>2. j \in DOMAIN E
  BY <1>1
<1>3. CASE p.op = "supersede" /\ j = p.target
  <2>1. E[j] = [D[j] EXCEPT !.superseded_by = m + 1] /\ n = m + 1
    BY <1>3 DEF Makes
  <2> QED
    BY <1>1, <1>2, <1>3, <2>1 DEF Decision
<1>4. CASE j = n /\ ~(p.op = "supersede" /\ j = p.target)
  <2>1. p.op = "update"
    BY <1>1, <1>4 DEF Makes
  <2> QED
    BY <1>2, <1>4, <2>1 DEF Makes
<1>5. CASE j # n /\ ~(p.op = "supersede" /\ j = p.target)
  <2>1. E[j] = D[j]
    BY <1>5 DEF Makes
  <2> QED
    BY <1>2, <1>5, <2>1
<1> QED
  BY <1>3, <1>4, <1>5

(* The decision an update extends still stands.                              *)
Applies(p, D, m, E, n) == Makes(p, D, m, E, n) /\ (p.op = "update" => Stands(D, n))

(* The decision itself stands, in a place that was free or its own.           *)
LEMMA MakesStands ==
  ASSUME Bounds, NEW p \in Payment, NEW m \in 0 .. MaxCommits, NEW D \in [1 .. m -> Decision],
         NEW E, NEW n, Applies(p, D, m, E, n)
  PROVE  /\ Stands(E, n) /\ n \in Nat \ {0} /\ m \in Nat
         /\ \A j : j \in DOMAIN E <=> j \in 1 .. m \/ j = n
         /\ p.op = "update" => n \in 1 .. m
         /\ p.op # "update" => n = m + 1 /\ n \notin 1 .. m
<1>1. /\ E \in [1 .. NewCounter(p, m) -> Decision] /\ m \in Nat /\ n \in 1 .. NewCounter(p, m)
      /\ NewCounter(p, m) \in Nat
  BY DEF Applies, Makes, Bounds, NewCounter, NewNumber
<1>2. CASE p.op = "update"
  <2>1. n \in 1 .. m /\ NewCounter(p, m) = m /\ E[n].superseded_by = D[n].superseded_by /\ Stands(D, n)
    BY <1>2 DEF Applies, Makes
  <2> QED
    BY <1>1, <1>2, <2>1 DEF Stands
<1>3. CASE p.op # "update"
  <2>1. n = m + 1 /\ NewCounter(p, m) = m + 1 /\ E[n].superseded_by = 0
    BY <1>3 DEF Applies, Makes, Added
  <2>2. 1 .. m + 1 = 1 .. m \union {m + 1}
    BY <1>1
  <2> QED
    BY <1>1, <1>3, <2>1, <2>2 DEF Stands
<1> QED
  BY <1>2, <1>3

(* A title the plan does not touch is whose it was.                           *)
LEMMA HoldsStay ==
  ASSUME Bounds, NEW p \in Payment, NEW m \in 0 .. MaxCommits, NEW D \in [1 .. m -> Decision],
         NEW E, NEW n, Applies(p, D, m, E, n),
         NEW t, t # E[n].title, p.op # "add" => t # E[p.target].title,
         NEW o, Holds(D, t, o)
  PROVE  Holds(E, t, o)
<1>1. /\ Stands(E, n) /\ DOMAIN D = 1 .. m /\ \A j : j \in DOMAIN E <=> j \in 1 .. m \/ j = n
  BY MakesStands
<1>2. \A j \in 1 .. m : E[j].title = D[j].title
  BY MakesKeeps DEF Applies
<1>3. \A j \in 1 .. m : ~(p.op = "supersede" /\ j = p.target) =>
        E[j].superseded_by = D[j].superseded_by
  BY MakesKeeps DEF Applies
<1>4. \A j \in 1 .. m : p.op = "supersede" /\ j = p.target => E[j].superseded_by # 0
  <2>1. m + 1 # 0
    BY DEF Bounds
  <2> QED
    BY <2>1, MakesKeeps DEF Applies
<1>5. CASE o = 0
  BY <1>1, <1>2, <1>3, <1>4, <1>5 DEF Holds, Stands
<1>6. CASE o # 0
  <2>1. o \in 1 .. m /\ D[o].superseded_by = 0 /\ D[o].title = t
    BY <1>1, <1>6 DEF Holds, Stands
  <2>2. ~(p.op = "supersede" /\ o = p.target)
    BY <1>2, <2>1
  <2> QED
    BY <1>1, <1>2, <1>3, <1>6, <2>1, <2>2 DEF Holds, Stands
<1> QED
  BY <1>5, <1>6

(* A content the plan does not make is as new as it was.                      *)
LEMMA NewStays ==
  ASSUME Bounds, NEW p \in Payment, NEW m \in 0 .. MaxCommits, NEW D \in [1 .. m -> Decision],
         NEW E, NEW n, Applies(p, D, m, E, n),
         NEW k, k # Content(E, n), New(D, k)
  PROVE  New(E, k)
<1>1. DOMAIN D = 1 .. m /\ \A j : j \in DOMAIN E <=> j \in 1 .. m \/ j = n
  BY MakesStands
<1>2. \A j \in 1 .. m : j # n => Content(E, j) = Content(D, j)
  BY MakesKeeps DEF Applies, Content
<1> QED
  BY <1>1, <1>2 DEF New

(* The plan's own titles are what its publication says.                       *)
LEMMA OwnTitles ==
  ASSUME Bounds, NEW p \in Payment, NEW m \in 0 .. MaxCommits, NEW D \in [1 .. m -> Decision],
         NEW E, NEW n, Applies(p, D, m, E, n), OneStands(D),
         p.op # "add" => Holds(D, E[p.target].title, p.target) /\ p.target # 0
  PROVE  /\ Holds(E, E[n].title, n)
         /\ p.op # "add" /\ E[p.target].title # E[n].title => Holds(E, E[p.target].title, 0)
<1>1. /\ Stands(E, n) /\ n # 0 /\ DOMAIN D = 1 .. m /\ \A j : j \in DOMAIN E <=> j \in 1 .. m \/ j = n
  BY MakesStands
<1>2. Holds(E, E[n].title, n)
  BY <1>1 DEF Holds
<1>3. ASSUME p.op # "add", E[p.target].title # E[n].title
      PROVE  Holds(E, E[p.target].title, 0)
  <2> DEFINE x == p.target
  <2>1. p.op = "supersede" /\ x \in 1 .. m
    BY <1>3, PaymentFields DEF Applies, Makes
  <2>2. Stands(D, x) /\ D[x].title = E[x].title
    BY <1>3 DEF Holds
  <2>3. E[x].superseded_by # 0
    <3>1. m + 1 # 0
      BY DEF Bounds
    <3> QED
      BY <2>1, <3>1, MakesKeeps DEF Applies
  <2>4. \A j \in 1 .. m : j # x => E[j].title = D[j].title /\ E[j].superseded_by = D[j].superseded_by
    BY MakesKeeps DEF Applies
  <2>5. ASSUME NEW j \in DOMAIN E, Stands(E, j), E[j].title = E[x].title
        PROVE  FALSE
    <3>1. j # n /\ j # x
      BY <1>3, <2>3, <2>5 DEF Stands
    <3>2. j \in 1 .. m
      BY <1>1, <2>5, <3>1
    <3>3. Stands(D, j) /\ D[j].title = D[x].title
      BY <1>1, <2>2, <2>4, <2>5, <3>1, <3>2 DEF Stands
    <3> QED
      BY <1>1, <2>1, <2>2, <3>1, <3>2, <3>3 DEF OneStands
  <2> QED
    BY <2>5 DEF Holds
<1> QED
  BY <1>2, <1>3
(* The title of the decision was free, or that of the one it replaces.         *)
Free(p, D, E, n) ==
  \/ Holds(D, E[n].title, 0)
  \/ /\ p.op # "add" /\ p.target # 0 /\ E[p.target].title = E[n].title
     /\ Holds(D, E[n].title, p.target)

LEMMA OneStandsStill ==
  ASSUME Bounds, NEW p \in Payment, NEW m \in 0 .. MaxCommits, NEW D \in [1 .. m -> Decision],
         NEW E, NEW n, Applies(p, D, m, E, n), OneStands(D), Free(p, D, E, n)
  PROVE  OneStands(E)
<1>1. DOMAIN D = 1 .. m /\ \A j : j \in DOMAIN E <=> j \in 1 .. m \/ j = n
  BY MakesStands
<1>2. \A j \in 1 .. m : Stands(E, j) => Stands(D, j) /\ D[j].title = E[j].title
  <2> SUFFICES ASSUME NEW j \in 1 .. m, Stands(E, j)
               PROVE  Stands(D, j) /\ D[j].title = E[j].title
    OBVIOUS
  <2>1. ~(p.op = "supersede" /\ j = p.target)
    <3>1. m + 1 # 0
      BY DEF Bounds
    <3> QED
      BY <3>1, MakesKeeps DEF Stands, Applies
  <2> QED
    BY <1>1, <2>1, MakesKeeps DEF Stands, Applies
<1>3. ASSUME NEW j \in 1 .. m, j # n, Stands(E, j), E[j].title = E[n].title
      PROVE  FALSE
  <2>1. Stands(D, j) /\ D[j].title = E[n].title
    BY <1>2, <1>3
  <2>2. CASE Holds(D, E[n].title, 0)
    BY <1>1, <2>1, <2>2 DEF Holds
  <2>3. CASE /\ p.op # "add" /\ p.target # 0 /\ E[p.target].title = E[n].title
             /\ Holds(D, E[n].title, p.target)
    <3>1. j = p.target
      BY <1>1, <2>1, <2>3 DEF Holds, Stands, OneStands
    <3>2. CASE p.op = "update"
      BY <1>3, <3>1, <3>2 DEF Applies, Makes
    <3>3. CASE p.op = "supersede"
      <4>1. E[j].superseded_by = m + 1
        BY <3>1, <3>3, MakesKeeps DEF Applies
      <4>2. m + 1 # 0
        BY DEF Bounds
      <4> QED
        BY <1>3, <4>1, <4>2 DEF Stands
    <3> QED
      BY <2>3, <3>2, <3>3, PaymentFields
  <2> QED
    BY <2>2, <2>3 DEF Free
<1> SUFFICES ASSUME NEW i \in DOMAIN E, NEW j \in DOMAIN E, Stands(E, i), Stands(E, j),
                    E[i].title = E[j].title, i # j
             PROVE  FALSE
  BY DEF OneStands
<1>4. CASE i # n /\ j # n
  BY <1>1, <1>2, <1>4 DEF OneStands
<1>5. CASE i = n
  BY <1>1, <1>3, <1>5
<1>6. CASE j = n
  BY <1>1, <1>3, <1>6
<1> QED
  BY <1>4, <1>5, <1>6

LEMMA NoTwiceStill ==
  ASSUME Bounds, NEW p \in Payment, NEW m \in 0 .. MaxCommits, NEW D \in [1 .. m -> Decision],
         NEW E, NEW n, Applies(p, D, m, E, n), NoTwice(D), New(D, Content(E, n))
  PROVE  NoTwice(E)
<1>1. DOMAIN D = 1 .. m /\ \A j : j \in DOMAIN E <=> j \in 1 .. m \/ j = n
  BY MakesStands
<1>2. \A j \in 1 .. m : j # n => Content(E, j) = Content(D, j)
  BY MakesKeeps DEF Applies, Content
<1> QED
  BY <1>1, <1>2 DEF NoTwice, New

(* A decision and the one it replaced name each other.                        *)
LEMMA LinksStill ==
  ASSUME Bounds, NEW p \in Payment, NEW m \in 0 .. MaxCommits, NEW D \in [1 .. m -> Decision],
         NEW E, NEW n, Applies(p, D, m, E, n), Links(D), Inside(D, m),
         p.op = "supersede" => Stands(D, p.target)
  PROVE  Links(E) /\ Inside(E, NewCounter(p, m))
<1>1. DOMAIN D = 1 .. m /\ \A j : j \in DOMAIN E <=> j \in 1 .. m \/ j = n
  BY MakesStands
<1>0. m \in Nat /\ NewCounter(p, m) = IF p.op = "update" THEN m ELSE m + 1
  BY DEF Bounds, NewCounter, NewNumber
<1>2. \A j \in 1 .. m : E[j].supersedes = D[j].supersedes
  BY MakesKeeps DEF Applies
<1>3. \A j \in 1 .. m : ~(p.op = "supersede" /\ j = p.target) =>
        E[j].superseded_by = D[j].superseded_by
  BY MakesKeeps DEF Applies
<1>4. \A j \in 1 .. m : D[j].supersedes \in 0 .. m /\ D[j].superseded_by \in 0 .. m
  BY DEF Inside
<1>5. CASE p.op = "update"
  <2>1. n \in 1 .. m
    BY <1>5 DEF Applies, Makes
  <2>2. Links(E)
    BY <1>1, <1>2, <1>3, <1>5, <2>1 DEF Links
  <2>3. Inside(E, m)
    BY <1>2, <1>3, <1>4, <1>5 DEF Inside
  <2> QED
    BY <1>0, <1>5, <2>2, <2>3
<1>6. CASE p.op = "add"
  <2>1. n = m + 1 /\ E[n].supersedes = 0 /\ E[n].superseded_by = 0
    BY <1>6 DEF Applies, Makes, Added
  <2>2. Links(E)
    <3> SUFFICES ASSUME NEW i \in DOMAIN E, NEW j \in DOMAIN E
                 PROVE  E[i].superseded_by = j <=> E[j].supersedes = i
      BY DEF Links
    <3>1. i \in 1 .. m \/ i = n
      BY <1>1
    <3>2. j \in 1 .. m \/ j = n
      BY <1>1
    <3> QED
      BY <1>0, <1>1, <1>2, <1>3, <1>4, <1>6, <2>1, <3>1, <3>2 DEF Links
  <2>3. Inside(E, m + 1)
    <3> SUFFICES ASSUME NEW i \in 1 .. m + 1
                 PROVE  E[i].supersedes \in 0 .. m + 1 /\ E[i].superseded_by \in 0 .. m + 1
      BY DEF Inside
    <3> QED
      BY <1>0, <1>2, <1>3, <1>4, <1>6, <2>1
  <2> QED
    BY <1>0, <1>6, <2>2, <2>3
<1>7. CASE p.op = "supersede"
  <2> DEFINE x == p.target
  <2>1. n = m + 1 /\ E[n].supersedes = x /\ E[n].superseded_by = 0 /\ x \in 1 .. m
    BY <1>7 DEF Applies, Makes, Added
  <2>2. E[x].superseded_by = n /\ D[x].superseded_by = 0
    BY <1>7, <2>1, MakesKeeps DEF Applies, Stands
  <2>3. \A j \in 1 .. m : D[j].supersedes # x
    BY <1>1, <2>1, <2>2 DEF Links
  <2>4. Links(E)
    <3> SUFFICES ASSUME NEW i \in DOMAIN E, NEW j \in DOMAIN E
                 PROVE  E[i].superseded_by = j <=> E[j].supersedes = i
      BY DEF Links
    <3>1. i \in 1 .. m \/ i = n
      BY <1>1
    <3>2. j \in 1 .. m \/ j = n
      BY <1>1
    <3>3. CASE i = x
      BY <1>0, <1>1, <1>2, <2>1, <2>2, <2>3, <3>2, <3>3
    <3>4. CASE i # x
      BY <1>0, <1>1, <1>2, <1>3, <1>4, <2>1, <2>2, <3>1, <3>2, <3>4 DEF Links
    <3> QED
      BY <3>3, <3>4
  <2>5. Inside(E, m + 1)
    <3> SUFFICES ASSUME NEW i \in 1 .. m + 1
                 PROVE  E[i].supersedes \in 0 .. m + 1 /\ E[i].superseded_by \in 0 .. m + 1
      BY DEF Inside
    <3> QED
      BY <1>0, <1>2, <1>3, <1>4, <2>1, <2>2
  <2> QED
    BY <1>0, <1>7, <2>4, <2>5
<1> QED
  BY <1>5, <1>6, <1>7, PaymentFields
-----------------------------------------------------------------------------
(* Tasks and the steps that change nothing but one.                          *)

LEMMA TaskMoves ==
  ASSUME NEW c \in Committers, NEW new, DOMAIN task = Committers, Moves(c, new)
  PROVE  /\ DOMAIN task' = Committers /\ task'[c] = new
         /\ \A d \in Committers \ {c} : task'[d] = task[d]
  BY DEF Moves

(* A task that goes on keeps its plan.                                      *)
LEMMA TaskGoes ==
  ASSUME NEW t, Whole(t), NEW place, NEW u, u = [t EXCEPT !.at = place]
  PROVE  /\ Whole(u) /\ u.at = place /\ u.payload = t.payload /\ u.base = t.base
         /\ u.planned = t.planned /\ u.probes = t.probes /\ u.publication = t.publication
         /\ u.seen = t.seen
  BY DEF Whole

LEMMA TaskSees ==
  ASSUME NEW t, Whole(t), NEW s, NEW u, u = [t EXCEPT !.seen = s]
  PROVE  /\ Whole(u) /\ u.at = t.at /\ u.payload = t.payload /\ u.base = t.base
         /\ u.planned = t.planned /\ u.probes = t.probes /\ u.publication = t.publication
         /\ u.seen = s
  BY DEF Whole

LEMMA NoTaskIsOK ==
  ASSUME NEW g
  PROVE  TaskOK(NoTask, g) /\ NoTask.at = "idle" /\ NoTask.seen = NoFile
  BY DEF TaskOK, NoTask, Whole, Places, Planning

LEMMA TaskApproved ==
  ASSUME NEW p \in Payment, p.base < MaxCommits, NEW g,
         NEW u, u = [NoTask EXCEPT !.at = "approved", !.payload = p]
  PROVE  TaskOK(u, g) /\ u.at = "approved" /\ u.payload = p /\ u.seen = NoFile
<1>1. u.at = "approved" /\ u.payload = p /\ Whole(u) /\ u.seen = NoFile
  BY DEF NoTask, Whole
<1> QED
  BY <1>1 DEF TaskOK, Places, Planning

LEMMA NotHolding ==
  ASSUME NEW t, t.at \notin Holding, NEW cl, NEW D, NEW u
  PROVE  Fits(t, cl, D) /\ Apart(t, u) /\ Apart(u, t)
  BY DEF Fits, Reserves, Entered, Published, Apart, Holding

LEMMA Known ==
  ASSUME IInv, NEW c \in Committers
  PROVE  /\ TaskOK(task[c], generation) /\ Whole(task[c]) /\ task[c].at \in Places
         /\ Fits(task[c], claims, generation.decisions)
         /\ GenerationOK(generation) /\ DOMAIN task = Committers
         /\ task[c].at \in Planning => Filled(task[c]) /\ Current(task[c], generation)
  BY DEF IInv, TaskOK

(* Neither the generation nor a claim changes, and the task holds nothing.     *)
LEMMA Quiet ==
  ASSUME IInv, NEW c \in Committers, NEW new, Moves(c, new), UNCHANGED <<generation, claims>>,
         TaskOK(new, generation), new.at \notin Holding
  PROVE  IInv'
<1>1. /\ DOMAIN task' = Committers /\ task'[c] = new
      /\ \A d \in Committers \ {c} : task'[d] = task[d]
  BY TaskMoves DEF IInv
<1>2. \A d \in Committers : TaskOK(task'[d], generation)
  BY <1>1 DEF IInv
<1>3. \A d \in Committers : Fits(task'[d], claims, generation.decisions)
  BY <1>1, NotHolding DEF IInv
<1>4. \A d, e \in Committers : d # e => Apart(task'[d], task'[e])
  BY <1>1, NotHolding DEF IInv
<1> QED
  BY <1>1, <1>2, <1>3, <1>4 DEF IInv

LEMMA ApproveStep ==
  ASSUME Bounds, IInv, NEW c \in Committers, NEW p \in Payloads, Approve(c, p)
  PROVE  IInv'
<1>1. /\ generation.id \in 0 .. MaxCommits /\ generation.counter \in 0 .. MaxCommits
      /\ generation.decisions \in [1 .. generation.counter -> Decision]
      /\ generation.id < MaxCommits
  <2>1. /\ generation.id \in 0 .. MaxCommits /\ generation.counter \in 0 .. generation.id
        /\ generation.decisions \in [1 .. generation.counter -> Decision]
    BY DEF IInv, GenerationOK
  <2> QED
    BY <2>1 DEF Bounds, Approve
<1>2. \A op \in Ops, n \in 0 .. generation.counter, t \in Title, x \in Text :
        Payload(op, n, t, x) \in Payment /\ Payload(op, n, t, x).base = generation.id
  BY <1>1 DEF Payload, Payment, Bounds
<1>3. \A n \in DOMAIN generation.decisions :
        n \in 0 .. generation.counter /\ generation.decisions[n].title \in Title
  BY <1>1, DecisionFields DEF Bounds
<1>4. p \in Payment /\ p.base = generation.id
  <2>1. 0 \in 0 .. generation.counter /\ {"add", "update", "supersede"} = Ops
    BY <1>1 DEF Ops, Bounds
  <2>2. CASE \E t \in Title, x \in Text : p = Payload("add", 0, t, x)
    BY <1>2, <2>1, <2>2
  <2>3. CASE \E n \in DOMAIN generation.decisions, x \in Text :
               p = Payload("update", n, generation.decisions[n].title, x)
    <3>1. PICK n \in DOMAIN generation.decisions, x \in Text :
            p = Payload("update", n, generation.decisions[n].title, x)
      BY <2>3
    <3>2. n \in 0 .. generation.counter /\ generation.decisions[n].title \in Title
      BY <1>3
    <3> QED
      BY <1>2, <2>1, <3>1, <3>2
  <2>4. CASE \E n \in DOMAIN generation.decisions, t \in Title, x \in Text :
               p = Payload("supersede", n, t, x)
    BY <1>2, <1>3, <2>1, <2>4
  <2> QED
    BY <2>2, <2>3, <2>4 DEF Payloads
<1>5. TaskOK([NoTask EXCEPT !.at = "approved", !.payload = p], generation)
      /\ [NoTask EXCEPT !.at = "approved", !.payload = p].at = "approved"
  BY <1>1, <1>4, TaskApproved
<1> QED
  BY <1>5, Quiet DEF Approve, Holding

LEMMA RefusedStep ==
  ASSUME IInv, NEW c \in Committers, PrepareRefused(c) \/ FinalizeRefused(c)
  PROVE  IInv'
  BY NoTaskIsOK, Quiet DEF PrepareRefused, FinalizeRefused, Holding

LEMMA PrepareStep ==
  ASSUME Bounds, IInv, NEW c \in Committers, PrepareCommit(c)
  PROVE  IInv'
<1> DEFINE t == task[c]
           p == t.payload
           D == generation.decisions
           m == generation.counter
           pl == Planned(p, D, m)
           n == Primary(p, m)
           u == [t EXCEPT !.at = "prepared", !.planned = pl, !.base = generation.id,
                          !.probes = Probes(p, pl, n), !.publication = Publication(p, pl, n)]
<1>1. /\ t.at = "approved" /\ BaseStands(p) /\ TargetFound(p) /\ Len(pl[n].text) <= MaxText
      /\ Moves(c, u) /\ UNCHANGED <<generation, claims>>
  BY DEF PrepareCommit, At
<1>2. /\ Whole(t) /\ p \in Payment /\ p.base < MaxCommits /\ t.seen = NoFile
  <2>1. TaskOK(t, generation) /\ Whole(t)
    BY Known
  <2>2. /\ p \in Payment /\ p.base < MaxCommits
        /\ t = [NoTask EXCEPT !.at = "approved", !.payload = p]
    BY <1>1, <2>1 DEF TaskOK
  <2>3. [NoTask EXCEPT !.at = "approved", !.payload = p].seen = NoFile
    BY DEF NoTask
  <2> QED
    BY <2>1, <2>2, <2>3
<1>3. /\ generation.id \in Nat /\ m \in 0 .. MaxCommits /\ m < MaxCommits
      /\ D \in [1 .. m -> Decision] /\ p.counter = m /\ generation.id < MaxCommits
  <2>1. /\ generation.id \in 0 .. MaxCommits /\ generation.counter \in 0 .. generation.id
        /\ D \in [1 .. m -> Decision]
    BY DEF IInv, GenerationOK
  <2> QED
    BY <1>1, <1>2, <2>1 DEF BaseStands, Bounds
<1>4. p.op # "add" => p.target \in 1 .. m
  BY <1>1, <1>3 DEF TargetFound
<1>5. Makes(p, D, m, pl, n)
  BY <1>1, <1>2, <1>3, <1>4, PlannedMakes
<1>6. /\ pl \in [1 .. NewCounter(p, m) -> Decision] /\ n \in 1 .. NewCounter(p, m)
      /\ NewCounter(p, m) \in 0 .. MaxCommits
      /\ p.op # "add" => p.target \in 1 .. NewCounter(p, m)
  <2>1. NewCounter(p, m) \in 0 .. MaxCommits /\ NewCounter(p, m) >= m
    BY <1>3 DEF NewCounter, NewNumber, Bounds
  <2>2. pl \in [1 .. NewCounter(p, m) -> Decision] /\ n \in 1 .. NewCounter(p, m)
    BY <1>5 DEF Makes
  <2> QED
    BY <1>3, <1>4, <2>1, <2>2
<1> HIDE DEF pl, n
<1>7. /\ Whole(u) /\ u.at = "prepared" /\ u.payload = p /\ u.base = generation.id
      /\ u.planned = pl /\ u.probes = Probes(p, pl, n) /\ u.publication = Publication(p, pl, n)
      /\ u.seen = NoFile
  <2> DEFINE pr == Probes(p, pl, n)
             pu == Publication(p, pl, n)
             g == generation.id
  <2>1. u = [t EXCEPT !.at = "prepared", !.planned = pl, !.base = g, !.probes = pr,
                      !.publication = pu]
    OBVIOUS
  <2>2. Whole(t) /\ t.seen = NoFile
    BY <1>2
  <2> HIDE DEF pr, pu, g, t, u
  <2>3. /\ Whole(u) /\ u.at = "prepared" /\ u.payload = t.payload /\ u.base = g
        /\ u.planned = pl /\ u.probes = pr /\ u.publication = pu /\ u.seen = t.seen
    BY <2>1, <2>2 DEF Whole
  <2> QED
    BY <2>2, <2>3 DEF pr, pu, g, t
<1> HIDE DEF u
<1>8. Num(u) = n
  BY <1>3, <1>7 DEF Num, n
<1>9. Filled(u)
  <2>1. \A j \in DOMAIN pl : pl[j] \in Decision /\ j \in Number
    BY <1>6 DEF Number, Bounds
  <2>2. n \in DOMAIN pl /\ (p.op # "add" => p.target \in DOMAIN pl)
    BY <1>6
  <2> QED
    BY <1>2, <1>7, <1>8, <2>1, <2>2 DEF Filled, Replaces
<1>10. Current(u, generation)
  BY <1>3, <1>4, <1>7 DEF Current, Replaces, pl
<1>11. TaskOK(u, generation)
  <2>1. DOMAIN u.seen \subseteq DOMAIN u.probes
    BY <1>7 DEF NoFile
  <2> QED
    BY <1>3, <1>7, <1>9, <1>10, <2>1 DEF TaskOK, Places, Planning
<1> QED
  BY <1>1, <1>7, <1>11, Quiet DEF Holding

LEMMA ObserveStep ==
  ASSUME Bounds, IInv, NEW c \in Committers, NEW k, Observe(c, k)
  PROVE  IInv'
<1> DEFINE t == task[c]
           s == [j \in DOMAIN t.seen \union {k} |-> IF j = k THEN claims[k] ELSE t.seen[j]]
           u == [t EXCEPT !.seen = s]
<1>1. /\ t.at = "prepared" /\ k \in DOMAIN t.probes /\ Moves(c, u)
      /\ UNCHANGED <<generation, claims>>
  BY DEF Observe, At
<1>2. Whole(t) /\ TaskOK(t, generation)
  BY Known
<1>3. /\ Filled(t) /\ t.base \in Nat /\ Current(t, generation)
      /\ DOMAIN t.seen \subseteq DOMAIN t.probes
  BY <1>1, <1>2 DEF TaskOK, Planning
<1>4. DOMAIN s \subseteq DOMAIN t.probes
  BY <1>1, <1>3
<1> HIDE DEF s
<1>5. /\ Whole(u) /\ u.at = "prepared" /\ u.payload = t.payload /\ u.base = t.base
      /\ u.planned = t.planned /\ u.probes = t.probes /\ u.publication = t.publication
      /\ u.seen = s
  BY <1>1, <1>2, TaskSees
<1> HIDE DEF u, t
<1>6. Filled(u) /\ Current(u, generation)
  BY <1>1, <1>3, <1>5 DEF Filled, Current, Num, Replaces
<1>7. TaskOK(u, generation)
  BY <1>3, <1>4, <1>5, <1>6 DEF TaskOK, Places, Planning
<1> QED
  BY <1>1, <1>5, <1>7, Quiet DEF Holding

(* A task that goes on is as sound as before.                                *)
LEMMA GoesOn ==
  ASSUME NEW t, NEW g, TaskOK(t, g), t.at \in Planning, NEW place \in Planning,
         place # "published", t.at # "published", NEW u, u = [t EXCEPT !.at = place]
  PROVE  TaskOK(u, g)
<1>1. /\ Whole(u) /\ u.at = place /\ u.payload = t.payload /\ u.base = t.base
      /\ u.planned = t.planned /\ u.probes = t.probes /\ u.publication = t.publication
      /\ u.seen = t.seen
  BY TaskGoes DEF TaskOK
<1>2. Filled(t) /\ t.base \in Nat /\ Current(t, g) /\ DOMAIN t.seen \subseteq DOMAIN t.probes
  BY DEF TaskOK
<1>3. Filled(u) /\ Current(u, g)
  BY <1>1, <1>2 DEF Filled, Current, Num, Replaces
<1> QED
  BY <1>1, <1>2, <1>3 DEF TaskOK, Places, Planning

LEMMA FinalizeStep ==
  ASSUME IInv, NEW c \in Committers, Finalize(c)
  PROVE  IInv'
<1> DEFINE t == task[c]
           u == [t EXCEPT !.at = "final"]
<1>1. t.at = "prepared" /\ Moves(c, u) /\ UNCHANGED <<generation, claims>>
  BY DEF Finalize, At
<1>2. TaskOK(t, generation) /\ Whole(t)
  BY Known
<1>3. TaskOK(u, generation) /\ u.at = "final"
  BY <1>1, <1>2, GoesOn, TaskGoes DEF Planning
<1> QED
  BY <1>1, <1>3, Quiet DEF Holding
-----------------------------------------------------------------------------
(* The steps that change the claims.                                         *)

LEMMA ProbesAreKeys ==
  ASSUME Bounds, NEW t, Filled(t)
  PROVE  DOMAIN t.probes \subseteq Keys
<1>1. NewTitleOf(t) \in Title /\ Content(t.planned, Num(t)) \in Title \X Rationales
  BY ContentKind, DecisionFields DEF Filled, NewTitleOf
<1>2. Replaces(t) => OldTitle(t) \in Title
  BY DecisionFields DEF Filled, OldTitle
<1> QED
  BY <1>1, <1>2, ProbeFacts, KeyKinds

(* What an entered plan's claims will say again if it is abandoned.            *)
LEMMA EnteredKeys ==
  ASSUME Bounds, NEW t, Filled(t), NEW D, Entered(t, D), t.at = "entered"
  PROVE  /\ \A a : TitleKey(a) \in DOMAIN t.probes => Holds(D, a, t.probes[TitleKey(a)])
         /\ \A k \in Title \X Rationales : k \in DOMAIN t.probes => New(D, k) /\ t.probes[k] = 0
<1>1. /\ Holds(D, NewTitleOf(t), t.probes[TitleKey(NewTitleOf(t))])
      /\ Replaces(t) => Holds(D, OldTitle(t), t.payload.target)
      /\ New(D, Content(t.planned, Num(t)))
  BY DEF Entered
<1>2. Content(t.planned, Num(t)) \in Title \X Rationales
  BY ContentKind DEF Filled
<1>3. ASSUME NEW a, TitleKey(a) \in DOMAIN t.probes
      PROVE  Holds(D, a, t.probes[TitleKey(a)])
  <2>1. a = NewTitleOf(t) \/ (Replaces(t) /\ a = OldTitle(t))
    <3>1. TitleKey(a) # Content(t.planned, Num(t))
      BY <1>2, KeyKinds
    <3>2. /\ TitleKey(a) = TitleKey(NewTitleOf(t)) => a = NewTitleOf(t)
          /\ TitleKey(a) = TitleKey(OldTitle(t)) => a = OldTitle(t)
      BY KeyKinds
    <3>3. \/ TitleKey(a) = TitleKey(NewTitleOf(t)) \/ TitleKey(a) = Content(t.planned, Num(t))
          \/ Replaces(t) /\ TitleKey(a) = TitleKey(OldTitle(t))
      <4> DEFINE k == TitleKey(a)
      <4>1. k \in DOMAIN t.probes
        BY <1>3
      <4> HIDE DEF k
      <4>2. \/ k = TitleKey(NewTitleOf(t)) \/ k = Content(t.planned, Num(t))
            \/ Replaces(t) /\ k = TitleKey(OldTitle(t))
        BY <4>1, ProbeFacts
      <4> QED
        BY <4>2 DEF k
    <3> QED
      BY <3>1, <3>2, <3>3
  <2> QED
    BY <1>1, <2>1, ProbeFacts
<1>4. ASSUME NEW k \in Title \X Rationales, k \in DOMAIN t.probes
      PROVE  New(D, k) /\ t.probes[k] = 0
  <2>1. k = Content(t.planned, Num(t))
    BY <1>4, ProbeFacts, KeyKinds
  <2> QED
    BY <1>1, <2>1, ProbeFacts
<1> QED
  BY <1>3, <1>4

(* What a published plan's claims will say when it settles.                    *)
LEMMA PublishedKeys ==
  ASSUME Bounds, NEW t, Filled(t), NEW D, Published(t, D), t.at = "published"
  PROVE  /\ \A a : TitleKey(a) \in DOMAIN t.probes =>
              \/ t.publication[TitleKey(a)] = Committed(Num(t)) /\ Holds(D, a, Num(t))
              \/ t.publication[TitleKey(a)] = NoClaim /\ Holds(D, a, 0)
         /\ \A k \in Title \X Rationales : k \in DOMAIN t.probes => t.publication[k] # NoClaim
<1>1. /\ Holds(D, NewTitleOf(t), Num(t))
      /\ Replaces(t) /\ OldTitle(t) # NewTitleOf(t) => Holds(D, OldTitle(t), 0)
  BY DEF Published
<1>2. Content(t.planned, Num(t)) \in Title \X Rationales
  BY ContentKind DEF Filled
<1>3. ASSUME NEW a, TitleKey(a) \in DOMAIN t.probes
      PROVE  \/ t.publication[TitleKey(a)] = Committed(Num(t)) /\ Holds(D, a, Num(t))
             \/ t.publication[TitleKey(a)] = NoClaim /\ Holds(D, a, 0)
  <2>1. a = NewTitleOf(t) \/ (Replaces(t) /\ a = OldTitle(t))
    <3>1. TitleKey(a) # Content(t.planned, Num(t))
      BY <1>2, KeyKinds
    <3>2. /\ TitleKey(a) = TitleKey(NewTitleOf(t)) => a = NewTitleOf(t)
          /\ TitleKey(a) = TitleKey(OldTitle(t)) => a = OldTitle(t)
      BY KeyKinds
    <3>3. \/ TitleKey(a) = TitleKey(NewTitleOf(t)) \/ TitleKey(a) = Content(t.planned, Num(t))
          \/ Replaces(t) /\ TitleKey(a) = TitleKey(OldTitle(t))
      <4> DEFINE k == TitleKey(a)
      <4>1. k \in DOMAIN t.probes
        BY <1>3
      <4> HIDE DEF k
      <4>2. \/ k = TitleKey(NewTitleOf(t)) \/ k = Content(t.planned, Num(t))
            \/ Replaces(t) /\ k = TitleKey(OldTitle(t))
        BY <4>1, ProbeFacts
      <4> QED
        BY <4>2 DEF k
    <3> QED
      BY <3>1, <3>2, <3>3
  <2>2. CASE a = NewTitleOf(t)
    BY <1>1, <2>2, PublicationFacts
  <2>3. CASE Replaces(t) /\ a = OldTitle(t) /\ a # NewTitleOf(t)
    BY <1>1, <2>3, PublicationFacts
  <2> QED
    BY <2>1, <2>2, <2>3
<1>4. ASSUME NEW k \in Title \X Rationales, k \in DOMAIN t.probes
      PROVE  t.publication[k] # NoClaim
  <2>1. k = Content(t.planned, Num(t))
    BY <1>4, ProbeFacts, KeyKinds
  <2> QED
    BY <2>1, PublicationFacts, ClaimKinds
<1> QED
  BY <1>3, <1>4

(* Only the claims of one plan change: the others' reservations stand.         *)
LEMMA ClaimsOf ==
  ASSUME IInv, NEW c \in Committers, NEW new, Moves(c, new), generation' = generation,
         NEW W, claims' \in [Keys -> Claim], \A k \in Keys \ W : claims'[k] = claims[k],
         Agrees(claims', generation.decisions),
         TaskOK(new, generation), Fits(new, claims', generation.decisions),
         \A d \in Committers \ {c} : task[d].at \in Holding =>
           /\ DOMAIN task[d].probes \subseteq Keys \ W
           /\ new.at \in Holding => DOMAIN task[d].probes \intersect DOMAIN new.probes = {}
  PROVE  IInv'
<1>1. /\ DOMAIN task' = Committers /\ task'[c] = new
      /\ \A d \in Committers \ {c} : task'[d] = task[d]
  BY TaskMoves DEF IInv
<1>2. \A d \in Committers : TaskOK(task'[d], generation)
  BY <1>1 DEF IInv
<1>3. \A d \in Committers : Fits(task'[d], claims', generation.decisions)
  <2> SUFFICES ASSUME NEW d \in Committers, d # c
               PROVE  Fits(task[d], claims', generation.decisions)
    BY <1>1
  <2>1. Fits(task[d], claims, generation.decisions)
    BY DEF IInv
  <2>2. Reserves(task[d], claims')
    BY <2>1 DEF Fits, Reserves
  <2> QED
    BY <2>1, <2>2 DEF Fits
<1>4. \A d, e \in Committers : d # e => Apart(task'[d], task'[e])
  <2> SUFFICES ASSUME NEW d \in Committers, NEW e \in Committers, d # e
               PROVE  Apart(task'[d], task'[e])
    OBVIOUS
  <2>1. CASE d = c
    BY <1>1, <2>1 DEF Apart
  <2>2. CASE e = c
    BY <1>1, <2>2 DEF Apart
  <2>3. CASE d # c /\ e # c
    BY <1>1, <2>3 DEF IInv
  <2> QED
    BY <2>1, <2>2, <2>3
<1> QED
  BY <1>1, <1>2, <1>3, <1>4 DEF IInv

LEMMA EnterStep ==
  ASSUME Bounds, IInv, NEW c \in Committers, Enter(c)
  PROVE  IInv'
<1> DEFINE t == task[c]
           W == DOMAIN t.probes
           D == generation.decisions
           u == [t EXCEPT !.at = "entered"]
<1>1. /\ t.at = "final" /\ Moves(c, u) /\ generation' = generation
      /\ \A k \in W : Answers(t.probes[k], claims[k])
      /\ claims' = [k \in Keys |-> IF k \in W THEN Reserved(t.probes[k]) ELSE claims[k]]
  BY DEF Enter, At
<1>2. TaskOK(t, generation) /\ Whole(t) /\ Filled(t)
  BY <1>1, Known DEF Planning
<1>3. /\ W \subseteq Keys /\ \A k \in W : t.probes[k] \in 0 .. MaxCommits
      /\ claims \in [Keys -> Claim] /\ Agrees(claims, D)
  BY <1>2, ProbesAreKeys, ProbeFacts DEF IInv
<1>4. /\ \A k \in W : claims'[k] = Reserved(t.probes[k])
      /\ \A k \in Keys \ W : claims'[k] = claims[k]
      /\ claims' \in [Keys -> Claim]
  BY <1>1, <1>3, ClaimTypes
<1>5. Agrees(claims', D)
  <2>1. \A k \in Keys : claims'[k] = NoClaim => claims[k] = NoClaim
    BY <1>4, ClaimKinds
  <2>2. \A k \in Keys : \A n : claims'[k] = Committed(n) => claims[k] = Committed(n)
    BY <1>4, ClaimKinds
  <2> QED
    BY <1>3, <2>1, <2>2, KeyKinds DEF Agrees
<1>6. /\ TaskOK(u, generation) /\ u.at = "entered" /\ u.payload = t.payload
      /\ u.planned = t.planned /\ u.probes = t.probes
  BY <1>1, <1>2, GoesOn, TaskGoes DEF Planning
<1> HIDE DEF u
<1>7. ASSUME NEW a \in Title, NEW k, k = TitleKey(a), k \in W
      PROVE  Holds(D, a, t.probes[k])
  <2>1. CASE t.probes[k] = 0
    BY <1>1, <1>3, <1>7, <2>1 DEF Answers, Agrees
  <2>2. CASE t.probes[k] # 0
    <3>1. t.probes[k] \in Number /\ claims[k] = Committed(t.probes[k])
      BY <1>1, <1>3, <1>7, <2>2 DEF Answers, Number, Bounds
    <3> QED
      BY <1>3, <1>7, <3>1 DEF Agrees
  <2> QED
    BY <2>1, <2>2
<1>8. Fits(u, claims', D)
  <2>1. Reserves(u, claims')
    BY <1>4, <1>6 DEF Reserves
  <2>2. Holds(D, NewTitleOf(t), t.probes[TitleKey(NewTitleOf(t))])
    <3>1. NewTitleOf(t) \in Title /\ TitleKey(NewTitleOf(t)) \in W
      BY <1>2, DecisionFields, ProbeFacts DEF Filled, NewTitleOf
    <3> QED
      BY <1>7, <3>1
  <2>3. Replaces(t) => Holds(D, OldTitle(t), t.payload.target)
    <3>1. Replaces(t) => OldTitle(t) \in Title
      BY <1>2, DecisionFields DEF Filled, OldTitle
    <3>2. Replaces(t) => TitleKey(OldTitle(t)) \in W /\ t.probes[TitleKey(OldTitle(t))] = t.payload.target
      BY <1>2, ProbeFacts
    <3> QED
      BY <1>7, <3>1, <3>2
  <2>4. New(D, Content(t.planned, Num(t)))
    <3>1. /\ Content(t.planned, Num(t)) \in Title \X Rationales
          /\ Content(t.planned, Num(t)) \in W /\ t.probes[Content(t.planned, Num(t))] = 0
      BY <1>2, ContentKind, ProbeFacts DEF Filled
    <3>2. claims[Content(t.planned, Num(t))] = NoClaim
      BY <1>1, <3>1 DEF Answers
    <3> QED
      BY <1>3, <3>1, <3>2 DEF Agrees
  <2>5. Entered(u, D)
    <3>1. Num(u) = Num(t)
      BY <1>6 DEF Num
    <3>2. NewTitleOf(u) = NewTitleOf(t) /\ OldTitle(u) = OldTitle(t) /\ Replaces(u) = Replaces(t)
      BY <1>6, <3>1 DEF NewTitleOf, OldTitle, Replaces
    <3>3. Content(u.planned, Num(u)) = Content(t.planned, Num(t))
      BY <1>6, <3>1
    <3>4. /\ Holds(D, NewTitleOf(u), u.probes[TitleKey(NewTitleOf(u))])
          /\ Replaces(u) => Holds(D, OldTitle(u), u.payload.target)
          /\ New(D, Content(u.planned, Num(u)))
      BY <1>6, <2>2, <2>3, <2>4, <3>2, <3>3
    <3> QED
      BY <3>4 DEF Entered
  <2>6. Published(u, D)
    BY <1>6 DEF Published
  <2> QED
    BY <2>1, <2>5, <2>6 DEF Fits
<1>9. ASSUME NEW d \in Committers \ {c}, task[d].at \in Holding
      PROVE  DOMAIN task[d].probes \subseteq Keys \ W
  <2>1. Filled(task[d]) /\ Reserves(task[d], claims)
    BY <1>9, Known DEF Planning, Holding, Fits
  <2>2. \A k \in DOMAIN task[d].probes : claims[k] = Reserved(task[d].probes[k])
    BY <1>9, <2>1 DEF Reserves
  <2>3. \A k \in W : \A n : claims[k] # Reserved(n)
    BY <1>1, ClaimKinds DEF Answers
  <2> QED
    BY <2>1, <2>2, <2>3, ProbesAreKeys
<1>10. \A d \in Committers \ {c} : task[d].at \in Holding =>
         /\ DOMAIN task[d].probes \subseteq Keys \ W
         /\ u.at \in Holding => DOMAIN task[d].probes \intersect DOMAIN u.probes = {}
  BY <1>6, <1>9
<1> QED
  BY <1>1, <1>4, <1>5, <1>6, <1>8, <1>10, ClaimsOf
(* A plan that is abandoned puts back the claims it found, which are true yet.  *)
LEMMA AbandonStep ==
  ASSUME Bounds, IInv, NEW c \in Committers, Abandon(c)
  PROVE  IInv'
<1> DEFINE t == task[c]
           W == IF t.at = "entered" THEN DOMAIN t.probes ELSE {}
           D == generation.decisions
<1>1. /\ t.at \in {"entered", "final"} /\ Moves(c, NoTask) /\ generation' = generation
      /\ claims' = [k \in Keys |-> IF k \notin W THEN claims[k]
                                   ELSE IF t.probes[k] = 0 THEN NoClaim ELSE Committed(t.probes[k])]
  BY DEF Abandon, At
<1>2. /\ TaskOK(t, generation) /\ Filled(t) /\ Fits(t, claims, D)
      /\ claims \in [Keys -> Claim] /\ Agrees(claims, D)
  BY <1>1, Known DEF Planning, IInv
<1>3. W \subseteq DOMAIN t.probes /\ W \subseteq Keys /\ \A k \in W : t.probes[k] \in 0 .. MaxCommits
  BY <1>2, ProbesAreKeys, ProbeFacts
<1>4. /\ \A k \in W : claims'[k] = IF t.probes[k] = 0 THEN NoClaim ELSE Committed(t.probes[k])
      /\ \A k \in Keys \ W : claims'[k] = claims[k]
      /\ claims' \in [Keys -> Claim]
  BY <1>1, <1>2, <1>3, ClaimTypes
<1>5. /\ \A a : TitleKey(a) \in W => Holds(D, a, t.probes[TitleKey(a)])
      /\ \A k \in Title \X Rationales : k \in W => New(D, k) /\ t.probes[k] = 0
  <2>1. W # {} => t.at = "entered" /\ Entered(t, D)
    BY <1>2 DEF Fits
  <2> QED
    BY <1>2, <1>3, <2>1, EnteredKeys
<1> HIDE DEF W
<1>6. Agrees(claims', D)
  <2>1. ASSUME NEW a \in Title, claims'[TitleKey(a)] = NoClaim
        PROVE  Holds(D, a, 0)
    <3>1. CASE TitleKey(a) \in W
      BY <1>4, <1>5, <2>1, <3>1, ClaimKinds
    <3>2. CASE TitleKey(a) \notin W
      BY <1>2, <1>4, <2>1, <3>2, KeyKinds DEF Agrees
    <3> QED
      BY <3>1, <3>2
  <2>2. ASSUME NEW a \in Title, NEW n \in Number, claims'[TitleKey(a)] = Committed(n)
        PROVE  Holds(D, a, n)
    <3>1. CASE TitleKey(a) \in W
      BY <1>4, <1>5, <2>2, <3>1, ClaimKinds
    <3>2. CASE TitleKey(a) \notin W
      BY <1>2, <1>4, <2>2, <3>2, KeyKinds DEF Agrees
    <3> QED
      BY <3>1, <3>2
  <2>3. ASSUME NEW k \in Title \X Rationales, claims'[k] = NoClaim
        PROVE  New(D, k)
    BY <1>2, <1>4, <1>5, <2>3, KeyKinds DEF Agrees
  <2> QED
    BY <2>1, <2>2, <2>3 DEF Agrees
<1>7. TaskOK(NoTask, generation) /\ Fits(NoTask, claims', D) /\ NoTask.at \notin Holding
  BY NoTaskIsOK, NotHolding DEF Holding
<1>8. ASSUME NEW d \in Committers \ {c}, task[d].at \in Holding
      PROVE  DOMAIN task[d].probes \subseteq Keys \ W
  <2>1. Filled(task[d])
    BY <1>8, Known DEF Planning, Holding
  <2>2. Apart(t, task[d])
    BY DEF IInv
  <2>3. DOMAIN task[d].probes \intersect W = {}
    BY <1>8, <2>2 DEF W, Apart, Holding
  <2> QED
    BY <2>1, <2>3, ProbesAreKeys
<1> QED
  BY <1>1, <1>4, <1>6, <1>7, <1>8, ClaimsOf

(* A plan that settles says what its publication made true.                   *)
LEMMA SettleStep ==
  ASSUME Bounds, IInv, NEW c \in Committers, Settle(c)
  PROVE  IInv'
<1> DEFINE t == task[c]
           W == DOMAIN t.probes
           D == generation.decisions
<1>1. /\ t.at = "published" /\ Moves(c, NoTask) /\ generation' = generation
      /\ claims' = [k \in Keys |-> IF k \in DOMAIN t.publication THEN t.publication[k]
                                   ELSE claims[k]]
  BY DEF Settle, At
<1>2. /\ TaskOK(t, generation) /\ Filled(t) /\ Fits(t, claims, D)
      /\ claims \in [Keys -> Claim] /\ Agrees(claims, D)
  BY <1>1, Known DEF Planning, IInv
<1>3. /\ W \subseteq Keys /\ DOMAIN t.publication = W
      /\ \A k \in W : t.publication[k] \in Claim
  BY <1>2, ProbesAreKeys, PublicationFacts
<1>4. /\ \A k \in W : claims'[k] = t.publication[k]
      /\ \A k \in Keys \ W : claims'[k] = claims[k]
      /\ claims' \in [Keys -> Claim]
  BY <1>1, <1>2, <1>3
<1>5. /\ \A a : TitleKey(a) \in W =>
           \/ t.publication[TitleKey(a)] = Committed(Num(t)) /\ Holds(D, a, Num(t))
           \/ t.publication[TitleKey(a)] = NoClaim /\ Holds(D, a, 0)
      /\ \A k \in Title \X Rationales : k \in W => t.publication[k] # NoClaim
  BY <1>1, <1>2, PublishedKeys DEF Fits
<1> HIDE DEF W
<1>6. Agrees(claims', D)
  <2>1. ASSUME NEW a \in Title, claims'[TitleKey(a)] = NoClaim
        PROVE  Holds(D, a, 0)
    <3>1. CASE TitleKey(a) \in W
      BY <1>4, <1>5, <2>1, <3>1, ClaimKinds
    <3>2. CASE TitleKey(a) \notin W
      BY <1>2, <1>4, <2>1, <3>2, KeyKinds DEF Agrees
    <3> QED
      BY <3>1, <3>2
  <2>2. ASSUME NEW a \in Title, NEW n \in Number, claims'[TitleKey(a)] = Committed(n)
        PROVE  Holds(D, a, n)
    <3>1. CASE TitleKey(a) \in W
      BY <1>4, <1>5, <2>2, <3>1, ClaimKinds
    <3>2. CASE TitleKey(a) \notin W
      BY <1>2, <1>4, <2>2, <3>2, KeyKinds DEF Agrees
    <3> QED
      BY <3>1, <3>2
  <2>3. ASSUME NEW k \in Title \X Rationales, claims'[k] = NoClaim
        PROVE  New(D, k)
    BY <1>2, <1>4, <1>5, <2>3, KeyKinds DEF Agrees
  <2> QED
    BY <2>1, <2>2, <2>3 DEF Agrees
<1>7. TaskOK(NoTask, generation) /\ Fits(NoTask, claims', D) /\ NoTask.at \notin Holding
  BY NoTaskIsOK, NotHolding DEF Holding
<1>8. ASSUME NEW d \in Committers \ {c}, task[d].at \in Holding
      PROVE  DOMAIN task[d].probes \subseteq Keys \ W
  <2>1. Filled(task[d])
    BY <1>8, Known DEF Planning, Holding
  <2>2. Apart(t, task[d])
    BY DEF IInv
  <2>3. DOMAIN task[d].probes \intersect W = {}
    BY <1>1, <1>8, <2>2 DEF W, Apart, Holding
  <2> QED
    BY <2>1, <2>3, ProbesAreKeys
<1> QED
  BY <1>1, <1>4, <1>6, <1>7, <1>8, ClaimsOf

-----------------------------------------------------------------------------
(* Publishing.                                                              *)

(* What an entered plan of the committed generation knows.                    *)
LEMMA PlanApplies ==
  ASSUME Bounds, NEW t, NEW g, GenerationOK(g), TaskOK(t, g), t.at = "entered", t.base = g.id,
         Entered(t, g.decisions)
  PROVE  /\ t.payload \in Payment /\ g.counter \in 0 .. MaxCommits /\ t.payload.counter = g.counter
         /\ g.id < MaxCommits
         /\ g.decisions \in [1 .. g.counter -> Decision]
         /\ Applies(t.payload, g.decisions, g.counter, t.planned, Num(t))
         /\ Free(t.payload, g.decisions, t.planned, Num(t))
         /\ New(g.decisions, Content(t.planned, Num(t)))
         /\ t.payload.op # "add" =>
              /\ Holds(g.decisions, OldTitle(t), t.payload.target) /\ t.payload.target # 0
              /\ Stands(g.decisions, t.payload.target)
<1> DEFINE p == t.payload
           D == g.decisions
           m == g.counter
<1>1. /\ Filled(t) /\ Current(t, g) /\ p \in Payment
  BY DEF TaskOK, Planning, Filled
<1>2. /\ g.id < MaxCommits /\ p.counter = m /\ t.planned = Planned(p, D, m)
      /\ p.op # "add" => p.target \in DOMAIN D
  BY <1>1 DEF Current, Replaces
<1>3. m \in 0 .. MaxCommits /\ m < MaxCommits /\ D \in [1 .. m -> Decision]
  <2>1. g.id \in 0 .. MaxCommits /\ m \in 0 .. g.id /\ D \in [1 .. m -> Decision]
    BY DEF GenerationOK
  <2> QED
    BY <1>2, <2>1 DEF Bounds
<1>4. Num(t) = Primary(p, m) /\ Len(t.planned[Num(t)].text) <= MaxText
  <2>1. t.planned[Num(t)].text \in Rationales
    BY <1>1, DecisionFields DEF Filled
  <2> QED
    BY <1>2, <2>1, RationaleIsSeq DEF Num, Bounds
<1>5. Makes(p, D, m, t.planned, Num(t))
  BY <1>1, <1>2, <1>3, <1>4, PlannedMakes
<1>6. /\ Holds(D, NewTitleOf(t), t.probes[TitleKey(NewTitleOf(t))])
      /\ Replaces(t) => Holds(D, OldTitle(t), p.target)
      /\ New(D, Content(t.planned, Num(t)))
  BY DEF Entered
<1>7. p.op # "add" => p.target # 0 /\ Holds(D, OldTitle(t), p.target) /\ Stands(D, p.target)
  <2>1. p.op # "add" => p.target # 0
    BY <1>1 DEF Filled, Replaces, Number
  <2> QED
    BY <1>6, <2>1 DEF Replaces, Holds
<1>8. Applies(p, D, m, t.planned, Num(t))
  <2>1. p.op = "update" => Num(t) = p.target
    BY <1>5 DEF Makes
  <2> QED
    BY <1>5, <1>7, <2>1 DEF Applies
<1>9. Free(p, D, t.planned, Num(t))
  <2>1. CASE ~Replaces(t) \/ OldTitle(t) # NewTitleOf(t)
    <3>1. t.probes[TitleKey(NewTitleOf(t))] = 0
      BY <1>1, <2>1, ProbeFacts
    <3> QED
      BY <1>6, <3>1 DEF Free, NewTitleOf
  <2>2. CASE Replaces(t) /\ OldTitle(t) = NewTitleOf(t)
    BY <1>7, <2>2 DEF Free, NewTitleOf, OldTitle, Replaces
  <2> QED
    BY <2>1, <2>2
<1> QED
  BY <1>1, <1>2, <1>3, <1>6, <1>7, <1>8, <1>9

(* The generation that is published is as sound as its base.                  *)
LEMMA NextGeneration ==
  ASSUME Bounds, NEW t, NEW g, GenerationOK(g), TaskOK(t, g), t.at = "entered", t.base = g.id,
         Entered(t, g.decisions),
         NEW h, h = [id |-> g.id + 1, decisions |-> t.planned,
                     counter |-> NewCounter(t.payload, t.payload.counter)]
  PROVE  GenerationOK(h) /\ h.decisions = t.planned /\ h.id = g.id + 1
<1> DEFINE p == t.payload
           D == g.decisions
           m == g.counter
           E == t.planned
           n == Num(t)
<1>1. /\ p \in Payment /\ m \in 0 .. MaxCommits /\ p.counter = m /\ g.id < MaxCommits
      /\ D \in [1 .. m -> Decision] /\ Applies(p, D, m, E, n) /\ Free(p, D, E, n)
      /\ New(D, Content(E, n)) /\ (p.op # "add" => Stands(D, p.target))
  BY PlanApplies
<1>2. /\ g.id \in 0 .. MaxCommits /\ m \in 0 .. g.id
      /\ OneStands(D) /\ NoTwice(D) /\ Links(D) /\ Inside(D, m)
  BY DEF GenerationOK
<1> HIDE DEF p, D, m, E, n
<1>3. E \in [1 .. NewCounter(p, m) -> Decision] /\ NewCounter(p, m) \in {m, m + 1}
  BY <1>1 DEF Applies, Makes, NewCounter, NewNumber
<1>4. g.id + 1 \in 0 .. MaxCommits /\ NewCounter(p, m) \in 0 .. (g.id + 1)
  BY <1>1, <1>2, <1>3 DEF Bounds
<1>5. OneStands(E)
  BY <1>1, <1>2, OneStandsStill
<1>6. NoTwice(E)
  BY <1>1, <1>2, NoTwiceStill
<1>7. Links(E) /\ Inside(E, NewCounter(p, m))
  <2>1. p.op = "supersede" => Stands(D, p.target)
    BY <1>1
  <2> QED
    BY <1>1, <1>2, <2>1, LinksStill
<1>8. h.id = g.id + 1 /\ h.decisions = E /\ h.counter = NewCounter(p, m)
      /\ h = [id |-> h.id, counter |-> h.counter, decisions |-> h.decisions]
  BY <1>1 DEF p, E
<1> QED
  BY <1>3, <1>4, <1>5, <1>6, <1>7, <1>8 DEF GenerationOK, E
(* A plan entered elsewhere touches no title and no content of this one.       *)
LEMMA AwayFrom ==
  ASSUME Bounds, NEW t, Filled(t), NEW o, Filled(o),
         DOMAIN t.probes \intersect DOMAIN o.probes = {}
  PROVE  /\ NewTitleOf(o) # NewTitleOf(t)
         /\ Replaces(o) => OldTitle(o) # NewTitleOf(t)
         /\ Replaces(t) => NewTitleOf(o) # OldTitle(t)
         /\ Replaces(o) /\ Replaces(t) => OldTitle(o) # OldTitle(t)
         /\ Content(o.planned, Num(o)) # Content(t.planned, Num(t))
<1>1. /\ TitleKey(NewTitleOf(t)) \in DOMAIN t.probes
      /\ Content(t.planned, Num(t)) \in DOMAIN t.probes
      /\ Replaces(t) => TitleKey(OldTitle(t)) \in DOMAIN t.probes
  BY ProbeFacts
<1>2. /\ TitleKey(NewTitleOf(o)) \in DOMAIN o.probes
      /\ Content(o.planned, Num(o)) \in DOMAIN o.probes
      /\ Replaces(o) => TitleKey(OldTitle(o)) \in DOMAIN o.probes
  BY ProbeFacts
<1> QED
  BY <1>1, <1>2

LEMMA PublishStep ==
  ASSUME Bounds, IInv, NEW c \in Committers, PublishCommit(c)
  PROVE  IInv'
<1> DEFINE t == task[c]
           g == generation
           h == [id |-> g.id + 1, decisions |-> t.planned,
                 counter |-> NewCounter(t.payload, t.payload.counter)]
           u == [t EXCEPT !.at = "published"]
           p == t.payload
           D == g.decisions
           E == t.planned
           m == g.counter
           n == Num(t)
<1>1. /\ t.at = "entered" /\ t.base = g.id /\ Moves(c, u) /\ generation' = h /\ claims' = claims
  <2>1. /\ t.at = "entered" /\ g.id = t.base /\ Moves(c, u) /\ claims' = claims
        /\ generation' = [id |-> g.id + 1, decisions |-> t.planned,
                          counter |-> NewCounter(t.payload, t.payload.counter)]
    BY DEF PublishCommit, At
  <2> QED
    BY <2>1
<1>2. /\ TaskOK(t, g) /\ Fits(t, claims, D) /\ Filled(t) /\ GenerationOK(g) /\ Whole(t)
      /\ Entered(t, D) /\ Reserves(t, claims) /\ t.base \in Nat /\ Agrees(claims, D)
      /\ DOMAIN t.seen \subseteq DOMAIN t.probes /\ claims \in [Keys -> Claim]
  <2>1. TaskOK(t, g) /\ Fits(t, claims, D) /\ GenerationOK(g) /\ Whole(t)
    BY Known
  <2>2. Filled(t) /\ t.base \in Nat /\ DOMAIN t.seen \subseteq DOMAIN t.probes
    BY <1>1, <2>1 DEF TaskOK, Planning
  <2>3. Entered(t, D) /\ Reserves(t, claims)
    BY <2>1 DEF Fits
  <2> QED
    BY <2>1, <2>2, <2>3 DEF IInv
<1>3. GenerationOK(h) /\ h.decisions = E /\ h.id = g.id + 1
  <2>1. h = [id |-> g.id + 1, decisions |-> t.planned,
             counter |-> NewCounter(t.payload, t.payload.counter)]
    OBVIOUS
  <2> HIDE DEF h, t, g
  <2> QED
    BY <1>1, <1>2, <2>1, NextGeneration DEF D
<1>4. /\ p \in Payment /\ m \in 0 .. MaxCommits /\ D \in [1 .. m -> Decision]
      /\ Applies(p, D, m, E, n) /\ g.id < MaxCommits
      /\ p.op # "add" => Holds(D, OldTitle(t), p.target) /\ p.target # 0
  BY <1>1, <1>2, PlanApplies
<1>5. OneStands(D) /\ g.id \in Nat
  BY <1>2 DEF GenerationOK, Bounds
<1>6. /\ Whole(u) /\ u.at = "published" /\ u.payload = t.payload /\ u.base = t.base
      /\ u.planned = t.planned /\ u.probes = t.probes /\ u.publication = t.publication
      /\ u.seen = t.seen
  BY <1>2, TaskGoes
<1>7. NewTitleOf(t) = E[n].title /\ OldTitle(t) = E[p.target].title
      /\ (Replaces(t) <=> p.op # "add")
  BY DEF NewTitleOf, OldTitle, Replaces
<1> HIDE DEF h, u, p, D, E, m, n
<1>8. /\ DOMAIN task' = Committers /\ task'[c] = u
      /\ \A d \in Committers \ {c} : task'[d] = task[d]
  BY <1>1, TaskMoves DEF IInv
<1>9. /\ \A a, o : a # NewTitleOf(t) /\ (Replaces(t) => a # OldTitle(t)) /\ Holds(D, a, o) =>
           Holds(E, a, o)
      /\ \A k : k # Content(E, n) /\ New(D, k) => New(E, k)
  <2>1. ASSUME NEW a, NEW o, a # NewTitleOf(t), Replaces(t) => a # OldTitle(t), Holds(D, a, o)
        PROVE  Holds(E, a, o)
    <3>1. a # E[n].title /\ (p.op # "add" => a # E[p.target].title)
      BY <1>7, <2>1
    <3> QED
      BY <1>4, <2>1, <3>1, HoldsStay
  <2>2. ASSUME NEW k, k # Content(E, n), New(D, k)
        PROVE  New(E, k)
    BY <1>4, <2>2, NewStays
  <2> QED
    BY <2>1, <2>2
<1>10. /\ \A k \in DOMAIN t.probes : claims[k] = Reserved(t.probes[k])
       /\ TitleKey(NewTitleOf(t)) \in DOMAIN t.probes /\ Content(E, n) \in DOMAIN t.probes
       /\ Replaces(t) => TitleKey(OldTitle(t)) \in DOMAIN t.probes
  BY <1>1, <1>2, ProbeFacts DEF Reserves, Holding, E, n
<1>11. Agrees(claims, E)
  <2>1. ASSUME NEW a \in Title, NEW o, claims[TitleKey(a)] = NoClaim \/ claims[TitleKey(a)] = Committed(o)
        PROVE  a # NewTitleOf(t) /\ (Replaces(t) => a # OldTitle(t))
    BY <1>10, <2>1, ClaimKinds
  <2>2. \A k : claims[k] = NoClaim => k # Content(E, n)
    BY <1>10, ClaimKinds
  <2> QED
    BY <1>2, <1>9, <2>1, <2>2 DEF Agrees
<1>12. TaskOK(u, h)
  <2>1. Filled(u) /\ Current(u, h)
    <3>1. Filled(u)
      BY <1>2, <1>6 DEF Filled, Num, Replaces
    <3>2. Current(u, h)
      BY <1>1, <1>3, <1>5, <1>6 DEF Current
    <3> QED
      BY <3>1, <3>2
  <2> QED
    BY <1>2, <1>6, <2>1 DEF TaskOK, Places, Planning
<1>13. Fits(u, claims, E)
  <2>1. Reserves(u, claims)
    BY <1>6, <1>10 DEF Reserves
  <2>2. Entered(u, E)
    BY <1>6 DEF Entered
  <2>3. /\ Holds(E, E[n].title, n)
        /\ p.op # "add" /\ E[p.target].title # E[n].title => Holds(E, E[p.target].title, 0)
    <3>1. p.op # "add" => Holds(D, E[p.target].title, p.target) /\ p.target # 0
      BY <1>4, <1>7
    <3> QED
      BY <1>4, <1>5, <3>1, OwnTitles
  <2>4. NewTitleOf(u) = NewTitleOf(t) /\ OldTitle(u) = OldTitle(t) /\ Num(u) = n
        /\ (Replaces(u) <=> Replaces(t))
    BY <1>6 DEF NewTitleOf, OldTitle, Num, Replaces, n
  <2>5. Published(u, E)
    BY <1>7, <2>3, <2>4 DEF Published
  <2> QED
    BY <2>1, <2>2, <2>5 DEF Fits
<1>14. ASSUME NEW d \in Committers \ {c}
       PROVE  TaskOK(task[d], h) /\ Fits(task[d], claims, E) /\ Apart(u, task[d])
  <2> DEFINE o == task[d]
  <2>1. TaskOK(o, g) /\ Fits(o, claims, D) /\ Apart(t, o)
    BY Known DEF IInv, D
  <2>2. TaskOK(o, h)
    <3>1. Current(o, g) /\ o.base \in Nat => Current(o, h)
      BY <1>3, <1>5 DEF Current
    <3> QED
      BY <2>1, <3>1 DEF TaskOK
  <2>3. Apart(u, o)
    BY <1>1, <1>6, <2>1 DEF Apart, Holding
  <2> HIDE DEF o
  <2>4. Fits(o, claims, E)
    <3>1. CASE o.at \notin Holding
      BY <3>1, NotHolding
    <3>2. CASE o.at \in Holding
      <4>1. Filled(o) /\ DOMAIN t.probes \intersect DOMAIN o.probes = {}
        BY <1>1, <2>1, <3>2 DEF TaskOK, Planning, Holding, Apart
      <4>2. /\ NewTitleOf(o) # NewTitleOf(t) /\ (Replaces(t) => NewTitleOf(o) # OldTitle(t))
            /\ Replaces(o) => OldTitle(o) # NewTitleOf(t) /\ (Replaces(t) => OldTitle(o) # OldTitle(t))
            /\ Content(o.planned, Num(o)) # Content(E, n)
        BY <1>2, <4>1, AwayFrom DEF E, n
      <4>3. Entered(o, D) => Entered(o, E)
        BY <1>9, <4>2 DEF Entered
      <4>4. Published(o, D) => Published(o, E)
        BY <1>9, <4>2 DEF Published
      <4> QED
        BY <2>1, <4>3, <4>4 DEF Fits
    <3> QED
      BY <3>1, <3>2
  <2> QED
    BY <2>2, <2>3, <2>4 DEF o
<1>15. \A d \in Committers : TaskOK(task'[d], h) /\ Fits(task'[d], claims, E)
  BY <1>8, <1>12, <1>13, <1>14
<1>16. \A d, e \in Committers : d # e => Apart(task'[d], task'[e])
  <2> SUFFICES ASSUME NEW d \in Committers, NEW e \in Committers, d # e
               PROVE  Apart(task'[d], task'[e])
    OBVIOUS
  <2>1. CASE d = c
    BY <1>8, <1>14, <2>1
  <2>2. CASE e = c
    BY <1>8, <1>14, <2>2 DEF Apart
  <2>3. CASE d # c /\ e # c
    BY <1>8, <2>3 DEF IInv
  <2> QED
    BY <2>1, <2>2, <2>3
<1> QED
  BY <1>1, <1>2, <1>3, <1>8, <1>11, <1>15, <1>16 DEF IInv
-----------------------------------------------------------------------------
(* The results.                                                             *)

LEMMA Initial == Bounds /\ CInit => IInv
<1> SUFFICES ASSUME Bounds, CInit
             PROVE  IInv
  OBVIOUS
<1>1. generation.id = 0 /\ generation.counter = 0 /\ generation.decisions = <<>>
      /\ generation = [id |-> generation.id, counter |-> generation.counter,
                       decisions |-> generation.decisions]
  BY DEF CInit, NoGeneration
<1>2. <<>> \in [1 .. 0 -> Decision] /\ DOMAIN <<>> = {}
  OBVIOUS
<1>3. GenerationOK(generation)
  BY <1>1, <1>2 DEF GenerationOK, OneStands, NoTwice, Links, Inside, Bounds
<1>4. claims \in [Keys -> Claim]
  <2>1. NoClaim \in Claim
    BY DEF NoClaim, Claim, Bounds
  <2> QED
    BY <2>1 DEF CInit
<1>5. Agrees(claims, generation.decisions)
  <2>1. \A k \in Keys : claims[k] = NoClaim
    BY DEF CInit
  <2>2. \A a : Holds(<<>>, a, 0)
    BY <1>2 DEF Holds
  <2>3. \A k : New(<<>>, k)
    BY <1>2 DEF New
  <2>4. \A n : Committed(n) # NoClaim
    BY ClaimKinds
  <2> QED
    BY <1>1, <2>1, <2>2, <2>3, <2>4, KeyKinds DEF Agrees
<1>6. \A c \in Committers : task[c] = NoTask
  BY DEF CInit
<1>7. /\ DOMAIN task = Committers
      /\ \A c \in Committers : TaskOK(task[c], generation)
      /\ \A c \in Committers : Fits(task[c], claims, generation.decisions)
      /\ \A c, d \in Committers : Apart(task[c], task[d])
  <2>1. NoTask.at \notin Holding
    BY NoTaskIsOK DEF Holding
  <2> QED
    BY <1>6, <2>1, NoTaskIsOK, NotHolding DEF CInit
<1> QED
  BY <1>3, <1>4, <1>5, <1>7 DEF IInv

LEMMA Step == Bounds /\ IInv /\ [CNext]_cvars => IInv'
<1> SUFFICES ASSUME Bounds, IInv, [CNext]_cvars
             PROVE  IInv'
  OBVIOUS
<1>1. CASE UNCHANGED cvars
  BY <1>1 DEF IInv, cvars
<1> QED
  BY <1>1, ApproveStep, PrepareStep, RefusedStep, ObserveStep, FinalizeStep, EnterStep,
     PublishStep, SettleStep, AbandonStep DEF CNext

(* The invariant of every behaviour: what a plan has reserved was true when it *)
(* was entered and stays true, whatever the others publish.                   *)
THEOREM Invariance ==
  ASSUME Bounds
  PROVE  CSpec => []IInv
<1>1. CInit => IInv
  BY Initial
<1>2. IInv /\ [CNext]_cvars => IInv'
  BY Step
<1> QED
  BY <1>1, <1>2, PTL DEF CSpec

(* Every variable has its type.                                              *)
THEOREM CommitTypes ==
  ASSUME Bounds
  PROVE  CSpec => []CTypeOK
<1>1. IInv => CTypeOK
  <2> SUFFICES ASSUME IInv
               PROVE  CTypeOK
    OBVIOUS
  <2>1. GenerationOK(generation) /\ claims \in [Keys -> Claim]
    BY DEF IInv
  <2>2. /\ generation.id \in 0 .. MaxCommits /\ generation.counter \in 0 .. MaxCommits
        /\ DOMAIN generation.decisions = 1 .. generation.counter
        /\ \A n \in DOMAIN generation.decisions : generation.decisions[n] \in Decision
    BY <2>1 DEF GenerationOK, Bounds
  <2>3. ASSUME NEW c \in Committers
        PROVE  /\ task[c].at \in Places
               /\ DOMAIN task[c].seen \subseteq DOMAIN task[c].probes
               /\ DOMAIN task[c].probes \subseteq Keys
               /\ DOMAIN task[c].publication = DOMAIN task[c].probes
    <3>1. TaskOK(task[c], generation)
      BY DEF IInv
    <3>2. CASE task[c].at \in Planning
      BY <3>1, <3>2, ProbesAreKeys, PublicationFacts DEF TaskOK
    <3>3. CASE task[c].at \notin Planning
      <4>1. task[c].seen = NoFile /\ task[c].probes = NoFile /\ task[c].publication = NoFile
        <5>1. CASE task[c].at = "idle"
          BY <3>1, <5>1 DEF TaskOK, NoTask
        <5>2. CASE task[c].at = "approved"
          <6> DEFINE p == task[c].payload
          <6>1. task[c] = [NoTask EXCEPT !.at = "approved", !.payload = p]
            BY <3>1, <5>2 DEF TaskOK
          <6> HIDE DEF p
          <6>2. /\ [NoTask EXCEPT !.at = "approved", !.payload = p].seen = NoFile
                /\ [NoTask EXCEPT !.at = "approved", !.payload = p].probes = NoFile
                /\ [NoTask EXCEPT !.at = "approved", !.payload = p].publication = NoFile
            BY DEF NoTask
          <6> QED
            BY <6>1, <6>2
        <5> QED
          BY <3>1, <3>3, <5>1, <5>2 DEF TaskOK, Places, Planning
      <4>2. DOMAIN NoFile = {}
        BY DEF NoFile
      <4> QED
        BY <3>1, <4>1, <4>2 DEF TaskOK
    <3> QED
      BY <3>2, <3>3
  <2> QED
    BY <2>1, <2>2, <2>3 DEF CTypeOK, Places
<1> QED
  BY <1>1, Invariance, PTL

LEMMA InvariantSays ==
  ASSUME Bounds, IInv
  PROVE  ClaimsMatch /\ OneStandingPerTitle /\ NoContentTwice /\ LinksAnswer
<1> DEFINE D == generation.decisions
<1>1. /\ OneStands(D) /\ NoTwice(D) /\ Links(D) /\ Agrees(claims, D)
      /\ D \in [1 .. generation.counter -> Decision]
  BY DEF IInv, GenerationOK
<1>2. \A n \in DOMAIN D : D[n] \in Decision
  BY <1>1
<1> HIDE DEF D
<1>3. \A n : n \in Standing <=> Stands(D, n)
  BY DEF Standing, Stands, D
<1>4. OneStandingPerTitle
  BY <1>1, <1>3 DEF OneStandingPerTitle, OneStands, Stands, D
<1>5. NoContentTwice
  BY <1>1 DEF NoContentTwice, NoTwice, D
<1>6. LinksAnswer
  BY <1>1 DEF LinksAnswer, Links, D
<1>7. \A t \in Title, n \in Number : claims[TitleKey(t)] = Committed(n) =>
        n \in Standing /\ D[n].title = t
  <2>1. \A n \in Number : n # 0
    BY DEF Number
  <2> QED
    BY <1>1, <1>3, <2>1 DEF Agrees, Holds
<1>8. \A n \in Standing : claims[NewTitle(D, n)] # NoClaim
  <2>1. ASSUME NEW n \in Standing
        PROVE  n \in DOMAIN D /\ D[n].title \in Title /\ Stands(D, n)
    BY <1>2, <1>3, DecisionFields DEF Stands
  <2> QED
    BY <1>1, <2>1 DEF Agrees, Holds, NewTitle
<1>9. \A n \in DOMAIN D : claims[Content(D, n)] # NoClaim
  BY <1>1, <1>2, ContentKind DEF Agrees, New
<1> QED
  BY <1>4, <1>5, <1>6, <1>7, <1>8, <1>9 DEF ClaimsMatch, D

-----------------------------------------------------------------------------
(* Publishing is a step of the log.                                          *)

LEMMA AppendIs ==
  ASSUME NEW m \in Nat, NEW S, NEW D \in [1 .. m -> S], NEW E \in [1 .. m + 1 -> S],
         \A j \in 1 .. m : E[j] = D[j]
  PROVE  E = Append(D, E[m + 1]) /\ Len(D) = m
<1>1. D \in Seq(S) /\ Len(D) = m
  OBVIOUS
<1>2. E \in Seq(S) /\ Len(E) = m + 1 /\ E[m + 1] \in S
  OBVIOUS
<1>3. /\ Append(D, E[m + 1]) \in Seq(S) /\ Len(Append(D, E[m + 1])) = m + 1
      /\ \A j \in 1 .. m : Append(D, E[m + 1])[j] = D[j]
      /\ Append(D, E[m + 1])[m + 1] = E[m + 1]
  BY <1>1, <1>2, AppendProperties
<1>4. \A j \in 1 .. m + 1 : E[j] = Append(D, E[m + 1])[j]
  <2>1. \A j \in 1 .. m + 1 : j \in 1 .. m \/ j = m + 1
    OBVIOUS
  <2> QED
    BY <1>3, <2>1
<1> DEFINE A == Append(D, E[m + 1])
<1> HIDE DEF A
<1>5. A \in Seq(S) /\ Len(A) = Len(E) /\ \A j \in 1 .. Len(E) : E[j] = A[j]
  BY <1>2, <1>3, <1>4 DEF A
<1>6. E = A
  BY <1>2, <1>5, SeqEqual
<1> QED
  BY <1>1, <1>6 DEF A

LEMMA LogStep ==
  ASSUME Bounds, NEW p \in Payment, NEW m \in 0 .. MaxCommits, NEW D \in [1 .. m -> Decision],
         D = generation.decisions, NEW E, E = generation'.decisions, NEW n,
         Applies(p, D, m, E, n), OneStands(D),
         Free(p, D, E, n), p.op # "add" => p.target # 0 /\ Stands(D, p.target)
  PROVE  Log!LogNext
<1>0. m \in Nat /\ DOMAIN D = 1 .. m /\ p.title \in Title /\ p.text \in Text
      /\ Makes(p, D, m, E, n)
  BY PaymentFields DEF Bounds, Applies
<1>1. CASE p.op = "update"
  <2>1. /\ p.target \in DOMAIN D /\ D[p.target].superseded_by = 0
        /\ E = [D EXCEPT ![p.target].text = Append(@, p.text)]
    BY <1>0, <1>1 DEF Makes, Stands
  <2>2. p.target \in DOMAIN generation.decisions /\ Log!Standing(p.target)
    BY <2>1 DEF Log!Standing
  <2>3. generation'.decisions =
          [generation.decisions EXCEPT ![p.target].text = Append(@, p.text)]
    BY <2>1
  <2>4. Log!Update
    BY <1>0, <2>2, <2>3, Zenon DEF Log!Update
  <2> QED
    BY <2>4 DEF Log!LogNext
<1>2. CASE p.op # "update"
  <2>1. n = m + 1 /\ E \in [1 .. m + 1 -> Decision]
        /\ E[n] = Added(p, IF p.op = "add" THEN 0 ELSE p.target)
    BY <1>0, <1>2 DEF Makes
  <2>2. E[n].title = p.title
    BY <2>1 DEF Added
  <2>3. CASE p.op = "add"
    <3>1. \A j \in 1 .. m : E[j] = D[j]
      <4>1. \A j \in 1 .. m : j # m + 1
        BY <1>0
      <4> QED
        BY <1>0, <2>1, <2>3, <4>1 DEF Makes
    <3>2. E = Append(D, Added(p, 0))
      BY <1>0, <2>1, <2>3, <3>1, AppendIs
    <3>3. \A j \in DOMAIN D : D[j].superseded_by = 0 => D[j].title # p.title
      BY <2>2, <2>3 DEF Free, Holds, Stands
    <3>4. Log!Free(p.title, 0)
      BY <3>3 DEF Log!Free, Log!Standing
    <3>5. Log!Decided(p.title, p.text, 0) = Added(p, 0)
      BY DEF Log!Decided, Added
    <3>6. Log!Add
      BY <1>0, <3>2, <3>4, <3>5 DEF Log!Add
    <3> QED
      BY <3>6 DEF Log!LogNext
  <2>4. CASE p.op = "supersede"
    <3> DEFINE x == p.target
               R == [D EXCEPT ![x].superseded_by = m + 1]
    <3>1. x \in 1 .. m /\ E[x] = [D[x] EXCEPT !.superseded_by = m + 1] /\ D[x].superseded_by = 0
      BY <1>0, <2>4 DEF Makes, Stands
    <3>2. \A j \in 1 .. m : E[j] = R[j]
      <4>1. \A j \in 1 .. m : j # m + 1
        BY <1>0
      <4>2. \A j \in 1 .. m : j # x => E[j] = D[j]
        BY <1>0, <2>1, <2>4, <4>1 DEF Makes
      <4> QED
        BY <1>0, <3>1, <4>2
    <3>3. R \in [1 .. m -> Decision]
      <4>1. \A j \in 1 .. m : E[j] \in Decision
        BY <1>0, <2>1
      <4> QED
        BY <1>0, <3>2, <4>1
    <3> HIDE DEF R
    <3>4. E = Append(R, Added(p, x))
      BY <1>0, <2>1, <2>4, <3>2, <3>3, AppendIs
    <3>5. Len(D) = m
      BY <1>0
    <3>6. \A j \in DOMAIN D : D[j].superseded_by = 0 /\ j # x => D[j].title # p.title
      BY <1>0, <2>2, <3>1 DEF Free, Holds, Stands, OneStands
    <3>7. Log!Free(p.title, x) /\ Log!Standing(x)
      BY <1>0, <3>1, <3>6 DEF Log!Free, Log!Standing
    <3>8. Log!Decided(p.title, p.text, x) = Added(p, x)
      BY DEF Log!Decided, Added
    <3>9. /\ x \in DOMAIN generation.decisions
          /\ generation'.decisions =
               Append([generation.decisions EXCEPT ![x].superseded_by = Len(generation.decisions) + 1],
                      Log!Decided(p.title, p.text, x))
      BY <1>0, <3>1, <3>4, <3>5, <3>8 DEF R
    <3> HIDE DEF x
    <3>10. Log!Supersede
      BY <1>0, <3>7, <3>9, Zenon DEF Log!Supersede
    <3> QED
      BY <3>10 DEF Log!LogNext
  <2> QED
    BY <1>2, <2>3, <2>4, PaymentFields
<1> QED
  BY <1>1, <1>2

LEMMA StepIsLogged ==
  Bounds /\ IInv /\ [CNext]_cvars => [Log!LogNext]_(generation.decisions)
<1> SUFFICES ASSUME Bounds, IInv, [CNext]_cvars
             PROVE  [Log!LogNext]_(generation.decisions)
  OBVIOUS
<1>1. ASSUME NEW c \in Committers, PublishCommit(c)
      PROVE  Log!LogNext
  <2> DEFINE t == task[c]
             D == generation.decisions
             E == generation'.decisions
  <2>1. t.at = "entered" /\ t.base = generation.id /\ E = t.planned
    BY <1>1 DEF PublishCommit, At
  <2>2. TaskOK(t, generation) /\ GenerationOK(generation) /\ Entered(t, D)
    BY Known DEF Fits
  <2>3. /\ t.payload \in Payment /\ generation.counter \in 0 .. MaxCommits
        /\ D \in [1 .. generation.counter -> Decision]
        /\ Applies(t.payload, D, generation.counter, E, Num(t))
        /\ Free(t.payload, D, E, Num(t))
        /\ t.payload.op # "add" => t.payload.target # 0 /\ Stands(D, t.payload.target)
    BY <2>1, <2>2, PlanApplies
  <2>4. OneStands(D)
    BY <2>2 DEF GenerationOK
  <2> HIDE DEF t
  <2> QED
    BY <2>3, <2>4, LogStep
<1>2. ASSUME NEW c \in Committers, ~PublishCommit(c),
             \/ \E p \in Payloads : Approve(c, p)
             \/ PrepareCommit(c) \/ PrepareRefused(c)
             \/ \E k \in DOMAIN task[c].probes : Observe(c, k)
             \/ Finalize(c) \/ FinalizeRefused(c)
             \/ Enter(c) \/ PublishCommit(c) \/ Settle(c) \/ Abandon(c)
      PROVE  generation' = generation
  BY <1>2 DEF Approve, PrepareCommit, PrepareRefused, Observe, Finalize, FinalizeRefused, Enter,
              Settle, Abandon
<1> QED
  BY <1>1, <1>2 DEF CNext, cvars

(* Claims and decisions agree, no title stands twice, no content is decided    *)
(* twice, replaced decisions and their successors name each other, and every   *)
(* publication is one step of the log, for any number of committers working    *)
(* from stale views.                                                        *)
THEOREM CommitsAreSound ==
  ASSUME Bounds
  PROVE  CSpec => CommitsStand
<1>1. CInit => Log!LogInit
  BY DEF CInit, NoGeneration, Log!LogInit
<1>2. IInv /\ [CNext]_cvars => [Log!LogNext]_(generation.decisions)
  BY StepIsLogged
<1>3. IInv => ClaimsMatch /\ OneStandingPerTitle /\ NoContentTwice /\ LinksAnswer
  BY InvariantSays
<1> QED
  BY <1>1, <1>2, <1>3, Invariance, PTL DEF CSpec, CommitsStand, Log!LogSpec

-----------------------------------------------------------------------------
(***************************************************************************)
(* The write commands of a flat store (Writes.tla).                           *)
(***************************************************************************)

-----------------------------------------------------------------------------
(* The inductive invariant.                                                  *)

Kinds == {"propose", "flag", "state", "note", "inquire", "import", "sync"}
Writers == {"decide", "ask", "fill", "archive"}      \* they end in an event
Touches == Writers \union {"truncate", "read", "replace", "pull"}  \* they change the store
Derives == {"snapshot", "agents", "push"}
StepName == Writers \union Touches \union Derives \union {"journal"}

(* The commands that leave each derived artifact up to date.                  *)
Captures == Tools \union {"import", "sync"}
Guides == {"propose", "note", "inquire", "sync"}
Pushes == Tools \union {"sync"}

Follows(s, k, step) == k < Len(s) /\ s[k + 1] = step
Later(s, k, step) == \E i \in (k + 1) .. Len(s) : s[i] = step

(* The steps a command still has: none twice but the journal, and then a write  *)
(* between; what is derived comes after what changes the store; the three steps *)
(* of a state update, and the two of a project file, follow one another.       *)
Ordered(kind, s) ==
  /\ s \in Seq(StepName)
  /\ \A i, k \in 1 .. Len(s) : i < k /\ s[i] = s[k] =>
       s[i] = "journal" /\ \E m \in (i + 1) .. (k - 1) : s[m] \in Writers
  /\ \A k \in 1 .. Len(s) : s[k] \in Touches =>
       /\ kind \in Captures => Later(s, k, "snapshot")
       /\ kind \in Guides => Later(s, k, "agents")
       /\ kind \in Pushes => Later(s, k, "push")
  /\ \A k \in 1 .. Len(s) :
       /\ s[k] = "read" => kind \in {"state", "import"} /\ Follows(s, k, "replace")
       /\ s[k] = "replace" => Follows(s, k, "archive") /\ (k > 1 => s[k - 1] = "read")
       /\ s[k] = "archive" => k = 1 \/ s[k - 1] = "replace"
       /\ s[k] = "truncate" => Follows(s, k, "fill") /\ Follows(s, k + 1, "journal")
  /\ kind \in Tools => \A i, k \in 1 .. Len(s) : s[i] \in Writers /\ s[k] \in Writers => i = k

Statuses == {"committed", "rejected", "none"}
Events == [id : Nat, target : Part \union {"none"}, status : Statuses]
Plans == [current : Int, history : Seq(Int)]
Jobs == [id : Nat, kind : Kinds, todo : Seq(StepName), event : Events, prior : Int,
         plan : Plans, delta : Int, degraded : SUBSET Derives, edited : BOOLEAN, wrote : BOOLEAN]
Reports == [kind : Kinds \union {"none"}, ok : BOOLEAN, wrote : BOOLEAN]
Lines == [event : Events, readable : BOOLEAN, ended : BOOLEAN]

HeadIs(j, step) == j.todo # <<>> /\ j.todo[1] = step
StepsIn(s) == {s[i] : i \in 1 .. Len(s)}
Pending(j) == StepsIn(j.todo)
Target(step) == CASE step = "decide" -> "decisions" [] step = "ask" -> "questions"
                  [] step = "fill" -> "project" [] OTHER -> "state"
Archived(b) == \E i \in 1 .. Len(history) : history[i] = b

Versions == -1 .. minted
Types ==
  /\ minted \in Nat \ {0} /\ begun \in Nat /\ mishaps \in Nat /\ retouches \in Nat
  /\ store \in [Part -> Versions] /\ shot \in [Part -> Versions]
  /\ agents \in [Part -> Versions] /\ held \in [Part -> Versions]
  /\ legacy \in {Absent, 1} /\ history \in Seq(1 .. minted)
  /\ bodies \subseteq Versions /\ gone \subseteq Versions /\ owed \subseteq Derives
  /\ journal \in Seq(Lines) /\ report \in Reports

(* Every body is accounted for, and the current one is not yet in the history.  *)
Bodies ==
  /\ store["state"] \in bodies /\ legacy \in bodies
  /\ \A i \in 1 .. Len(history) : history[i] \in bodies
  /\ \A i, k \in 1 .. Len(history) : history[i] = history[k] => i = k
  /\ store["state"] # Blank => ~Archived(store["state"])
  /\ store["state"] = Absent => history = <<>>
  /\ \A b \in bodies \ {Absent, Blank} :
       \/ Archived(b) \/ b \in {store["state"], legacy} \union gone
       \/ HeadIs(job, "archive") /\ b = job.prior

(* The journal tells what happened, each event once.                          *)
Told ==
  /\ \A e \in carried : e \in Events /\ e.id \in 1 .. begun
  /\ Readable(journal) \subseteq carried /\ logged \subseteq Readable(journal)
  /\ \A i, k \in 1 .. Len(journal) :
       journal[i].readable /\ journal[k].readable /\ journal[i].event = journal[k].event => i = k

(* What command j has read of the state and will make of it.                  *)
StateUnderWay(j) ==
  /\ HeadIs(j, "replace") \/ HeadIs(j, "archive") =>
       /\ j.prior \in bodies \ {Absent} /\ store["state"] # Absent
       /\ j.prior # Blank => ~Archived(j.prior)
  /\ HeadIs(j, "replace") => j.delta \in (1 .. minted) \ bodies
  /\ HeadIs(j, "archive") => j.prior = Blank \/ j.prior # store["state"]

Updating(j) == HeadIs(j, "replace") \/ HeadIs(j, "archive")
PlanKept(j) ==
  j.delta # Absent =>
    /\ Updating(j) /\ ~j.edited =>
         /\ HeadIs(j, "archive") => store["state"] = j.delta
         /\ j.plan = [current |-> j.delta,
                      history |-> IF j.prior = Blank THEN history ELSE Append(history, j.prior)]
    /\ ~Updating(j) =>
         /\ "archive" \notin Pending(j)
         /\ j.edited \/ j.plan = [current |-> store["state"], history |-> history]

(* The event j will record happened and is not yet recorded; nor is one of the   *)
(* parts it will still write.                                               *)
EventKept(j) ==
  /\ j.id \in 1 .. begun
  /\ j.event # NoEvent =>
       /\ j.event \in carried \ Readable(journal) /\ j.event.id = j.id
       /\ \A step \in Pending(j) \intersect Writers : Target(step) # j.event.target
  /\ j.event = NoEvent =>
       \A i \in 1 .. Len(j.todo) : j.todo[i] = "journal" =>
         \E m \in 1 .. (i - 1) : j.todo[m] \in Writers
  /\ \A e \in Readable(journal) : e.id = j.id =>
       \A step \in Pending(j) \intersect Writers : Target(step) # e.target

(* What j has derived so far, in good order, is of the store as it is.         *)
UpToDate(kind, steps) ==
  /\ kind \in Captures /\ "snapshot" \notin steps => shot = store
  /\ kind \in Guides /\ "agents" \notin steps => agents = store
  /\ kind \in Pushes /\ hosting = "cloud" /\ "push" \notin steps => held = store
Derived(j) ==
  /\ j.degraded = {} /\ ~j.edited /\ (j.wrote \/ j.kind = "sync") => UpToDate(j.kind, Pending(j))
  /\ j.kind \in Tools /\ j.wrote => Pending(j) \intersect Writers = {}

Carries(j) == /\ j \in Jobs /\ Ordered(j.kind, j.todo)
              /\ StateUnderWay(j) /\ PlanKept(j) /\ EventKept(j) /\ Derived(j)

Reported ==
  /\ job # Idle => ~report.ok
  /\ report.ok /\ (report.wrote \/ report.kind = "sync") => UpToDate(report.kind, {})

WInv == /\ Types /\ Bodies /\ Told /\ Reported
        /\ job # Idle => job.todo # <<>> /\ Carries(job)
-----------------------------------------------------------------------------
(* The steps of the commands.                                                *)

LEMMA TailIs ==
  ASSUME NEW S, NEW s \in Seq(S), s # <<>>
  PROVE  /\ Tail(s) \in Seq(S) /\ Len(Tail(s)) = Len(s) - 1 /\ Len(s) \in Nat \ {0}
         /\ \A i \in 1 .. Len(Tail(s)) : i + 1 \in 1 .. Len(s) /\ Tail(s)[i] = s[i + 1]
OBVIOUS

LEMMA Advances ==
  ASSUME NEW kind, NEW s, Ordered(kind, s), s # <<>>
  PROVE  Ordered(kind, Tail(s))
<1> DEFINE t == Tail(s)
<1>0. s \in Seq(StepName)
  BY DEF Ordered
<1>1. /\ t \in Seq(StepName) /\ Len(t) = Len(s) - 1 /\ Len(s) \in Nat \ {0}
      /\ \A i \in 1 .. Len(t) : i + 1 \in 1 .. Len(s) /\ t[i] = s[i + 1]
  BY <1>0, TailIs
<1> HIDE DEF t
<1>2. ASSUME NEW i \in 1 .. Len(t), NEW k \in 1 .. Len(t), i < k, t[i] = t[k]
      PROVE  t[i] = "journal" /\ \E m \in (i + 1) .. (k - 1) : t[m] \in Writers
<2>1. s[i + 1] = "journal" /\ \E m \in (i + 2) .. k : s[m] \in Writers
  BY <1>1, <1>2 DEF Ordered
<2>2. PICK m \in (i + 2) .. k : s[m] \in Writers
  BY <2>1
<2>3. m - 1 \in (i + 1) .. (k - 1) /\ t[m - 1] = s[m]
  BY <1>1, <2>2
<2> QED
  BY <1>1, <2>1, <2>2, <2>3
<1>3. ASSUME NEW k \in 1 .. Len(t), NEW step, Later(s, k + 1, step)
      PROVE  Later(t, k, step)
<2>1. PICK i \in (k + 2) .. Len(s) : s[i] = step
  BY <1>3 DEF Later
<2>2. i - 1 \in (k + 1) .. Len(t) /\ t[i - 1] = step
  BY <1>1, <2>1
<2> QED
  BY <2>2 DEF Later
<1>4. ASSUME NEW k \in 1 .. Len(t), NEW step, Follows(s, k + 1, step)
      PROVE  Follows(t, k, step)
  BY <1>1, <1>4 DEF Follows
<1>5. ASSUME NEW k \in 1 .. Len(t), t[k] \in Touches
      PROVE  /\ kind \in Captures => Later(t, k, "snapshot")
             /\ kind \in Guides => Later(t, k, "agents")
             /\ kind \in Pushes => Later(t, k, "push")
<2>1. k + 1 \in 1 .. Len(s) /\ s[k + 1] \in Touches
  BY <1>1, <1>5
<2> QED
  BY <1>3, <2>1 DEF Ordered
<1>6. ASSUME NEW k \in 1 .. Len(t)
      PROVE  /\ t[k] = "read" => kind \in {"state", "import"} /\ Follows(t, k, "replace")
             /\ t[k] = "replace" => Follows(t, k, "archive") /\ (k > 1 => t[k - 1] = "read")
             /\ t[k] = "archive" => k = 1 \/ t[k - 1] = "replace"
             /\ t[k] = "truncate" => Follows(t, k, "fill") /\ Follows(t, k + 1, "journal")
<2>1. k + 1 \in 1 .. Len(s) /\ s[k + 1] = t[k] /\ k + 1 > 1
  BY <1>1
<2>2. /\ s[k + 1] = "read" => kind \in {"state", "import"} /\ Follows(s, k + 1, "replace")
      /\ s[k + 1] = "replace" => Follows(s, k + 1, "archive") /\ s[k] = "read"
      /\ s[k + 1] = "archive" => s[k] = "replace"
      /\ s[k + 1] = "truncate" => Follows(s, k + 1, "fill") /\ Follows(s, k + 2, "journal")
  BY <2>1 DEF Ordered
<2>3. k > 1 => t[k - 1] = s[k]
  BY <1>1
<2>4. Follows(s, k + 2, "journal") => Follows(t, k + 1, "journal")
  BY <1>1 DEF Follows
<2> QED
  BY <1>4, <2>1, <2>2, <2>3, <2>4
<1>7. ASSUME kind \in Tools, NEW i \in 1 .. Len(t), NEW k \in 1 .. Len(t),
             t[i] \in Writers, t[k] \in Writers
      PROVE  i = k
<2>1. /\ i + 1 \in 1 .. Len(s) /\ k + 1 \in 1 .. Len(s)
      /\ s[i + 1] \in Writers /\ s[k + 1] \in Writers
  BY <1>1, <1>7
<2>2. i + 1 = k + 1
  BY <1>7, <2>1 DEF Ordered
<2> QED
  BY <1>1, <2>2
<1>8. Ordered(kind, t)
  BY <1>1, <1>2, <1>5, <1>6, <1>7 DEF Ordered
<1> QED
  BY <1>8 DEF t

(* What the step at hand says of those to come.                              *)
LEMMA HeadSays ==
  ASSUME NEW kind, NEW s, Ordered(kind, s), s # <<>>, NEW t, t = Tail(s)
  PROVE  /\ t # <<>> /\ t[1] = "replace" => s[1] = "read"
         /\ t # <<>> /\ t[1] = "archive" => s[1] = "replace"
         /\ s[1] = "read" => t # <<>> /\ t[1] = "replace" /\ kind \in {"state", "import"}
         /\ s[1] = "replace" => t # <<>> /\ t[1] = "archive"
         /\ s[1] # "journal" => s[1] \notin StepsIn(t)
         /\ StepsIn(s) = {s[1]} \union StepsIn(t)
         /\ s[1] \in Touches => /\ kind \in Captures => "snapshot" \in StepsIn(t)
                                /\ kind \in Guides => "agents" \in StepsIn(t)
                                /\ kind \in Pushes => "push" \in StepsIn(t)
         /\ kind \in Tools /\ s[1] \in Writers => StepsIn(t) \intersect Writers = {}
<1>0. s \in Seq(StepName)
  BY DEF Ordered
<1>1. /\ t \in Seq(StepName) /\ Len(t) = Len(s) - 1 /\ Len(s) \in Nat \ {0}
      /\ \A i \in 1 .. Len(t) : i + 1 \in 1 .. Len(s) /\ t[i] = s[i + 1]
  BY <1>0, TailIs
<1>2. 1 \in 1 .. Len(s) /\ (t # <<>> <=> Len(s) > 1)
  BY <1>1
<1>3. t # <<>> => t[1] = s[2] /\ 2 \in 1 .. Len(s) /\ 2 - 1 = 1
  BY <1>1, <1>2
<1>4. /\ t # <<>> /\ t[1] = "replace" => s[1] = "read"
      /\ t # <<>> /\ t[1] = "archive" => s[1] = "replace"
  BY <1>3 DEF Ordered
<1>5. ASSUME NEW step, Follows(s, 1, step) PROVE t # <<>> /\ t[1] = step
  BY <1>1, <1>2, <1>3, <1>5 DEF Follows
<1>6. /\ s[1] = "read" => t # <<>> /\ t[1] = "replace" /\ kind \in {"state", "import"}
      /\ s[1] = "replace" => t # <<>> /\ t[1] = "archive"
  BY <1>2, <1>5 DEF Ordered
<1>7. ASSUME s[1] # "journal", s[1] \in StepsIn(t) PROVE FALSE
<2>1. PICK i \in 1 .. Len(t) : t[i] = s[1]
  BY <1>7 DEF StepsIn
<2>2. i + 1 \in 1 .. Len(s) /\ s[1] = s[i + 1] /\ 1 < i + 1
  BY <1>1, <2>1
<2> QED
  BY <1>2, <1>7, <2>2 DEF Ordered
<1>8. StepsIn(s) = {s[1]} \union StepsIn(t)
<2>1. ASSUME NEW i \in 1 .. Len(s) PROVE s[i] \in {s[1]} \union StepsIn(t)
<3>1. CASE i = 1
  BY <3>1
<3>2. CASE i # 1
<4>1. i - 1 \in 1 .. Len(t) /\ t[i - 1] = s[i]
  BY <1>1, <3>2
<4> QED
  BY <4>1 DEF StepsIn
<3> QED
  BY <3>1, <3>2
<2>2. ASSUME NEW i \in 1 .. Len(t) PROVE t[i] \in StepsIn(s)
  BY <1>1 DEF StepsIn
<2>3. s[1] \in StepsIn(s)
  BY <1>2 DEF StepsIn
<2> QED
  BY <2>1, <2>2, <2>3 DEF StepsIn
<1>9. ASSUME NEW step, Later(s, 1, step) PROVE step \in StepsIn(t)
<2>1. PICK i \in 2 .. Len(s) : s[i] = step
  BY <1>9 DEF Later
<2>2. i - 1 \in 1 .. Len(t) /\ t[i - 1] = step
  BY <1>1, <2>1
<2> QED
  BY <2>2 DEF StepsIn
<1>10. s[1] \in Touches => /\ kind \in Captures => "snapshot" \in StepsIn(t)
                           /\ kind \in Guides => "agents" \in StepsIn(t)
                           /\ kind \in Pushes => "push" \in StepsIn(t)
  BY <1>2, <1>9 DEF Ordered
<1>11. ASSUME kind \in Tools, s[1] \in Writers, NEW i \in 1 .. Len(t), t[i] \in Writers
       PROVE  FALSE
<2>1. i + 1 \in 1 .. Len(s) /\ s[i + 1] \in Writers /\ 1 # i + 1
  BY <1>1, <1>11
<2> QED
  BY <1>2, <1>11, <2>1 DEF Ordered
<1>12. s[1] # "journal" => s[1] \notin StepsIn(t)
  BY <1>7
<1>13. ASSUME kind \in Tools, s[1] \in Writers PROVE StepsIn(t) \intersect Writers = {}
  BY <1>11, <1>13 DEF StepsIn
<1> QED
  BY <1>4, <1>6, <1>12, <1>8, <1>10, <1>13

LEMMA StepsOrdered ==
  ASSUME NEW kind \in Kinds
  PROVE  Ordered(kind, Steps[kind]) /\ Steps[kind] # <<>>
<1>1. CASE kind = "propose"
<2>1. Steps[kind] = <<"decide", "snapshot", "agents", "push", "journal">>
  BY <1>1 DEF Steps
<2> QED
  BY <1>1, <2>1 DEF Ordered, Writers, Touches, Derives, StepName, Follows, Later, Captures, Guides, Pushes, Tools
<1>2. CASE kind = "flag"
<2>1. Steps[kind] = <<"ask", "snapshot", "push", "journal">>
  BY <1>2 DEF Steps
<2> QED
  BY <1>2, <2>1 DEF Ordered, Writers, Touches, Derives, StepName, Follows, Later, Captures, Guides, Pushes, Tools
<1>3. CASE kind = "state"
<2>1. Steps[kind] = <<"read", "replace", "archive", "snapshot", "push", "journal">>
  BY <1>3 DEF Steps
<2> QED
  BY <1>3, <2>1 DEF Ordered, Writers, Touches, Derives, StepName, Follows, Later, Captures, Guides, Pushes, Tools
<1>4. CASE kind = "note"
<2>1. Steps[kind] = <<"decide", "journal", "agents">>
  BY <1>4 DEF Steps
<2> QED
  BY <1>4, <2>1 DEF Ordered, Writers, Touches, Derives, StepName, Follows, Later, Captures, Guides, Pushes, Tools
<1>5. CASE kind = "inquire"
<2>1. Steps[kind] = <<"ask", "journal", "agents">>
  BY <1>5 DEF Steps
<2> QED
  BY <1>5, <2>1 DEF Ordered, Writers, Touches, Derives, StepName, Follows, Later, Captures, Guides, Pushes, Tools
<1>6. CASE kind = "import"
<2>1. Steps[kind] = <<"truncate", "fill", "journal", "decide", "journal", "read", "replace",
                      "archive", "journal", "snapshot">>
  BY <1>6 DEF Steps
<2> QED
  BY <1>6, <2>1 DEF Ordered, Writers, Touches, Derives, StepName, Follows, Later, Captures, Guides, Pushes, Tools
<1>7. CASE kind = "sync"
<2>1. Steps[kind] = <<"pull", "snapshot", "agents", "push">>
  BY <1>7 DEF Steps
<2> QED
  BY <1>7, <2>1 DEF Ordered, Writers, Touches, Derives, StepName, Follows, Later, Captures, Guides, Pushes, Tools
<1> QED
  BY <1>1, <1>2, <1>3, <1>4, <1>5, <1>6, <1>7 DEF Kinds

-----------------------------------------------------------------------------
(* What a step leaves as it was.                                             *)

(* The command goes on as k, or ends.                                        *)
LEMMA CommandGoesOn ==
  ASSUME NEW CONSTANT j, NEW CONSTANT k, NEW CONSTANT ss, j \in Jobs, k = [j EXCEPT !.todo = ss],
         GoOn(j, ss), ~report.ok, report \in Reports, Carries(k)'
  PROVE  /\ Reported' /\ report' \in Reports
         /\ job' # Idle => (job' = k /\ job'.todo # <<>> /\ Carries(job)')
         /\ ss # <<>> => job' = k
<1> USE DEF GoOn
<1>1. CASE ss # <<>>
<2>1. job' = k /\ report' = report
  BY <1>1
<2>2. k.todo = ss
  BY DEF Jobs
<2>3. Carries(job)'
  BY <2>1 DEF Carries, StateUnderWay, PlanKept, EventKept, Derived, Updating, UpToDate, Archived
<2> QED
  BY <1>1, <2>1, <2>2, <2>3 DEF Reported
<1>2. CASE ss = <<>>
<2>1. /\ job' = Idle
      /\ report' = [kind |-> j.kind, ok |-> j.degraded = {} /\ ~j.edited, wrote |-> j.wrote]
  BY <1>2
<2>2. /\ k.kind = j.kind /\ k.degraded = j.degraded /\ k.edited = j.edited /\ k.wrote = j.wrote
      /\ k.todo = <<>>
  BY <1>2 DEF Jobs
<2>3. Pending(k) = {}
  BY <2>2 DEF Pending, StepsIn
<2>4. j.degraded = {} /\ ~j.edited /\ (j.wrote \/ j.kind = "sync") => UpToDate(j.kind, {})'
  BY <2>2, <2>3 DEF Carries, Derived, UpToDate
<2>5. report' \in Reports
  BY <2>1 DEF Reports, Jobs
<2>6. Reported'
  BY <2>1, <2>4 DEF Reported, UpToDate
<2> QED
  BY <1>2, <2>1, <2>5, <2>6
<1> QED
  BY <1>1, <1>2

(* A step that is not about the state file goes on with it as it was.          *)
LEMMA StateKept ==
  ASSUME NEW CONSTANT j, NEW CONSTANT k, j = job, job # Idle, WInv,
         j.todo[1] \notin {"replace", "archive"},
         ~HeadIs(k, "replace"), ~HeadIs(k, "archive"), Pending(k) \subseteq Pending(j),
         k.delta = j.delta, k.plan = j.plan, j.edited => k.edited,
         store'["state"] = store["state"], history' = history
  PROVE  StateUnderWay(k)' /\ PlanKept(k)'
<1>1. PlanKept(j) /\ ~HeadIs(j, "replace") /\ ~HeadIs(j, "archive")
  BY DEF WInv, Carries, HeadIs
<1>2. StateUnderWay(k)'
  BY DEF StateUnderWay
<1>3. PlanKept(k)'
  BY <1>1 DEF PlanKept, Updating
<1> QED
  BY <1>2, <1>3

LEMMA BodiesKept ==
  ASSUME Bodies, ~HeadIs(job, "archive"), store'["state"] = store["state"],
         UNCHANGED <<legacy, history, bodies, gone>>
  PROVE  Bodies'
BY DEF Bodies, Archived

LEMMA ToldKept ==
  ASSUME Told, UNCHANGED events, NEW done \in Events, done.id \in 1 .. begun, begun' = begun,
         carried' \in {carried, carried \union {done}}
  PROVE  Told'
BY DEF Told, events

LEMMA ToldStands ==
  ASSUME Told, UNCHANGED <<events, carried, begun>>
  PROVE  Told'
BY DEF Told, events

(* The event to record stays to be recorded; so do those of the parts to write.  *)
LEMMA EventStands ==
  ASSUME NEW CONSTANT j, NEW CONSTANT k, EventKept(j), Pending(k) \subseteq Pending(j),
         k.id = j.id, k.event = j.event,
         j.event = NoEvent =>
           \A i \in 1 .. Len(k.todo) : k.todo[i] = "journal" =>
             \E m \in 1 .. (i - 1) : k.todo[m] \in Writers,
         UNCHANGED <<journal, carried, begun>>
  PROVE  EventKept(k)'
BY DEF EventKept

LEMMA JournalsFollow ==
  ASSUME NEW CONSTANT s, NEW CONSTANT t, s \in Seq(StepName), s # <<>>, t = Tail(s),
         s[1] \notin Writers,
         \A i \in 1 .. Len(s) : s[i] = "journal" => \E m \in 1 .. (i - 1) : s[m] \in Writers
  PROVE  \A i \in 1 .. Len(t) : t[i] = "journal" => \E m \in 1 .. (i - 1) : t[m] \in Writers
<1>1. /\ Len(t) = Len(s) - 1 /\ Len(s) \in Nat \ {0}
      /\ \A i \in 1 .. Len(t) : i + 1 \in 1 .. Len(s) /\ t[i] = s[i + 1]
  BY TailIs
<1> SUFFICES ASSUME NEW i \in 1 .. Len(t), t[i] = "journal"
             PROVE  \E m \in 1 .. (i - 1) : t[m] \in Writers
  OBVIOUS
<1>2. i + 1 \in 1 .. Len(s) /\ s[i + 1] = "journal"
  BY <1>1
<1>3. PICK m \in 1 .. i : s[m] \in Writers
  BY <1>2
<1>4. m # 1
  BY <1>3
<1>5. m - 1 \in 1 .. (i - 1) /\ t[m - 1] = s[m]
  BY <1>1, <1>3, <1>4
<1> QED
  BY <1>3, <1>5

(* After a journal step another has a write before it.                        *)
LEMMA JournalsPart ==
  ASSUME NEW CONSTANT kind, NEW CONSTANT s, NEW CONSTANT t, Ordered(kind, s), s # <<>>, t = Tail(s),
         s[1] = "journal"
  PROVE  \A i \in 1 .. Len(t) : t[i] = "journal" => \E m \in 1 .. (i - 1) : t[m] \in Writers
<1>1. /\ s \in Seq(StepName) /\ Len(t) = Len(s) - 1 /\ Len(s) \in Nat \ {0}
      /\ \A i \in 1 .. Len(t) : i + 1 \in 1 .. Len(s) /\ t[i] = s[i + 1]
  BY TailIs DEF Ordered
<1> SUFFICES ASSUME NEW i \in 1 .. Len(t), t[i] = "journal"
             PROVE  \E m \in 1 .. (i - 1) : t[m] \in Writers
  OBVIOUS
<1>2. 1 \in 1 .. Len(s) /\ i + 1 \in 1 .. Len(s) /\ 1 < i + 1 /\ s[1] = s[i + 1]
  BY <1>1
<1>3. PICK m \in (1 + 1) .. ((i + 1) - 1) : s[m] \in Writers
  BY <1>2 DEF Ordered
<1>4. m - 1 \in 1 .. (i - 1) /\ t[m - 1] = s[m]
  BY <1>1, <1>3
<1> QED
  BY <1>3, <1>4

-----------------------------------------------------------------------------
(* The step at hand.                                                         *)
LEMMA AtHand ==
  ASSUME NEW CONSTANT j, NEW CONSTANT step, NEW CONSTANT t, WInv, j = job, Due(step), t = Tail(j.todo)
  PROVE  /\ job # Idle /\ j \in Jobs /\ j.todo # <<>> /\ j.todo[1] = step /\ Rest = t
         /\ Ordered(j.kind, j.todo) /\ StateUnderWay(j) /\ PlanKept(j) /\ EventKept(j) /\ Derived(j)
         /\ ~report.ok /\ report \in Reports /\ j.todo \in Seq(StepName)
         /\ t \in Seq(StepName) /\ Ordered(j.kind, t)
<1>1. job # Idle /\ j.todo # <<>> /\ j.todo[1] = step /\ Rest = t
  BY DEF Due, Idle, Rest
<1>2. Carries(j)
  BY <1>1 DEF WInv
<1>3. j \in Jobs /\ Ordered(j.kind, j.todo) /\ StateUnderWay(j) /\ PlanKept(j) /\ EventKept(j) /\ Derived(j)
  BY <1>2 DEF Carries
<1>4. ~report.ok /\ report \in Reports
  BY <1>1 DEF WInv, Reported, Types
<1>5. Ordered(j.kind, t)
  BY <1>1, <1>3, Advances
<1>6. j.todo \in Seq(StepName) /\ t \in Seq(StepName)
  BY <1>3, <1>5 DEF Ordered
<1> QED
  BY <1>1, <1>3, <1>4, <1>5, <1>6

LEMMA Ahead ==
  ASSUME NEW CONSTANT j, NEW CONSTANT step, NEW CONSTANT t, j.todo # <<>>, j.todo[1] = step,
         Ordered(j.kind, j.todo), t = Tail(j.todo)
  PROVE  /\ t # <<>> /\ t[1] = "replace" => step = "read"
         /\ t # <<>> /\ t[1] = "archive" => step = "replace"
         /\ step = "read" => t # <<>> /\ t[1] = "replace" /\ j.kind \in {"state", "import"}
         /\ step = "replace" => t # <<>> /\ t[1] = "archive"
         /\ step # "journal" => step \notin StepsIn(t)
         /\ Pending(j) = {step} \union StepsIn(t)
         /\ (step \in Touches /\ j.kind \in Captures) => "snapshot" \in StepsIn(t)
         /\ (step \in Touches /\ j.kind \in Guides) => "agents" \in StepsIn(t)
         /\ (step \in Touches /\ j.kind \in Pushes) => "push" \in StepsIn(t)
         /\ j.kind \in Tools /\ step \in Writers => StepsIn(t) \intersect Writers = {}
BY HeadSays DEF Pending

(* The versions that were are still in range.                                *)
LEMMA Widens ==
  ASSUME Types, minted' \in {minted, minted + 1}
  PROVE  /\ minted' \in Nat \ {0} /\ Versions \subseteq Versions'
         /\ store \in [Part -> Versions'] /\ shot \in [Part -> Versions']
         /\ agents \in [Part -> Versions'] /\ held \in [Part -> Versions']
         /\ history \in Seq(1 .. minted') /\ bodies \subseteq Versions' /\ gone \subseteq Versions'
<1>1. minted \in Nat \ {0} /\ minted' \in Nat \ {0} /\ minted <= minted'
  BY DEF Types
<1>2. Versions \subseteq Versions'
  BY <1>1 DEF Versions
<1>3. \A i \in 1 .. Len(history) : history[i] \in 1 .. minted'
  BY <1>1 DEF Types
<1>4. history \in Seq(1 .. minted')
  BY <1>3 DEF Types
<1> QED
  BY <1>1, <1>2, <1>4 DEF Types

(* A decision, a question or the project file is written.                      *)
LEMMA WriteKeeps ==
  ASSUME WInv, NEW CONSTANT step \in {"decide", "ask", "fill"}, WritePart(step, Target(step))
  PROVE  WInv'
<1> DEFINE part == Target(step)
<1>0. part \in Part \ {"state"} /\ step \in Writers /\ step \in Touches /\ step # "journal"
  BY DEF Target, Part, Writers, Touches
<1>1. PICK j : j = job
  OBVIOUS
<1>23. PICK t : t = Tail(j.todo)
  OBVIOUS
<1>2. PICK n \in Nat : n = begun
  BY DEF WInv, Types
<1> DEFINE done == Event(j.id, part, "committed")
           w == [j EXCEPT !.event = done, !.wrote = TRUE]
           k == [w EXCEPT !.todo = t]
<1>3. Due(step)
  BY DEF WritePart
<1>4. /\ job # Idle /\ j \in Jobs /\ j.todo # <<>> /\ j.todo[1] = step /\ Rest = t
      /\ Ordered(j.kind, j.todo) /\ StateUnderWay(j) /\ PlanKept(j) /\ EventKept(j) /\ Derived(j)
      /\ ~report.ok /\ report \in Reports /\ j.todo \in Seq(StepName)
      /\ t \in Seq(StepName) /\ Ordered(j.kind, t)
  BY <1>1, <1>3, <1>23, AtHand
<1>5. /\ store' = [store EXCEPT ![part] = minted + 1] /\ minted' = minted + 1
      /\ carried' = carried \union {done} /\ GoOn(w, t)
      /\ UNCHANGED <<hosting, legacy, history, bodies, gone, events, derived, begun, mishaps, retouches>>
  BY <1>1, <1>4 DEF WritePart
<1>6. j.id \in 1 .. n /\ done \in Events /\ done.id = j.id /\ done.target = part /\ done # NoEvent
  BY <1>0, <1>2, <1>4 DEF EventKept, Events, Event, NoEvent, Statuses
<1> HIDE DEF part, done
<1>7. /\ w \in Jobs /\ k \in Jobs /\ k.todo = t /\ k.kind = j.kind /\ k.id = j.id /\ k.event = done
      /\ k.prior = j.prior /\ k.plan = j.plan /\ k.delta = j.delta /\ k.edited = j.edited
      /\ k.degraded = j.degraded /\ k.wrote
  BY <1>4, <1>6 DEF Jobs
<1> HIDE DEF w, k
<1>8. /\ t # <<>> /\ t[1] = "replace" => step = "read"
      /\ t # <<>> /\ t[1] = "archive" => step = "replace"
      /\ step \notin StepsIn(t)
      /\ Pending(j) = {step} \union StepsIn(t)
      /\ (j.kind \in Captures => "snapshot" \in StepsIn(t))
      /\ (j.kind \in Guides => "agents" \in StepsIn(t))
      /\ (j.kind \in Pushes => "push" \in StepsIn(t))
      /\ (j.kind \in Tools => StepsIn(t) \intersect Writers = {})
  BY <1>0, <1>4, <1>23, Ahead
<1>9. Pending(k) = StepsIn(t)
  BY <1>7 DEF Pending
<1>10. ~HeadIs(k, "replace") /\ ~HeadIs(k, "archive") /\ ~HeadIs(j, "replace") /\ ~HeadIs(j, "archive")
  BY <1>4, <1>7, <1>8 DEF HeadIs
<1>11. Types /\ Bodies /\ Told
  BY DEF WInv
<1>12. store'["state"] = store["state"]
  BY <1>0, <1>5, <1>11 DEF Types, Part
<1>22. WInv /\ job # Idle /\ j.todo[1] \notin {"replace", "archive"} /\ (j.edited => k.edited)
       /\ Pending(k) \subseteq Pending(j) /\ history' = history
  BY <1>4, <1>5, <1>7, <1>8, <1>9
<1>13. StateUnderWay(k)' /\ PlanKept(k)'
  BY <1>1, <1>4, <1>5, <1>7, <1>8, <1>9, <1>10, <1>12, <1>22, StateKept
<1>14. Bodies'
  BY <1>1, <1>5, <1>10, <1>11, <1>12, BodiesKept
<1>15. Told'
  BY <1>2, <1>5, <1>6, <1>11, ToldKept
<1>16. EventKept(k)'
<2>1. journal' = journal /\ n = begun' /\ Readable(journal) \subseteq carried
  BY <1>2, <1>5, <1>11 DEF events, Told
<2>2. \A e \in Readable(journal) : e.id = j.id =>
        \A other \in Pending(j) \intersect Writers : Target(other) # e.target
  BY <1>4 DEF EventKept
<2>3. done \in carried' \ Readable(journal')
  BY <1>0, <1>5, <1>6, <1>8, <1>9, <2>1, <2>2 DEF part
<2>4. \A other \in Pending(k) \intersect Writers : Target(other) # part
  BY <1>8, <1>9 DEF part, Target, Writers
<2> QED
  BY <1>6, <1>7, <1>8, <1>9, <2>1, <2>2, <2>3, <2>4 DEF EventKept
<1>17. Derived(k)'
  BY <1>7, <1>8, <1>9 DEF Derived, UpToDate
<1>18. Carries(k)'
  BY <1>4, <1>7, <1>13, <1>16, <1>17 DEF Carries
<1>19. k = [w EXCEPT !.todo = t]
  BY DEF k
<1>20. /\ Reported' /\ report' \in Reports
       /\ job' # Idle => (job' = k /\ job'.todo # <<>> /\ Carries(job)')
  BY <1>4, <1>5, <1>7, <1>18, <1>19, CommandGoesOn
<1>21. Types'
<2>1. store' \in [Part -> Versions']
<3>1. \A p \in Part : store'[p] \in Versions'
  BY <1>5, <1>11, Widens DEF Versions, Types
<3>2. DOMAIN store' = Part /\ store' = [p \in Part |-> store'[p]]
  BY <1>5, <1>11 DEF Types
<3> QED
  BY <3>1, <3>2
<2>2. UNCHANGED <<legacy, history, bodies, gone, journal, shot, agents, held, owed, begun, mishaps, retouches>>
  BY <1>5 DEF events, derived
<2> QED
  BY <1>5, <1>11, <1>20, <2>1, <2>2, Widens DEF Types
<1> QED
  BY <1>14, <1>15, <1>20, <1>21 DEF WInv

-----------------------------------------------------------------------------
(* The steps that write neither a part nor a line of the journal.              *)

(* What such a step leaves alone.                                            *)
Aside == /\ store'["state"] = store["state"]
         /\ UNCHANGED <<legacy, history, bodies, gone, events, carried, begun>>

LEMMA AsideKeeps ==
  ASSUME WInv, Aside, report' \in Reports => Types',
         NEW CONSTANT j, j = job, job # Idle, j.todo[1] \notin {"replace", "archive"},
         NEW CONSTANT ss, NEW CONSTANT d \in SUBSET Derives, NEW CONSTANT w,
         w = [j EXCEPT !.degraded = d], GoOn(w, ss), Ordered(j.kind, ss),
         StepsIn(ss) \subseteq Pending(j),
         ss # <<>> => ss[1] \notin {"replace", "archive"},
         j.event = NoEvent =>
           \A i \in 1 .. Len(ss) : ss[i] = "journal" => \E m \in 1 .. (i - 1) : ss[m] \in Writers,
         d = {} /\ ~j.edited /\ (j.wrote \/ j.kind = "sync") => UpToDate(j.kind, StepsIn(ss))'
  PROVE  WInv'
<1>1. /\ j \in Jobs /\ EventKept(j) /\ Derived(j) /\ ~report.ok /\ report \in Reports
      /\ Bodies /\ Told /\ j.todo # <<>>
  BY DEF WInv, Carries, Reported, Types
<1> DEFINE k == [w EXCEPT !.todo = ss]
<1>2. ss \in Seq(StepName)
  BY DEF Ordered
<1>3. /\ w \in Jobs /\ k \in Jobs /\ k.todo = ss /\ k.kind = j.kind /\ k.id = j.id /\ k.event = j.event
      /\ k.prior = j.prior /\ k.plan = j.plan /\ k.delta = j.delta /\ k.edited = j.edited
      /\ k.degraded = d /\ k.wrote = j.wrote
  BY <1>1, <1>2 DEF Jobs
<1>4. k = [w EXCEPT !.todo = ss]
  OBVIOUS
<1> HIDE DEF k
<1>5. Pending(k) = StepsIn(ss) /\ Pending(k) \subseteq Pending(j)
  BY <1>3 DEF Pending
<1>6. /\ ~HeadIs(k, "replace") /\ ~HeadIs(k, "archive")
      /\ ~HeadIs(j, "replace") /\ ~HeadIs(j, "archive")
  BY <1>1, <1>3 DEF HeadIs
<1>7. /\ store'["state"] = store["state"] /\ UNCHANGED <<legacy, history, bodies, gone>>
      /\ UNCHANGED events /\ UNCHANGED <<events, carried, begun>>
      /\ UNCHANGED <<journal, carried, begun>>
  BY DEF Aside, events
<1>8. StateUnderWay(k)' /\ PlanKept(k)'
  BY <1>3, <1>5, <1>6, <1>7, StateKept
<1>9. Bodies' /\ Told'
  BY <1>1, <1>6, <1>7, BodiesKept, ToldStands
<1>10. EventKept(k)'
  BY <1>1, <1>3, <1>5, <1>7, EventStands
<1>11. Derived(k)'
<2>1. k.degraded = {} /\ ~k.edited /\ (k.wrote \/ k.kind = "sync") => UpToDate(k.kind, Pending(k))'
  BY <1>3, <1>5 DEF UpToDate
<2>2. k.kind \in Tools /\ k.wrote => Pending(k) \intersect Writers = {}
  BY <1>1, <1>3, <1>5 DEF Derived
<2> QED
  BY <2>1, <2>2 DEF Derived, UpToDate
<1>12. Carries(k)'
  BY <1>3, <1>8, <1>10, <1>11 DEF Carries
<1>13. /\ Reported' /\ report' \in Reports
       /\ job' # Idle => (job' = k /\ job'.todo # <<>> /\ Carries(job)')
  BY <1>1, <1>3, <1>4, <1>12, CommandGoesOn
<1> QED
  BY <1>9, <1>13 DEF WInv

(* The same for a step after which the next one comes.                        *)
LEMMA PassKeeps ==
  ASSUME WInv, Aside, report' \in Reports => Types',
         NEW CONSTANT step \in Derives \union {"pull", "truncate"}, Due(step),
         NEW CONSTANT j, j = job, NEW CONSTANT d \in SUBSET Derives, NEW CONSTANT w,
         w = [j EXCEPT !.degraded = d], GoOn(w, Rest),
         d = {} /\ ~j.edited /\ (j.wrote \/ j.kind = "sync") => UpToDate(j.kind, StepsIn(Tail(j.todo)))'
  PROVE  WInv'
<1>1. PICK t : t = Tail(j.todo)
  OBVIOUS
<1>2. step \notin Writers /\ step \notin {"read", "replace", "archive", "journal"}
  BY DEF Derives, Writers
<1>3. /\ job # Idle /\ j \in Jobs /\ j.todo # <<>> /\ j.todo[1] = step /\ Rest = t
      /\ Ordered(j.kind, j.todo) /\ EventKept(j) /\ j.todo \in Seq(StepName) /\ Ordered(j.kind, t)
  BY <1>1, AtHand
<1>4. /\ t # <<>> => t[1] \notin {"replace", "archive"}
      /\ StepsIn(t) \subseteq Pending(j)
<2>1. /\ t # <<>> /\ t[1] = "replace" => step = "read"
      /\ t # <<>> /\ t[1] = "archive" => step = "replace"
      /\ Pending(j) = {step} \union StepsIn(t)
  BY <1>1, <1>3, Ahead
<2> QED
  BY <1>2, <2>1
<1>5. j.event = NoEvent =>
        \A i \in 1 .. Len(t) : t[i] = "journal" => \E m \in 1 .. (i - 1) : t[m] \in Writers
<2>1. ASSUME j.event = NoEvent
      PROVE  \A i \in 1 .. Len(j.todo) : j.todo[i] = "journal" =>
               \E m \in 1 .. (i - 1) : j.todo[m] \in Writers
  BY <1>3, <2>1 DEF EventKept
<2> QED
  BY <1>1, <1>2, <1>3, <2>1, JournalsFollow
<1> QED
  BY <1>1, <1>2, <1>3, <1>4, <1>5, AsideKeeps

(* A command that dies.                                                      *)
LEMMA DieKeeps ==
  ASSUME WInv, Die, report' \in Reports => Types', Bodies', Told'
  PROVE  WInv'
<1>1. job' = Idle /\ report' = NoReport /\ ~NoReport.ok /\ NoReport \in Reports
  BY DEF Die, NoReport, Reports
<1>2. Reported'
  BY <1>1 DEF Reported
<1> QED
  BY <1>1, <1>2 DEF WInv

(* A step that fails is named, and the next one comes; or the sync dies.       *)
LEMMA DegradesKeeps ==
  ASSUME WInv, Aside, report' \in Reports => Types',
         NEW CONSTANT step \in Derives, Due(step), Degrades(step)
  PROVE  WInv'
<1>1. PICK j : j = job
  OBVIOUS
<1>2. j \in Jobs
  BY <1>1 DEF WInv, Carries, Due, Idle
<1> DEFINE d == j.degraded \union {step}
<1>3. d \in SUBSET Derives /\ d # {}
  BY <1>2 DEF Jobs
<1>4. CASE GoOn([j EXCEPT !.degraded = d], Rest)
  BY <1>1, <1>3, <1>4, PassKeeps
<1>5. CASE Die
<2>1. Bodies /\ Told /\ ~HeadIs(job, "archive")
  BY DEF WInv, HeadIs, Due, Derives
<2>2. Bodies' /\ Told'
  BY <2>1, BodiesKept, ToldStands DEF Aside
<2> QED
  BY <1>5, <2>2, DieKeeps
<1> QED
  BY <1>1, <1>4, <1>5 DEF Degrades

(* What is derived.                                                          *)
LEMMA SnapshotKeeps ==
  ASSUME WInv, Snapshot
  PROVE  WInv'
<1>1. PICK j : j = job
  OBVIOUS
<1>2. Due("snapshot") /\ UNCHANGED <<hosting, stateFiles, events, agents, held, begun, minted, retouches, carried>>
  BY DEF Snapshot
<1>3. /\ j \in Jobs /\ Derived(j) /\ j.todo # <<>> /\ j.todo[1] = "snapshot"
      /\ Ordered(j.kind, j.todo)
  BY <1>1, <1>2, AtHand
<1>4. Types
  BY DEF WInv
<1>5. Aside
  BY <1>2 DEF Aside, stateFiles
<1>6. CASE Captured /\ mishaps' = mishaps
<2>1. Pending(j) = {"snapshot"} \union StepsIn(Tail(j.todo))
  BY <1>3, Ahead
<2>2. /\ shot' = store /\ owed' \subseteq owed /\ GoOn(j, Rest)
  BY <1>1, <1>6 DEF Captured
<2>3. j = [j EXCEPT !.degraded = j.degraded] /\ j.degraded \in SUBSET Derives
  BY <1>3 DEF Jobs
<2>4. report' \in Reports => Types'
  BY <1>2, <1>4, <1>6, <2>2 DEF Types, Versions, events, stateFiles
<2>5. j.degraded = {} /\ ~j.edited /\ (j.wrote \/ j.kind = "sync") =>
        UpToDate(j.kind, StepsIn(Tail(j.todo)))'
  BY <1>2, <1>3, <2>1, <2>2 DEF Derived, UpToDate, stateFiles
<2> QED
  BY <1>1, <1>2, <1>5, <2>2, <2>3, <2>4, <2>5, PassKeeps DEF Derives
<1>7. CASE Mishap /\ Degrades("snapshot") /\ shot' = shot
<2>1. report' \in Reports => Types'
  BY <1>2, <1>4, <1>7 DEF Types, Versions, events, stateFiles, Mishap, Degrades, Derives
<2> QED
  BY <1>2, <1>5, <1>7, <2>1, DegradesKeeps DEF Derives
<1> QED
  BY <1>6, <1>7 DEF Snapshot

LEMMA RegenerateKeeps ==
  ASSUME WInv, Regenerate
  PROVE  WInv'
<1>1. PICK j : j = job
  OBVIOUS
<1>2. Due("agents") /\ UNCHANGED <<hosting, stateFiles, events, shot, held, begun, minted, retouches, carried>>
  BY DEF Regenerate
<1>3. /\ j \in Jobs /\ Derived(j) /\ j.todo # <<>> /\ j.todo[1] = "agents"
      /\ Ordered(j.kind, j.todo)
  BY <1>1, <1>2, AtHand
<1>4. Types
  BY DEF WInv
<1>5. Aside
  BY <1>2 DEF Aside, stateFiles
<1>6. CASE Rendered /\ mishaps' = mishaps
<2>1. Pending(j) = {"agents"} \union StepsIn(Tail(j.todo))
  BY <1>3, Ahead
<2>2. /\ agents' = store /\ owed' \subseteq owed /\ GoOn(j, Rest)
  BY <1>1, <1>6 DEF Rendered
<2>3. j = [j EXCEPT !.degraded = j.degraded] /\ j.degraded \in SUBSET Derives
  BY <1>3 DEF Jobs
<2>4. report' \in Reports => Types'
  BY <1>2, <1>4, <1>6, <2>2 DEF Types, Versions, events, stateFiles
<2>5. j.degraded = {} /\ ~j.edited /\ (j.wrote \/ j.kind = "sync") =>
        UpToDate(j.kind, StepsIn(Tail(j.todo)))'
  BY <1>2, <1>3, <2>1, <2>2 DEF Derived, UpToDate, stateFiles
<2> QED
  BY <1>1, <1>2, <1>5, <2>2, <2>3, <2>4, <2>5, PassKeeps DEF Derives
<1>7. CASE Mishap /\ Degrades("agents") /\ agents' = agents
<2>1. report' \in Reports => Types'
  BY <1>2, <1>4, <1>7 DEF Types, Versions, events, stateFiles, Mishap, Degrades, Derives
<2> QED
  BY <1>2, <1>5, <1>7, <2>1, DegradesKeeps DEF Derives
<1> QED
  BY <1>6, <1>7 DEF Regenerate

LEMMA PushKeeps ==
  ASSUME WInv, Push
  PROVE  WInv'
<1>1. PICK j : j = job
  OBVIOUS
<1>2. Due("push") /\ UNCHANGED <<hosting, stateFiles, events, shot, agents, begun, minted, retouches, carried>>
  BY DEF Push
<1>3. /\ j \in Jobs /\ Derived(j) /\ j.todo # <<>> /\ j.todo[1] = "push"
      /\ Ordered(j.kind, j.todo)
  BY <1>1, <1>2, AtHand
<1>4. Types
  BY DEF WInv
<1>5. Aside
  BY <1>2 DEF Aside, stateFiles
<1>6. Pending(j) = {"push"} \union StepsIn(Tail(j.todo))
  BY <1>3, Ahead
<1>7. j = [j EXCEPT !.degraded = j.degraded] /\ j.degraded \in SUBSET Derives
  BY <1>3 DEF Jobs
<1>8. ASSUME NEW parts \in SUBSET Part, Uploaded(parts) PROVE held' \in [Part -> Versions]
  BY <1>4, <1>8 DEF Types, Uploaded
<1>9. CASE /\ hosting = "local" \/ (hosting = "signed out" /\ job.kind # "sync")
           /\ GoOn(job, Rest)
           /\ UNCHANGED <<held, owed, mishaps>>
<2>1. report' \in Reports => Types'
  BY <1>2, <1>4, <1>9 DEF Types, Versions, events, stateFiles
<2>2. j.degraded = {} /\ ~j.edited /\ (j.wrote \/ j.kind = "sync") =>
        UpToDate(j.kind, StepsIn(Tail(j.todo)))'
  BY <1>2, <1>3, <1>6, <1>9 DEF Derived, UpToDate, stateFiles
<2> QED
  BY <1>1, <1>2, <1>5, <1>7, <1>9, <2>1, <2>2, PassKeeps DEF Derives
<1>10. CASE hosting = "signed out" /\ job.kind = "sync" /\ Degrades("push") /\ UNCHANGED <<held, mishaps>>
<2>1. report' \in Reports => Types'
  BY <1>2, <1>4, <1>10 DEF Types, Versions, events, stateFiles, Degrades, Derives
<2> QED
  BY <1>2, <1>5, <1>10, <2>1, DegradesKeeps DEF Derives
<1>11. CASE /\ hosting = "cloud" /\ Uploaded(Part) /\ owed' = owed \ {"push"}
            /\ GoOn(job, Rest) /\ mishaps' = mishaps
<2>1. held' = store
  BY <1>4, <1>11 DEF Types, Uploaded
<2>2. report' \in Reports => Types'
  BY <1>2, <1>4, <1>11, <2>1 DEF Types, Versions, events, stateFiles
<2>3. j.degraded = {} /\ ~j.edited /\ (j.wrote \/ j.kind = "sync") =>
        UpToDate(j.kind, StepsIn(Tail(j.todo)))'
  BY <1>2, <1>3, <1>6, <2>1 DEF Derived, UpToDate, stateFiles
<2> QED
  BY <1>1, <1>2, <1>5, <1>7, <1>11, <2>2, <2>3, PassKeeps DEF Derives
<1>12. CASE /\ hosting = "cloud" /\ Mishap
            /\ \E parts \in SUBSET {p \in Part : held[p] # store[p]} : Uploaded(parts)
            /\ Degrades("push")
<2>1. held' \in [Part -> Versions]
  BY <1>8, <1>12
<2>2. report' \in Reports => Types'
  BY <1>2, <1>4, <1>12, <2>1 DEF Types, Versions, events, stateFiles, Mishap, Degrades, Derives
<2> QED
  BY <1>2, <1>5, <1>12, <2>2, DegradesKeeps DEF Derives
<1> QED
  BY <1>9, <1>10, <1>11, <1>12 DEF Push

LEMMA PullKeeps ==
  ASSUME WInv, Pull
  PROVE  WInv'
<1>1. PICK j : j = job
  OBVIOUS
<1>2. /\ Due("pull") /\ minted' = minted + 1 /\ GoOn(j, Rest)
      /\ UNCHANGED <<hosting, legacy, history, bodies, gone, events, shot, agents, owed, begun, mishaps, retouches, carried>>
  BY <1>1 DEF Pull
<1>3. /\ j \in Jobs /\ j.todo # <<>> /\ j.todo[1] = "pull" /\ Ordered(j.kind, j.todo)
  BY <1>1, <1>2, AtHand
<1>4. Types
  BY DEF WInv
<1>5. PICK parts \in {{}, {"decisions"}, {"questions"}} :
        /\ store' = [p \in Part |-> IF p \in parts THEN minted + 1 ELSE store[p]]
        /\ held' = [p \in Part |-> IF p \in parts THEN minted + 1 ELSE held[p]]
  BY DEF Pull
<1>6. Aside
  BY <1>2, <1>5 DEF Aside, Part
<1>7. j = [j EXCEPT !.degraded = j.degraded] /\ j.degraded \in SUBSET Derives
  BY <1>3 DEF Jobs
<1>8. minted + 1 \in Versions' /\ Versions \subseteq Versions'
  BY <1>2, <1>4, Widens DEF Types, Versions
<1>9. store' \in [Part -> Versions'] /\ held' \in [Part -> Versions']
  BY <1>4, <1>5, <1>8 DEF Types
<1>10. report' \in Reports => Types'
  BY <1>2, <1>4, <1>9, Widens DEF Types, events
<1>11. UpToDate(j.kind, StepsIn(Tail(j.todo)))'
  BY <1>3, Ahead DEF UpToDate, Touches
<1> QED
  BY <1>1, <1>2, <1>6, <1>7, <1>10, <1>11, PassKeeps

(* An import that passes the project file over goes on behind its three steps.   *)
LEMMA PassedOver ==
  ASSUME NEW CONSTANT kind, NEW CONSTANT s, Ordered(kind, s), s # <<>>, s[1] = "truncate",
         NEW CONSTANT u, u = Tail(Tail(Tail(s)))
  PROVE  /\ Ordered(kind, u) /\ StepsIn(u) \subseteq StepsIn(s)
         /\ u # <<>> => u[1] \notin {"replace", "archive"}
         /\ \A i \in 1 .. Len(u) : u[i] = "journal" => \E m \in 1 .. (i - 1) : u[m] \in Writers
         /\ kind \in Captures => "snapshot" \in StepsIn(u)
         /\ kind \in Guides => "agents" \in StepsIn(u)
         /\ kind \in Pushes => "push" \in StepsIn(u)
<1>1. PICK t1 : t1 = Tail(s)
  OBVIOUS
<1>2. PICK t2 : t2 = Tail(t1)
  OBVIOUS
<1>3. u = Tail(t2)
  BY <1>1, <1>2
<1>4. /\ s \in Seq(StepName) /\ Len(s) \in Nat \ {0} /\ t1 \in Seq(StepName) /\ Len(t1) = Len(s) - 1
      /\ \A i \in 1 .. Len(t1) : t1[i] = s[i + 1]
  BY <1>1, TailIs DEF Ordered
<1>5. Follows(s, 1, "fill") /\ Follows(s, 2, "journal")
  BY <1>4 DEF Ordered
<1>6. Len(s) > 2 /\ t1 # <<>> /\ t1[1] = "fill" /\ t1[2] = "journal"
  BY <1>4, <1>5 DEF Follows
<1>7. /\ t2 \in Seq(StepName) /\ Len(t2) = Len(t1) - 1
      /\ \A i \in 1 .. Len(t2) : t2[i] = t1[i + 1]
  BY <1>2, <1>4, <1>6, TailIs
<1>8. t2 # <<>> /\ t2[1] = "journal"
<2>1. Len(t2) > 0 /\ 1 \in 1 .. Len(t2)
  BY <1>4, <1>6, <1>7
<2>2. t2[1] = t1[1 + 1]
  BY <1>7, <2>1
<2> QED
  BY <1>6, <2>1, <2>2
<1>9. Ordered(kind, t1) /\ Ordered(kind, t2) /\ Ordered(kind, u)
  BY <1>1, <1>2, <1>3, <1>6, <1>8, Advances
<1>10. StepsIn(s) = {s[1]} \union StepsIn(t1)
  BY <1>1, HeadSays
<1>11. /\ StepsIn(t1) = {t1[1]} \union StepsIn(t2)
       /\ t1[1] \in Touches => /\ kind \in Captures => "snapshot" \in StepsIn(t2)
                               /\ kind \in Guides => "agents" \in StepsIn(t2)
                               /\ kind \in Pushes => "push" \in StepsIn(t2)
  BY <1>2, <1>6, <1>9, HeadSays
<1>12. /\ StepsIn(t2) = {t2[1]} \union StepsIn(u)
       /\ u # <<>> /\ u[1] = "replace" => t2[1] = "read"
       /\ u # <<>> /\ u[1] = "archive" => t2[1] = "replace"
  BY <1>3, <1>8, <1>9, HeadSays
<1>13. \A i \in 1 .. Len(u) : u[i] = "journal" => \E m \in 1 .. (i - 1) : u[m] \in Writers
  BY <1>3, <1>8, <1>9, JournalsPart
<1>14. u # <<>> => u[1] \notin {"replace", "archive"}
  BY <1>8, <1>12
<1>15. StepsIn(u) \subseteq StepsIn(s)
  BY <1>10, <1>11, <1>12
<1>16. /\ kind \in Captures => "snapshot" \in StepsIn(u)
       /\ kind \in Guides => "agents" \in StepsIn(u)
       /\ kind \in Pushes => "push" \in StepsIn(u)
  BY <1>6, <1>8, <1>11, <1>12 DEF Touches, Writers
<1> QED
  BY <1>9, <1>13, <1>14, <1>15, <1>16

LEMMA TruncateKeeps ==
  ASSUME WInv, TruncateProject
  PROVE  WInv'
<1>1. PICK j : j = job
  OBVIOUS
<1>2. /\ Due("truncate")
      /\ UNCHANGED <<hosting, legacy, history, bodies, gone, events, derived, begun, minted, mishaps, retouches,
                     carried>>
  BY DEF TruncateProject
<1>3. /\ job # Idle /\ j \in Jobs /\ j.todo # <<>> /\ j.todo[1] = "truncate" /\ Ordered(j.kind, j.todo)
      /\ Rest = Tail(j.todo)
  BY <1>1, <1>2, AtHand
<1>4. Types
  BY DEF WInv
<1>5. j = [j EXCEPT !.degraded = j.degraded] /\ j.degraded \in SUBSET Derives
  BY <1>3 DEF Jobs
<1>6. CASE store' = [store EXCEPT !.project = Cut] /\ GoOn(job, Rest)
<2>1. store' \in [Part -> Versions'] /\ store'["state"] = store["state"]
<3>1. Cut \in Versions' /\ Versions' = Versions
  BY <1>2, <1>4 DEF Types, Versions, Cut
<3> QED
  BY <1>4, <1>6, <3>1 DEF Types, Part
<2>2. Aside
  BY <1>2, <2>1 DEF Aside
<2>3. report' \in Reports => Types'
  BY <1>2, <1>4, <2>1 DEF Types, Versions, events, derived
<2>4. UpToDate(j.kind, StepsIn(Tail(j.todo)))'
  BY <1>3, Ahead DEF UpToDate, Touches
<2> QED
  BY <1>1, <1>2, <1>5, <1>6, <2>2, <2>3, <2>4, PassKeeps
<1>7. CASE store' = store /\ GoOn(job, Tail(Tail(Rest)))
<2>0. PICK s : s = j.todo
  OBVIOUS
<2>1. PICK u : u = Tail(Tail(Tail(s)))
  OBVIOUS
<2>2. /\ Ordered(j.kind, u) /\ StepsIn(u) \subseteq StepsIn(s)
      /\ u # <<>> => u[1] \notin {"replace", "archive"}
      /\ \A i \in 1 .. Len(u) : u[i] = "journal" => \E m \in 1 .. (i - 1) : u[m] \in Writers
      /\ j.kind \in Captures => "snapshot" \in StepsIn(u)
      /\ j.kind \in Guides => "agents" \in StepsIn(u)
      /\ j.kind \in Pushes => "push" \in StepsIn(u)
<3>1. Ordered(j.kind, s) /\ s # <<>> /\ s[1] = "truncate"
  BY <1>3, <2>0
<3> HIDE <2>0
<3> QED
  BY <2>1, <3>1, PassedOver
<2>3. Aside
  BY <1>2, <1>7 DEF Aside
<2>4. report' \in Reports => Types'
  BY <1>2, <1>4, <1>7 DEF Types, Versions, events, derived
<2>5. UpToDate(j.kind, StepsIn(u))'
  BY <2>2 DEF UpToDate
<2>6. GoOn(j, u)
  BY <1>1, <1>3, <1>7, <2>0, <2>1
<2> QED
  BY <1>1, <1>3, <1>5, <2>0, <2>2, <2>3, <2>4, <2>5, <2>6, AsideKeeps DEF Pending
<1> QED
  BY <1>6, <1>7 DEF TruncateProject

LEMMA JustJournal ==
  ASSUME NEW kind
  PROVE  Ordered(kind, <<"journal">>) /\ StepsIn(<<"journal">>) = {"journal"}
BY DEF Ordered, StepsIn, StepName, Writers, Touches, Derives, Follows, Later

LEMMA JustSnapshot ==
  ASSUME NEW kind
  PROVE  Ordered(kind, <<"snapshot">>) /\ StepsIn(<<"snapshot">>) = {"snapshot"}
BY DEF Ordered, StepsIn, StepName, Writers, Touches, Derives, Follows, Later

LEMMA JustNothing ==
  ASSUME NEW kind
  PROVE  Ordered(kind, <<>>) /\ StepsIn(<<>>) = {}
BY DEF Ordered, StepsIn, StepName

(* A tool refuses: its event is new, and it will write nothing.                *)
LEMMA RefuseKeeps ==
  ASSUME WInv, NEW CONSTANT step \in {"decide", "ask"}, RefusePart(step, Target(step))
  PROVE  WInv'
<1> DEFINE part == Target(step)
<1>1. PICK j : j = job
  OBVIOUS
<1>2. PICK n \in Nat : n = begun
  BY DEF WInv, Types
<1> DEFINE refused == Event(j.id, part, "rejected")
           w == [j EXCEPT !.event = refused]
           k == [w EXCEPT !.todo = <<"journal">>]
<1>3. /\ part \in Part \ {"state"} /\ step \in Writers /\ step \in Touches
      /\ step \notin {"journal", "read", "replace", "archive"}
  BY DEF Target, Part, Writers, Touches
<1>4. /\ Due(step) /\ j.kind \in Tools /\ carried' = carried \union {refused}
      /\ GoOn(w, <<"journal">>)
      /\ UNCHANGED <<hosting, stateFiles, events, derived, begun, minted, mishaps, retouches>>
  BY <1>1 DEF RefusePart
<1>5. /\ job # Idle /\ j \in Jobs /\ j.todo # <<>> /\ j.todo[1] = step /\ Ordered(j.kind, j.todo)
      /\ PlanKept(j) /\ EventKept(j) /\ Derived(j) /\ ~report.ok /\ report \in Reports
  BY <1>1, <1>4, AtHand
<1>6. Types /\ Bodies /\ Told
  BY DEF WInv
<1>7. /\ j.id \in 1 .. n /\ refused \in Events /\ refused.id = j.id /\ refused.target = part
      /\ refused # NoEvent
  BY <1>2, <1>3, <1>5 DEF EventKept, Events, Event, NoEvent, Statuses
<1>8. step \in Pending(j)
<2>1. PICK t : t = Tail(j.todo)
  OBVIOUS
<2>2. Pending(j) = {step} \union StepsIn(t)
  BY <1>5, <2>1, Ahead
<2> QED
  BY <2>2
<1> HIDE DEF part, refused
<1>9. /\ w \in Jobs /\ k \in Jobs /\ k.todo = <<"journal">> /\ k.kind = j.kind /\ k.id = j.id
      /\ k.event = refused /\ k.plan = j.plan /\ k.delta = j.delta /\ k.edited = j.edited
      /\ k.degraded = j.degraded /\ k.wrote = j.wrote
<2>1. <<"journal">> \in Seq(StepName)
  BY JustJournal DEF Ordered
<2> QED
  BY <1>5, <1>7, <2>1 DEF Jobs
<1>10. k = [w EXCEPT !.todo = <<"journal">>]
  OBVIOUS
<1> HIDE DEF w, k
<1>11. Pending(k) = {"journal"} /\ Ordered(k.kind, k.todo)
  BY <1>9, JustJournal DEF Pending
<1>12. ~HeadIs(k, "replace") /\ ~HeadIs(k, "archive") /\ ~HeadIs(j, "replace") /\ ~HeadIs(j, "archive")
  BY <1>3, <1>5, <1>9 DEF HeadIs
<1>13. "archive" \notin Pending(k)
  BY <1>11
<1>14. StateUnderWay(k)' /\ PlanKept(k)'
<2>1. StateUnderWay(k)'
  BY <1>12 DEF StateUnderWay
<2>2. PlanKept(k)'
  BY <1>4, <1>5, <1>9, <1>12, <1>13 DEF PlanKept, Updating, stateFiles
<2> QED
  BY <2>1, <2>2
<1>15. Bodies'
  BY <1>1, <1>4, <1>6, <1>12, BodiesKept DEF stateFiles
<1>16. Told'
  BY <1>2, <1>4, <1>6, <1>7, ToldKept
<1>17. EventKept(k)'
<2>1. journal' = journal /\ n = begun' /\ Readable(journal) \subseteq carried
  BY <1>2, <1>4, <1>6 DEF events, Told
<2>2. \A e \in Readable(journal) : e.id = j.id => Target(step) # e.target
  BY <1>3, <1>5, <1>8 DEF EventKept
<2>3. refused \in carried' \ Readable(journal')
  BY <1>4, <1>7, <2>1, <2>2 DEF part
<2>4. Pending(k) \intersect Writers = {}
  BY <1>11 DEF Writers
<2> QED
  BY <1>7, <1>9, <2>1, <2>3, <2>4 DEF EventKept
<1>18. Derived(k)'
<2>1. ~j.wrote
  BY <1>3, <1>4, <1>5, <1>8 DEF Derived
<2> QED
  BY <1>4, <1>9, <2>1 DEF Derived, Tools
<1>19. Carries(k)'
  BY <1>9, <1>11, <1>14, <1>17, <1>18 DEF Carries
<1>20. /\ Reported' /\ report' \in Reports
       /\ job' # Idle => (job' = k /\ job'.todo # <<>> /\ Carries(job)')
  BY <1>4, <1>5, <1>9, <1>10, <1>19, CommandGoesOn
<1>21. Types'
  BY <1>4, <1>6, <1>20 DEF Types, Versions, events, derived, stateFiles
<1> QED
  BY <1>15, <1>16, <1>20, <1>21 DEF WInv

-----------------------------------------------------------------------------
(* An update of the state file: read, replace, archive.                        *)

LEMMA Archives ==
  ASSUME NEW CONSTANT kind, NEW CONSTANT s, Ordered(kind, s), s # <<>>, s[1] = "read"
  PROVE  "archive" \in StepsIn(s)
<1>1. s \in Seq(StepName) /\ Len(s) \in Nat /\ 1 \in 1 .. Len(s)
  BY DEF Ordered
<1>2. Follows(s, 1, "replace")
  BY <1>1 DEF Ordered
<1>3. 2 \in 1 .. Len(s) /\ s[2] = "replace"
  BY <1>1, <1>2 DEF Follows
<1>4. Follows(s, 2, "archive")
  BY <1>3 DEF Ordered
<1>5. 3 \in 1 .. Len(s) /\ s[3] = "archive"
  BY <1>1, <1>4 DEF Follows
<1> QED
  BY <1>5 DEF StepsIn

(* There is no state file, of either time.                                    *)
LEMMA ReadNothingKeeps ==
  ASSUME WInv, ReadState, store["state"] = Absent, legacy = Absent
  PROVE  WInv'
<1>1. PICK j : j = job
  OBVIOUS
<1>2. PICK ss : ss = IF j.kind = "import" THEN <<"snapshot">> ELSE <<>>
  OBVIOUS
<1>3. /\ Due("read") /\ store' = store /\ GoOn(j, ss) /\ minted' = minted + 1
      /\ UNCHANGED <<hosting, legacy, history, bodies, gone, events, derived, begun, mishaps, retouches, carried>>
  BY <1>1, <1>2 DEF ReadState
<1>4. /\ job # Idle /\ j \in Jobs /\ j.todo # <<>> /\ j.todo[1] = "read" /\ Ordered(j.kind, j.todo)
      /\ Derived(j) /\ Rest = Tail(j.todo)
  BY <1>1, <1>3, AtHand
<1>5. PICK t : t = Tail(j.todo)
  OBVIOUS
<1>6. /\ j.kind \in {"state", "import"} /\ Pending(j) = {"read"} \union StepsIn(t)
      /\ j.kind \in Captures => "snapshot" \in StepsIn(t)
  BY <1>4, <1>5, Ahead DEF Touches
<1>7. "archive" \in Pending(j)
  BY <1>4, Archives DEF Pending
<1>8. Types
  BY DEF WInv
<1>9. Aside
  BY <1>3 DEF Aside
<1>10. report' \in Reports => Types'
  BY <1>3, <1>8, Widens DEF Types, events, derived
<1>11. j = [j EXCEPT !.degraded = j.degraded] /\ j.degraded \in SUBSET Derives
  BY <1>4 DEF Jobs
<1>12. CASE j.kind = "import"
<2>1. ss = <<"snapshot">> /\ ss[1] = "snapshot" /\ Len(ss) = 1
  BY <1>2, <1>12
<2>2. StepsIn(ss) = {"snapshot"} /\ Ordered(j.kind, ss)
  BY <2>1, JustSnapshot
<2>3. StepsIn(ss) \subseteq Pending(j)
  BY <1>6, <1>12, <2>2 DEF Captures
<2>4. \A i \in 1 .. Len(ss) : ss[i] = "journal" => \E m \in 1 .. (i - 1) : ss[m] \in Writers
  BY <2>1
<2>5. UpToDate(j.kind, StepsIn(ss))'
  BY <1>12, <2>2 DEF UpToDate, Guides, Pushes, Tools
<2> QED
  BY <1>1, <1>3, <1>4, <1>9, <1>10, <1>11, <2>1, <2>2, <2>3, <2>4, <2>5, AsideKeeps
<1>13. CASE j.kind = "state"
<2>1. ss = <<>> /\ Len(ss) = 0
  BY <1>2, <1>13
<2>2. StepsIn(ss) = {} /\ Ordered(j.kind, ss)
  BY <2>1, JustNothing
<2>3. \A i \in 1 .. Len(ss) : ss[i] = "journal" => \E m \in 1 .. (i - 1) : ss[m] \in Writers
  BY <2>1
<2>4. ~j.wrote /\ j.kind # "sync"
  BY <1>4, <1>7, <1>13 DEF Derived, Tools, Writers
<2> QED
  BY <1>1, <1>3, <1>4, <1>9, <1>10, <1>11, <2>1, <2>2, <2>3, <2>4, AsideKeeps
<1> QED
  BY <1>6, <1>12, <1>13

(* What the update replaces is read, and what it makes of the files planned.    *)
LEMMA ReadKeeps ==
  ASSUME WInv, ReadState, store["state"] # Absent \/ legacy # Absent
  PROVE  WInv'
<1>1. PICK j : j = job
  OBVIOUS
<1>2. PICK t : t = Tail(j.todo)
  OBVIOUS
<1>3. PICK prior : prior = IF store["state"] = Absent THEN legacy ELSE store["state"]
  OBVIOUS
<1>4. PICK m \in Nat : m = minted /\ m > 0
  BY DEF WInv, Types
<1>5. PICK plan : plan = PlanStateUpdate(store["state"], history, legacy, minted + 1)
  OBVIOUS
<1>6. Due("read")
  BY DEF ReadState
<1>7. /\ job # Idle /\ j \in Jobs /\ j.todo # <<>> /\ j.todo[1] = "read" /\ Rest = t
      /\ Ordered(j.kind, j.todo) /\ EventKept(j) /\ Derived(j) /\ ~report.ok /\ report \in Reports
      /\ j.todo \in Seq(StepName) /\ t \in Seq(StepName) /\ Ordered(j.kind, t)
  BY <1>1, <1>2, <1>6, AtHand
<1> DEFINE w == [j EXCEPT !.prior = prior, !.delta = m + 1, !.plan = plan]
           k == [w EXCEPT !.todo = t]
<1>8. /\ store' = [store EXCEPT !.state = prior] /\ minted' = m + 1 /\ GoOn(w, t)
      /\ UNCHANGED <<hosting, legacy, history, bodies, gone, events, derived, begun, mishaps, retouches, carried>>
  BY <1>1, <1>3, <1>4, <1>5, <1>7 DEF ReadState
<1>9. Types /\ Bodies /\ Told
  BY DEF WInv
<1>10. prior \in bodies \ {Absent} /\ prior \in -1 .. m /\ (prior # Blank => ~Archived(prior))
<2>1. CASE store["state"] = Absent
<3>1. legacy \in bodies \ {Absent} /\ history = <<>> /\ prior = legacy /\ legacy = 1
  BY <1>3, <1>9, <2>1 DEF Bodies, Types
<3> QED
  BY <1>4, <3>1 DEF Archived, Absent
<2>2. CASE store["state"] # Absent
<3>1. prior = store["state"] /\ prior \in -1 .. m
  BY <1>3, <1>4, <1>9, <2>2 DEF Types, Versions, Part
<3> QED
  BY <1>9, <2>2, <3>1 DEF Bodies
<2> QED
  BY <2>1, <2>2
<1>11. plan = [current |-> m + 1, history |-> IF prior = Blank THEN history ELSE Append(history, prior)]
  BY <1>3, <1>4, <1>5 DEF PlanStateUpdate
<1>12. plan \in Plans
<2>1. history \in Seq(Int) /\ prior \in Int
  BY <1>9, <1>10 DEF Types
<2> QED
  BY <1>11, <2>1 DEF Plans
<1>13. /\ w \in Jobs /\ k \in Jobs /\ k.todo = t /\ k.kind = j.kind /\ k.id = j.id /\ k.event = j.event
       /\ k.prior = prior /\ k.plan = plan /\ k.delta = m + 1 /\ k.edited = j.edited
       /\ k.degraded = j.degraded /\ k.wrote = j.wrote
<2>1. prior \in Int /\ m + 1 \in Int
  BY <1>10
<2>2. /\ w \in Jobs /\ w.kind = j.kind /\ w.id = j.id /\ w.event = j.event
      /\ w.prior = prior /\ w.plan = plan /\ w.delta = m + 1 /\ w.edited = j.edited
      /\ w.degraded = j.degraded /\ w.wrote = j.wrote
  BY <1>7, <1>12, <2>1 DEF Jobs
<2> HIDE DEF w
<2> QED
  BY <1>7, <2>2 DEF Jobs
<1>14. k = [w EXCEPT !.todo = t]
  OBVIOUS
<1> HIDE DEF w, k
<1>15. /\ t # <<>> /\ t[1] = "replace" /\ Pending(j) = {"read"} \union StepsIn(t)
       /\ j.kind \in Captures => "snapshot" \in StepsIn(t)
       /\ j.kind \in Guides => "agents" \in StepsIn(t)
       /\ j.kind \in Pushes => "push" \in StepsIn(t)
  BY <1>2, <1>7, Ahead DEF Touches
<1>16. Pending(k) = StepsIn(t) /\ Pending(k) \subseteq Pending(j)
  BY <1>13, <1>15 DEF Pending
<1>17. HeadIs(k, "replace") /\ ~HeadIs(k, "archive") /\ ~HeadIs(job, "archive")
  BY <1>1, <1>7, <1>13, <1>15 DEF HeadIs
<1>18. store'["state"] = prior /\ store' \in [Part -> Versions']
  BY <1>4, <1>8, <1>9, <1>10, Widens DEF Types, Versions, Part
<1>19. StateUnderWay(k)'
<2>1. m + 1 \in (1 .. minted') \ bodies
  BY <1>4, <1>8, <1>9 DEF Types, Versions
<2> QED
  BY <1>8, <1>10, <1>13, <1>17, <1>18, <2>1 DEF StateUnderWay, Archived
<1>20. PlanKept(k)'
  BY <1>8, <1>11, <1>13, <1>17 DEF PlanKept, Updating
<1>21. Bodies'
<2>1. UNCHANGED <<legacy, history, bodies, gone>>
  BY <1>8
<2>2. /\ store'["state"] \in bodies' /\ legacy' \in bodies' /\ store'["state"] # Absent
      /\ store'["state"] # Blank => ~Archived(store["state"])'
      /\ \A i \in 1 .. Len(history') : history'[i] \in bodies'
      /\ \A i, o \in 1 .. Len(history') : history'[i] = history'[o] => i = o
  BY <1>9, <1>10, <1>18, <2>1 DEF Bodies, Archived
<2>3. ASSUME NEW b \in bodies' \ {Absent, Blank}
      PROVE  Archived(b)' \/ b \in {store'["state"], legacy'} \union gone'
<3>1. Archived(b) \/ b \in {store["state"], legacy} \union gone
  BY <1>9, <1>17, <2>1 DEF Bodies
<3>2. b = store["state"] => b = prior
  BY <1>3
<3> QED
  BY <1>18, <2>1, <3>1, <3>2 DEF Archived
<2> QED
  BY <2>2, <2>3 DEF Bodies, Archived
<1>22. Told'
  BY <1>8, <1>9, ToldStands
<1>23. EventKept(k)'
<2>1. UNCHANGED <<journal, carried, begun>>
  BY <1>8 DEF events
<2>2. j.event = NoEvent =>
        \A i \in 1 .. Len(t) : t[i] = "journal" => \E o \in 1 .. (i - 1) : t[o] \in Writers
<3>1. ASSUME j.event = NoEvent
      PROVE  \A i \in 1 .. Len(j.todo) : j.todo[i] = "journal" =>
               \E o \in 1 .. (i - 1) : j.todo[o] \in Writers
  BY <1>7, <3>1 DEF EventKept
<3>2. j.todo[1] \notin Writers
  BY <1>7 DEF Writers
<3> QED
  BY <1>2, <1>7, <3>1, <3>2, JournalsFollow
<2> QED
  BY <1>7, <1>13, <1>16, <2>1, <2>2, EventStands
<1>24. Derived(k)'
<2>1. k.kind \in Tools /\ k.wrote => Pending(k) \intersect Writers = {}
  BY <1>7, <1>13, <1>16 DEF Derived
<2>2. UpToDate(k.kind, Pending(k))'
  BY <1>13, <1>15, <1>16 DEF UpToDate
<2> QED
  BY <2>1, <2>2 DEF Derived, UpToDate
<1>25. Carries(k)'
  BY <1>7, <1>13, <1>19, <1>20, <1>23, <1>24 DEF Carries
<1>26. /\ Reported' /\ report' \in Reports
       /\ job' # Idle => (job' = k /\ job'.todo # <<>> /\ Carries(job)')
  BY <1>7, <1>8, <1>13, <1>14, <1>25, CommandGoesOn
<1>27. minted' \in {minted, minted + 1}
  BY <1>4, <1>8
<1>28. Types'
  BY <1>8, <1>9, <1>18, <1>26, <1>27, Widens DEF Types, events, derived
<1> QED
  BY <1>21, <1>22, <1>26, <1>28 DEF WInv

(* The state file is replaced; the body it held is on its way to the history.    *)
LEMMA ReplaceKeeps ==
  ASSUME WInv, ReplaceState
  PROVE  WInv'
<1>1. PICK j : j = job
  OBVIOUS
<1>2. PICK t : t = Tail(j.todo)
  OBVIOUS
<1>3. Due("replace")
  BY DEF ReplaceState
<1>4. /\ job # Idle /\ j \in Jobs /\ j.todo # <<>> /\ j.todo[1] = "replace" /\ Rest = t
      /\ Ordered(j.kind, j.todo) /\ StateUnderWay(j) /\ PlanKept(j) /\ EventKept(j) /\ Derived(j)
      /\ ~report.ok /\ report \in Reports
      /\ j.todo \in Seq(StepName) /\ t \in Seq(StepName) /\ Ordered(j.kind, t)
  BY <1>1, <1>2, <1>3, AtHand
<1> DEFINE k == [j EXCEPT !.todo = t]
<1>5. /\ store' = [store EXCEPT !.state = j.delta] /\ bodies' = bodies \union {j.delta} /\ GoOn(j, t)
      /\ gone' = IF store.state # j.prior THEN gone \union {store["state"]} ELSE gone
      /\ UNCHANGED <<hosting, legacy, history, events, derived, begun, minted, mishaps, retouches, carried>>
  BY <1>1, <1>4 DEF ReplaceState
<1>6. Types /\ Bodies /\ Told
  BY DEF WInv
<1>7. /\ k \in Jobs /\ k.todo = t /\ k.kind = j.kind /\ k.id = j.id /\ k.event = j.event
      /\ k.prior = j.prior /\ k.plan = j.plan /\ k.delta = j.delta /\ k.edited = j.edited
      /\ k.degraded = j.degraded /\ k.wrote = j.wrote
  BY <1>4 DEF Jobs
<1>8. k = [j EXCEPT !.todo = t]
  OBVIOUS
<1> HIDE DEF k
<1>9. /\ t # <<>> /\ t[1] = "archive" /\ Pending(j) = {"replace"} \union StepsIn(t)
      /\ j.kind \in Captures => "snapshot" \in StepsIn(t)
      /\ j.kind \in Guides => "agents" \in StepsIn(t)
      /\ j.kind \in Pushes => "push" \in StepsIn(t)
  BY <1>2, <1>4, Ahead DEF Touches
<1>10. Pending(k) = StepsIn(t) /\ Pending(k) \subseteq Pending(j)
  BY <1>7, <1>9 DEF Pending
<1>11. /\ HeadIs(k, "archive") /\ ~HeadIs(k, "replace") /\ HeadIs(j, "replace")
       /\ ~HeadIs(job, "archive") /\ ~HeadIs(j, "archive")
  BY <1>1, <1>4, <1>7, <1>9 DEF HeadIs
<1>12. /\ j.prior \in bodies \ {Absent} /\ store["state"] # Absent
       /\ j.prior # Blank => ~Archived(j.prior)
       /\ j.delta \in (1 .. minted) \ bodies
  BY <1>4, <1>11 DEF StateUnderWay
<1>13. j.delta \in Versions /\ j.delta # Absent /\ j.delta # Blank /\ j.prior # j.delta
  BY <1>6, <1>12 DEF Versions, Types, Absent, Blank
<1>14. store'["state"] = j.delta /\ store' \in [Part -> Versions]
  BY <1>5, <1>6, <1>13 DEF Types, Part
<1>15. ~Archived(j.delta)
  BY <1>6, <1>12 DEF Archived, Bodies
<1>16. StateUnderWay(k)'
  BY <1>5, <1>7, <1>11, <1>12, <1>13, <1>14 DEF StateUnderWay, Archived
<1>17. PlanKept(k)'
  BY <1>4, <1>5, <1>7, <1>11, <1>14 DEF PlanKept, Updating
<1>18. EventKept(k)'
<2>1. UNCHANGED <<journal, carried, begun>>
  BY <1>5 DEF events
<2>2. j.event = NoEvent =>
        \A i \in 1 .. Len(t) : t[i] = "journal" => \E o \in 1 .. (i - 1) : t[o] \in Writers
<3>1. ASSUME j.event = NoEvent
      PROVE  \A i \in 1 .. Len(j.todo) : j.todo[i] = "journal" =>
               \E o \in 1 .. (i - 1) : j.todo[o] \in Writers
  BY <1>4, <3>1 DEF EventKept
<3>2. j.todo[1] \notin Writers
  BY <1>4 DEF Writers
<3> QED
  BY <1>2, <1>4, <3>1, <3>2, JournalsFollow
<2> QED
  BY <1>4, <1>7, <1>10, <2>1, <2>2, EventStands
<1>19. Derived(k)'
<2>1. k.kind \in Tools /\ k.wrote => Pending(k) \intersect Writers = {}
  BY <1>4, <1>7, <1>10 DEF Derived
<2>2. UpToDate(k.kind, Pending(k))'
  BY <1>7, <1>9, <1>10 DEF UpToDate
<2> QED
  BY <2>1, <2>2 DEF Derived, UpToDate
<1>20. Carries(k)'
  BY <1>4, <1>7, <1>16, <1>17, <1>18, <1>19 DEF Carries
<1>21. /\ Reported' /\ report' \in Reports /\ job' = k
       /\ job' # Idle => (job' = k /\ job'.todo # <<>> /\ Carries(job)')
  BY <1>4, <1>5, <1>7, <1>8, <1>9, <1>20, CommandGoesOn
<1>22. Bodies'
<2>1. UNCHANGED <<legacy, history>> /\ gone \subseteq gone'
  BY <1>5
<2>2. /\ store'["state"] \in bodies' /\ legacy' \in bodies' /\ store'["state"] # Absent
      /\ ~Archived(store["state"])'
      /\ \A i \in 1 .. Len(history') : history'[i] \in bodies'
      /\ \A i, o \in 1 .. Len(history') : history'[i] = history'[o] => i = o
  BY <1>5, <1>6, <1>13, <1>14, <1>15, <2>1 DEF Bodies, Archived
<2>3. ASSUME NEW b \in bodies' \ {Absent, Blank}
      PROVE  \/ Archived(b)' \/ b \in {store'["state"], legacy'} \union gone'
             \/ HeadIs(job', "archive") /\ b = job'.prior
<3>1. b # j.delta => Archived(b) \/ b \in {store["state"], legacy} \union gone
  BY <1>5, <1>6, <1>11 DEF Bodies
<3>2. b = store["state"] => b = j.prior \/ b \in gone'
  BY <1>5
<3>3. HeadIs(job', "archive") /\ job'.prior = j.prior
  BY <1>7, <1>11, <1>21
<3> QED
  BY <1>14, <2>1, <3>1, <3>2, <3>3 DEF Archived
<2> QED
  BY <2>2, <2>3 DEF Bodies, Archived
<1>23. Told'
  BY <1>5, <1>6, ToldStands
<1>24. Types'
<2>1. bodies' \subseteq Versions /\ gone' \subseteq Versions
  BY <1>5, <1>6, <1>13 DEF Types, Part
<2> QED
  BY <1>5, <1>6, <1>14, <1>21, <2>1 DEF Types, Versions, events, derived
<1> QED
  BY <1>21, <1>22, <1>23, <1>24 DEF WInv

(* The body that was replaced gets to the history, unless it was blank.         *)
LEMMA ArchiveKeeps ==
  ASSUME WInv, ArchiveState
  PROVE  WInv'
<1>1. PICK j : j = job
  OBVIOUS
<1>2. PICK t : t = Tail(j.todo)
  OBVIOUS
<1>3. PICK n \in Nat : n = begun
  BY DEF WInv, Types
<1>4. Due("archive")
  BY DEF ArchiveState
<1>5. /\ job # Idle /\ j \in Jobs /\ j.todo # <<>> /\ j.todo[1] = "archive" /\ Rest = t
      /\ Ordered(j.kind, j.todo) /\ StateUnderWay(j) /\ PlanKept(j) /\ EventKept(j) /\ Derived(j)
      /\ ~report.ok /\ report \in Reports
      /\ j.todo \in Seq(StepName) /\ t \in Seq(StepName) /\ Ordered(j.kind, t)
  BY <1>1, <1>2, <1>4, AtHand
<1> DEFINE done == Event(j.id, "state", "committed")
           w == [j EXCEPT !.event = done, !.wrote = TRUE]
           k == [w EXCEPT !.todo = t]
<1>6. /\ carried' = carried \union {done} /\ GoOn(w, t)
      /\ history' = IF j.prior = Blank THEN history ELSE Append(history, j.prior)
      /\ UNCHANGED <<hosting, store, legacy, bodies, gone, events, derived, begun, minted, mishaps, retouches>>
  BY <1>1, <1>5 DEF ArchiveState
<1>7. Types /\ Bodies /\ Told
  BY DEF WInv
<1>8. /\ j.id \in 1 .. n /\ done \in Events /\ done.id = j.id /\ done.target = "state" /\ done # NoEvent
  BY <1>3, <1>5 DEF EventKept, Events, Event, NoEvent, Statuses, Part
<1> HIDE DEF done
<1>9. /\ w \in Jobs /\ k \in Jobs /\ k.todo = t /\ k.kind = j.kind /\ k.id = j.id /\ k.event = done
      /\ k.prior = j.prior /\ k.plan = j.plan /\ k.delta = j.delta /\ k.edited = j.edited
      /\ k.degraded = j.degraded /\ k.wrote
  BY <1>5, <1>8 DEF Jobs
<1>10. k = [w EXCEPT !.todo = t]
  OBVIOUS
<1> HIDE DEF w, k
<1>11. /\ t # <<>> => t[1] \notin {"replace", "archive"}
       /\ "archive" \notin StepsIn(t) /\ Pending(j) = {"archive"} \union StepsIn(t)
       /\ j.kind \in Captures => "snapshot" \in StepsIn(t)
       /\ j.kind \in Guides => "agents" \in StepsIn(t)
       /\ j.kind \in Pushes => "push" \in StepsIn(t)
       /\ j.kind \in Tools => StepsIn(t) \intersect Writers = {}
<2>1. /\ t # <<>> /\ t[1] = "replace" => "archive" = "read"
      /\ t # <<>> /\ t[1] = "archive" => "archive" = "replace"
      /\ "archive" \notin StepsIn(t) /\ Pending(j) = {"archive"} \union StepsIn(t)
      /\ j.kind \in Captures => "snapshot" \in StepsIn(t)
      /\ j.kind \in Guides => "agents" \in StepsIn(t)
      /\ j.kind \in Pushes => "push" \in StepsIn(t)
      /\ j.kind \in Tools => StepsIn(t) \intersect Writers = {}
  BY <1>2, <1>5, Ahead DEF Touches, Writers
<2> QED
  BY <2>1
<1>12. Pending(k) = StepsIn(t)
  BY <1>9 DEF Pending
<1>13. ~HeadIs(k, "archive") /\ ~HeadIs(k, "replace") /\ HeadIs(j, "archive")
  BY <1>5, <1>9, <1>11 DEF HeadIs
<1>14. /\ j.prior \in bodies \ {Absent} /\ store["state"] # Absent
       /\ j.prior # Blank => ~Archived(j.prior)
       /\ j.prior = Blank \/ j.prior # store["state"]
  BY <1>5, <1>13 DEF StateUnderWay
<1>15. StateUnderWay(k)'
  BY <1>13 DEF StateUnderWay
<1>16. PlanKept(k)'
  BY <1>5, <1>6, <1>9, <1>11, <1>12, <1>13 DEF PlanKept, Updating
<1>17. EventKept(k)'
<2>1. journal' = journal /\ n = begun' /\ Readable(journal) \subseteq carried
  BY <1>3, <1>6, <1>7 DEF events, Told
<2>2. \A e \in Readable(journal) : e.id = j.id =>
        \A other \in Pending(j) \intersect Writers : Target(other) # e.target
  BY <1>5 DEF EventKept
<2>3. "archive" \in Pending(j) \intersect Writers /\ Target("archive") = "state"
  BY <1>11 DEF Writers, Target
<2>4. done \in carried' \ Readable(journal')
  BY <1>6, <1>8, <2>1, <2>2, <2>3
<2>5. \A other \in Pending(k) \intersect Writers : Target(other) # "state"
  BY <1>11, <1>12 DEF Target, Writers
<2> QED
  BY <1>8, <1>9, <1>11, <1>12, <2>1, <2>2, <2>4, <2>5 DEF EventKept
<1>18. Derived(k)'
  BY <1>9, <1>11, <1>12 DEF Derived, UpToDate
<1>19. Carries(k)'
  BY <1>5, <1>9, <1>15, <1>16, <1>17, <1>18 DEF Carries
<1>20. /\ Reported' /\ report' \in Reports
       /\ job' # Idle => (job' = k /\ job'.todo # <<>> /\ Carries(job)')
  BY <1>5, <1>6, <1>9, <1>10, <1>19, CommandGoesOn
<1>21. history' \in Seq(1 .. minted)
<2>1. j.prior \in -1 .. minted /\ minted \in Nat /\ history \in Seq(1 .. minted)
  BY <1>7, <1>14 DEF Types, Versions
<2>2. CASE j.prior = Blank
  BY <1>6, <2>1, <2>2
<2>3. CASE j.prior # Blank
<3>1. j.prior # -1 /\ j.prior # 0
  BY <1>14, <2>3 DEF Absent, Blank
<3>2. j.prior \in 1 .. minted
  BY <2>1, <3>1
<3> QED
  BY <1>6, <2>1, <2>3, <3>2
<2> QED
  BY <2>2, <2>3
<1>22. Bodies'
<2>1. CASE j.prior = Blank
<3>1. UNCHANGED <<store, legacy, history, bodies, gone>>
  BY <1>6, <2>1
<3> QED
  BY <1>1, <1>7, <2>1, <3>1 DEF Bodies, Archived
<2>2. CASE j.prior # Blank
<3>1. /\ history \in Seq(1 .. minted) /\ Len(history) \in Nat
      /\ Len(history') = Len(history) + 1 /\ history'[Len(history) + 1] = j.prior
      /\ \A i \in 1 .. Len(history) : history'[i] = history[i]
  BY <1>6, <1>7, <2>2 DEF Types
<3>2. \A b : Archived(b)' <=> Archived(b) \/ b = j.prior
  BY <3>1 DEF Archived
<3>3. \A i \in 1 .. Len(history') : history'[i] \in bodies
  BY <1>7, <1>14, <3>1 DEF Bodies
<3>4. ~Archived(j.prior)
  BY <1>14, <2>2
<3>5. ASSUME NEW i \in 1 .. Len(history'), NEW o \in 1 .. Len(history'), history'[i] = history'[o]
      PROVE  i = o
<4>1. (i \in 1 .. Len(history) \/ i = Len(history) + 1) /\ (o \in 1 .. Len(history) \/ o = Len(history) + 1)
  BY <3>1
<4> QED
  BY <1>7, <3>1, <3>4, <3>5, <4>1 DEF Bodies, Archived
<3>6. PICK q : q = store["state"]
  OBVIOUS
<3>8. ~Archived(q)' \/ q = Blank
<4>1. ~Archived(q) \/ q = Blank
  BY <1>7, <3>6 DEF Bodies
<4>2. q # j.prior
  BY <1>14, <2>2, <3>6
<4> QED
  BY <3>2, <4>1, <4>2
<3>9. /\ store'["state"] = q /\ UNCHANGED <<legacy, bodies, gone>> /\ q \in bodies /\ legacy \in bodies
      /\ q # Absent
  BY <1>6, <1>7, <1>14, <3>6 DEF Bodies
<3>7. \A b \in bodies \ {Absent, Blank} :
        Archived(b)' \/ b \in {store["state"], legacy} \union gone
  BY <1>1, <1>7, <3>2 DEF Bodies
<3> QED
  BY <3>3, <3>5, <3>6, <3>7, <3>8, <3>9 DEF Bodies, Archived
<2> QED
  BY <2>1, <2>2
<1>23. Told'
  BY <1>3, <1>6, <1>7, <1>8, ToldKept
<1>24. Types'
  BY <1>6, <1>7, <1>20, <1>21 DEF Types, Versions, events, derived
<1> QED
  BY <1>20, <1>22, <1>23, <1>24 DEF WInv

-----------------------------------------------------------------------------
(* The journal.                                                              *)

(* No event is read twice.                                                   *)
Once(lines) ==
  \A i, k \in 1 .. Len(lines) :
    lines[i].readable /\ lines[k].readable /\ lines[i].event = lines[k].event => i = k

LEMMA ClosedSame ==
  ASSUME NEW lines \in Seq(Lines)
  PROVE  /\ Closed(lines) \in Seq(Lines) /\ Len(Closed(lines)) = Len(lines)
         /\ \A i \in 1 .. Len(lines) : /\ Closed(lines)[i].event = lines[i].event
                                       /\ Closed(lines)[i].readable = lines[i].readable
<1>1. CASE lines = <<>>
  BY <1>1 DEF Closed
<1>2. CASE lines # <<>>
<2>1. Len(lines) \in 1 .. Len(lines)
  BY <1>2
<2>2. PICK x \in Lines : x = lines[Len(lines)]
  BY <2>1
<2>3. PICK q : q = [x EXCEPT !.ended = TRUE]
  OBVIOUS
<2>4. q \in Lines /\ q.event = x.event /\ q.readable = x.readable
  BY <2>3 DEF Lines
<2>5. Closed(lines) = [lines EXCEPT ![Len(lines)].ended = TRUE]
  BY <1>2 DEF Closed
<2>6. Closed(lines) = [lines EXCEPT ![Len(lines)] = q] /\ q \in Lines
  BY <2>2, <2>3, <2>4, <2>5
<2>7. Closed(lines) \in Seq(Lines) /\ Len(Closed(lines)) = Len(lines)
  BY <2>1, <2>6
<2>8. \A i \in 1 .. Len(lines) : Closed(lines)[i] = IF i = Len(lines) THEN q ELSE lines[i]
  BY <2>1, <2>6
<2> QED
  BY <2>2, <2>4, <2>7, <2>8
<1> QED
  BY <1>1, <1>2

(* a is these lines and one more.                                            *)
Longer(a, lines, last) ==
  /\ a \in Seq(Lines) /\ Len(a) = Len(lines) + 1 /\ a[Len(lines) + 1] = last
  /\ \A i \in 1 .. Len(lines) : a[i].event = lines[i].event /\ a[i].readable = lines[i].readable

LEMMA AppendedSays ==
  ASSUME NEW lines \in Seq(Lines), NEW line \in Lines
  PROVE  Longer(Appended(lines, line), lines, line)
<1>0. PICK a : a = Appended(lines, line)
  OBVIOUS
<1>1. PICK c : c = Closed(lines)
  OBVIOUS
<1>2. /\ c \in Seq(Lines) /\ Len(c) = Len(lines)
      /\ \A i \in 1 .. Len(lines) : c[i].event = lines[i].event /\ c[i].readable = lines[i].readable
  BY <1>1, ClosedSame
<1>3. a = Append(c, line)
  BY <1>0, <1>1 DEF Appended
<1>4. /\ a \in Seq(Lines) /\ Len(a) = Len(c) + 1 /\ a[Len(c) + 1] = line
      /\ \A i \in 1 .. Len(c) : a[i] = c[i]
  BY <1>2, <1>3
<1>5. Longer(a, lines, line)
  BY <1>2, <1>4 DEF Longer
<1> QED
  BY <1>0, <1>5

(* A whole line is read back, and the others as before.                         *)
LEMMA AppendsWhole ==
  ASSUME NEW lines \in Seq(Lines), Once(lines), NEW e, NEW last \in Lines,
         last.readable, last.event = e, e \notin Readable(lines), NEW a, a = Appended(lines, last)
  PROVE  /\ a \in Seq(Lines) /\ Once(a)
         /\ Readable(lines) \subseteq Readable(a)
         /\ Readable(a) \subseteq Readable(lines) \union {e}
         /\ e \in Readable(a)
<1>0. Longer(a, lines, last)
  BY AppendedSays
<1>1. PICK n \in Nat : n = Len(lines)
  OBVIOUS
<1>2. a \in Seq(Lines) /\ Len(a) = n + 1 /\ a[n + 1] = last
  BY <1>1, <1>0 DEF Longer
<1>3. \A i \in 1 .. n : a[i].event = lines[i].event
  BY <1>1, <1>0 DEF Longer
<1>4. \A i \in 1 .. n : a[i].readable = lines[i].readable
  BY <1>1, <1>0 DEF Longer
<1>5. \A i \in 1 .. Len(a) : i \in 1 .. n \/ i = n + 1
  BY <1>1, <1>2
<1>6. \A i \in 1 .. n : i \in 1 .. Len(a)
  BY <1>1, <1>2
<1>7. Readable(lines) \subseteq Readable(a)
  BY <1>1, <1>3, <1>4, <1>6 DEF Readable
<1>8. Readable(a) \subseteq Readable(lines) \union {e}
  BY <1>1, <1>2, <1>3, <1>4, <1>5 DEF Readable
<1>9. e \in Readable(a)
<2>1. n + 1 \in 1 .. Len(a)
  BY <1>1, <1>2
<2> QED
  BY <1>2, <2>1 DEF Readable
<1>10. ASSUME NEW o \in 1 .. n, a[o].readable, a[o].event = e PROVE FALSE
  BY <1>1, <1>3, <1>4, <1>10 DEF Readable
<1>11. ASSUME NEW i \in 1 .. Len(a), NEW k \in 1 .. Len(a),
              a[i].readable, a[k].readable, a[i].event = a[k].event
       PROVE  i = k
<2>1. CASE i \in 1 .. n /\ k \in 1 .. n
<3>1. lines[i].readable /\ lines[k].readable /\ lines[i].event = lines[k].event
  BY <1>3, <1>4, <1>11, <2>1
<3> QED
  BY <1>1, <2>1, <3>1 DEF Once
<2> QED
  BY <1>2, <1>5, <1>10, <1>11, <2>1
<1>12. Once(a)
  BY <1>11 DEF Once
<1> QED
  BY <1>2, <1>7, <1>8, <1>9, <1>12

(* A broken line is passed over.                                               *)
LEMMA AppendsBroken ==
  ASSUME NEW lines \in Seq(Lines), Once(lines), NEW last \in Lines,
         ~last.readable, NEW a, a = Appended(lines, last)
  PROVE  a \in Seq(Lines) /\ Once(a) /\ Readable(a) = Readable(lines)
<1>0. Longer(a, lines, last)
  BY AppendedSays
<1>1. PICK n \in Nat : n = Len(lines)
  OBVIOUS
<1>2. a \in Seq(Lines) /\ Len(a) = n + 1 /\ a[n + 1] = last
  BY <1>1, <1>0 DEF Longer
<1>3. \A i \in 1 .. n : a[i].event = lines[i].event
  BY <1>1, <1>0 DEF Longer
<1>4. \A i \in 1 .. n : a[i].readable = lines[i].readable
  BY <1>1, <1>0 DEF Longer
<1>5. \A i \in 1 .. Len(a) : i \in 1 .. n \/ i = n + 1
  BY <1>1, <1>2
<1>6. \A i \in 1 .. n : i \in 1 .. Len(a)
  BY <1>1, <1>2
<1>7. Readable(lines) \subseteq Readable(a)
  BY <1>1, <1>3, <1>4, <1>6 DEF Readable
<1>8. Readable(a) \subseteq Readable(lines)
  BY <1>1, <1>2, <1>3, <1>4, <1>5 DEF Readable
<1>9. ASSUME NEW i \in 1 .. Len(a), NEW k \in 1 .. Len(a),
             a[i].readable, a[k].readable, a[i].event = a[k].event
      PROVE  i = k
<2>1. i \in 1 .. n /\ k \in 1 .. n
  BY <1>2, <1>5, <1>9
<2>2. lines[i].readable /\ lines[k].readable /\ lines[i].event = lines[k].event
  BY <1>3, <1>4, <1>9, <2>1
<2> QED
  BY <1>1, <2>1, <2>2 DEF Once
<1>10. Once(a)
  BY <1>9 DEF Once
<1> QED
  BY <1>2, <1>7, <1>8, <1>10

LEMMA PartlyRecorded ==
  ASSUME NEW lines \in Seq(Lines), Once(lines), NEW e \in Events, e \notin Readable(lines),
         NEW a \in Partly(lines, e)
  PROVE  /\ a \in Seq(Lines) /\ Once(a)
         /\ Readable(lines) \subseteq Readable(a)
         /\ Readable(a) \subseteq Readable(lines) \union {e}
<1>1. CASE a = lines
  BY <1>1
<1>2. CASE a = Closed(lines)
<2>1. a \in Seq(Lines) /\ Len(a) = Len(lines)
  BY <1>2, ClosedSame
<2>2. \A i \in 1 .. Len(lines) : a[i].event = lines[i].event
  BY <1>2, ClosedSame
<2>3. \A i \in 1 .. Len(lines) : a[i].readable = lines[i].readable
  BY <1>2, ClosedSame
<2>4. Readable(a) = Readable(lines)
  BY <2>1, <2>2, <2>3 DEF Readable
<2>5. Once(a)
  BY <2>1, <2>2, <2>3 DEF Once
<2> QED
  BY <2>1, <2>4, <2>5
<1>3. CASE a = Appended(lines, Line(e, FALSE, FALSE))
<2>1. PICK last : last = Line(e, FALSE, FALSE)
  OBVIOUS
<2>2. last \in Lines /\ ~last.readable
  BY <2>1 DEF Line, Lines
<2>3. a = Appended(lines, last)
  BY <1>3, <2>1
<2>4. a \in Seq(Lines) /\ Once(a) /\ Readable(a) = Readable(lines)
  BY <2>2, <2>3, AppendsBroken
<2> QED
  BY <2>4
<1>4. CASE a = Appended(lines, Line(e, TRUE, FALSE))
<2>1. PICK last : last = Line(e, TRUE, FALSE)
  OBVIOUS
<2>2. last \in Lines /\ last.readable /\ last.event = e
  BY <2>1 DEF Line, Lines
<2>3. a = Appended(lines, last)
  BY <1>4, <2>1
<2> QED
  BY <2>2, <2>3, AppendsWhole
<1> QED
  BY <1>1, <1>2, <1>3, <1>4 DEF Partly

(* A command at its journal step has an event to record, which is new.          *)
LEMMA HasEvent ==
  ASSUME WInv, NEW CONSTANT j, j = job, Due("journal")
  PROVE  j.event # NoEvent /\ j.event \in Events /\ j.event \in carried \ Readable(journal)
<1>1. PICK t : t = Tail(j.todo)
  OBVIOUS
<1>2. /\ j \in Jobs /\ j.todo # <<>> /\ j.todo[1] = "journal" /\ j.todo \in Seq(StepName) /\ EventKept(j)
  BY <1>1, AtHand
<1>3. 1 \in 1 .. Len(j.todo)
  BY <1>2
<1>4. j.event # NoEvent
<2> SUFFICES ASSUME j.event = NoEvent PROVE FALSE
  OBVIOUS
<2>1. \E m \in 1 .. (1 - 1) : j.todo[m] \in Writers
  BY <1>2, <1>3 DEF EventKept
<2> QED
  BY <2>1
<1> QED
  BY <1>2, <1>4 DEF EventKept, Jobs

LEMMA JournalKeeps ==
  ASSUME WInv, Journal
  PROVE  WInv'
<1>1. PICK j : j = job
  OBVIOUS
<1>2. PICK t : t = Tail(j.todo)
  OBVIOUS
<1>3. Due("journal")
  BY DEF Journal
<1>4. /\ job # Idle /\ j \in Jobs /\ j.todo # <<>> /\ j.todo[1] = "journal" /\ Rest = t
      /\ Ordered(j.kind, j.todo) /\ EventKept(j) /\ Derived(j) /\ ~report.ok /\ report \in Reports
      /\ t \in Seq(StepName) /\ Ordered(j.kind, t)
  BY <1>1, <1>2, <1>3, AtHand
<1>5. j.event # NoEvent /\ j.event \in Events /\ j.event \in carried \ Readable(journal)
  BY <1>1, <1>3, HasEvent
<1>6. Types /\ Bodies /\ Told
  BY DEF WInv
<1> DEFINE w == [j EXCEPT !.event = NoEvent]
           k == [w EXCEPT !.todo = t]
<1>7. /\ GoOn(w, t) /\ UNCHANGED <<hosting, stateFiles, derived, begun, minted, retouches, carried>>
      /\ mishaps' \in {mishaps, mishaps + 1}
  BY <1>1, <1>4 DEF Journal, Mishap
<1>8. /\ w \in Jobs /\ k \in Jobs /\ k.todo = t /\ k.kind = j.kind /\ k.id = j.id /\ k.event = NoEvent
      /\ k.prior = j.prior /\ k.plan = j.plan /\ k.delta = j.delta /\ k.edited = j.edited
      /\ k.degraded = j.degraded /\ k.wrote = j.wrote
<2>1. NoEvent \in Events
  BY DEF NoEvent, Event, Events, Statuses
<2> QED
  BY <1>4, <2>1 DEF Jobs
<1>9. k = [w EXCEPT !.todo = t]
  OBVIOUS
<1> HIDE DEF w, k
<1>10. /\ t # <<>> => t[1] \notin {"replace", "archive"}
       /\ Pending(j) = {"journal"} \union StepsIn(t)
<2>1. /\ t # <<>> /\ t[1] = "replace" => "journal" = "read"
      /\ t # <<>> /\ t[1] = "archive" => "journal" = "replace"
      /\ Pending(j) = {"journal"} \union StepsIn(t)
  BY <1>2, <1>4, Ahead
<2> QED
  BY <2>1
<1>11. Pending(k) = StepsIn(t) /\ Pending(k) \subseteq Pending(j)
  BY <1>8, <1>10 DEF Pending
<1>12. ~HeadIs(k, "replace") /\ ~HeadIs(k, "archive") /\ ~HeadIs(job, "archive")
  BY <1>1, <1>4, <1>8, <1>10 DEF HeadIs
<1>13. /\ store' = store /\ UNCHANGED <<legacy, history, bodies, gone>>
       /\ shot' = shot /\ agents' = agents /\ held' = held /\ hosting' = hosting
  BY <1>7 DEF stateFiles, derived
<1>14. StateUnderWay(k)' /\ PlanKept(k)'
  BY <1>1, <1>4, <1>8, <1>11, <1>12, <1>13, StateKept
<1>15. Bodies'
  BY <1>6, <1>12, <1>13, BodiesKept
<1>16. Once(journal) /\ journal \in Seq(Lines)
  BY <1>6 DEF Told, Once, Types
<1>17. /\ journal' \in Seq(Lines) /\ Once(journal') /\ Readable(journal) \subseteq Readable(journal')
       /\ Readable(journal') \subseteq Readable(journal) \union {j.event}
       /\ logged' \subseteq Readable(journal')
<2>1. CASE journal' = Appended(journal, Line(j.event, TRUE, TRUE)) /\ logged' = logged \union {j.event}
<3>1. logged \subseteq Readable(journal)
  BY <1>6 DEF Told
<3>2. PICK last : last = Line(j.event, TRUE, TRUE)
  OBVIOUS
<3>3. last \in Lines /\ last.readable /\ last.event = j.event
  BY <1>5, <3>2 DEF Line, Lines
<3>4. PICK a : a = journal'
  OBVIOUS
<3>5. a = Appended(journal, last)
  BY <2>1, <3>2, <3>4
<3>6. PICK e : e = j.event
  OBVIOUS
<3>7. last.event = e /\ e \notin Readable(journal)
  BY <1>5, <3>3, <3>6
<3>8. /\ a \in Seq(Lines) /\ Once(a) /\ Readable(journal) \subseteq Readable(a)
      /\ Readable(a) \subseteq Readable(journal) \union {e} /\ e \in Readable(a)
  BY <1>16, <3>3, <3>5, <3>7, AppendsWhole
<3> QED
  BY <2>1, <3>1, <3>4, <3>6, <3>8
<2>2. CASE journal' \in Partly(journal, j.event) /\ logged' = logged
  BY <1>5, <1>6, <1>16, <2>2, PartlyRecorded DEF Told
<2> QED
  BY <1>1, <2>1, <2>2 DEF Journal
<1>18. Told'
  BY <1>5, <1>6, <1>7, <1>17 DEF Told, Once
<1>19. EventKept(k)'
<2>1. \A i \in 1 .. Len(t) : t[i] = "journal" => \E m \in 1 .. (i - 1) : t[m] \in Writers
  BY <1>2, <1>4, JournalsPart
<2>2. ASSUME NEW e \in Readable(journal'), e.id = j.id, NEW step \in Pending(k) \intersect Writers
      PROVE  Target(step) # e.target
<3>1. step \in Pending(j) \intersect Writers
  BY <1>11, <2>2
<3>2. CASE e = j.event
  BY <1>4, <1>5, <3>1, <3>2 DEF EventKept
<3>3. CASE e \in Readable(journal)
  BY <1>4, <2>2, <3>1, <3>3 DEF EventKept
<3> QED
  BY <1>17, <3>2, <3>3
<2>3. k.id \in 1 .. begun'
  BY <1>4, <1>7, <1>8 DEF EventKept
<2> QED
  BY <1>8, <2>1, <2>2, <2>3 DEF EventKept
<1>20. Derived(k)'
  BY <1>4, <1>8, <1>10, <1>11, <1>13 DEF Derived, UpToDate
<1>21. Carries(k)'
  BY <1>4, <1>8, <1>14, <1>19, <1>20 DEF Carries
<1>22. /\ Reported' /\ report' \in Reports
       /\ job' # Idle => (job' = k /\ job'.todo # <<>> /\ Carries(job)')
  BY <1>4, <1>7, <1>8, <1>9, <1>21, CommandGoesOn
<1>23. Types'
  BY <1>6, <1>7, <1>17, <1>22 DEF Types, Versions, stateFiles, derived
<1> QED
  BY <1>15, <1>18, <1>22, <1>23 DEF WInv

-----------------------------------------------------------------------------
(* A command begins, or is killed; a hand edits the state file; nothing happens. *)

LEMMA JournalsLast ==
  ASSUME NEW CONSTANT kind \in Kinds
  PROVE  /\ \A i \in 1 .. Len(Steps[kind]) : Steps[kind][i] = "journal" =>
              \E m \in 1 .. (i - 1) : Steps[kind][m] \in Writers
         /\ Steps[kind][1] \notin {"replace", "archive"}
         /\ kind = "sync" => {"snapshot", "agents", "push"} \subseteq StepsIn(Steps[kind])
<1>1. CASE kind = "propose"
  BY <1>1 DEF Steps, Writers
<1>2. CASE kind = "flag"
  BY <1>2 DEF Steps, Writers
<1>3. CASE kind = "state"
  BY <1>3 DEF Steps, Writers
<1>4. CASE kind = "note"
  BY <1>4 DEF Steps, Writers
<1>5. CASE kind = "inquire"
  BY <1>5 DEF Steps, Writers
<1>6. CASE kind = "import"
  BY <1>6 DEF Steps, Writers
<1>7. CASE kind = "sync"
  BY <1>7 DEF Steps, Writers, StepsIn
<1> QED
  BY <1>1, <1>2, <1>3, <1>4, <1>5, <1>6, <1>7 DEF Kinds

LEMMA BeginKeeps ==
  ASSUME WInv, NEW CONSTANT kind \in Kinds, Begin(kind)
  PROVE  WInv'
<1>1. PICK n \in Nat : n = begun
  BY DEF WInv, Types
<1>2. PICK ss : ss = Steps[kind]
  OBVIOUS
<1>3. /\ job = Idle /\ begun' = begun + 1 /\ report' = NoReport
      /\ UNCHANGED <<hosting, stateFiles, events, derived, minted, mishaps, retouches, carried>>
  BY DEF Begin
<1> DEFINE k == [id |-> n + 1, kind |-> kind, todo |-> ss, event |-> NoEvent, prior |-> Absent,
                 plan |-> NoPlan, delta |-> Absent, degraded |-> {}, edited |-> FALSE,
                 wrote |-> FALSE]
<1>4. job' = k
  BY <1>1, <1>2 DEF Begin, Idle
<1>5. Ordered(kind, ss) /\ ss # <<>> /\ ss \in Seq(StepName)
  BY <1>2, StepsOrdered DEF Ordered
<1>6. NoEvent \in Events /\ NoPlan \in Plans /\ NoReport \in Reports /\ ~NoReport.ok
  BY DEF NoEvent, Event, Events, Statuses, NoPlan, Plans, Absent, NoReport, Reports
<1>7. k \in Jobs
  BY <1>1, <1>5, <1>6 DEF Jobs, Absent
<1>8. /\ k.id = n + 1 /\ k.kind = kind /\ k.todo = ss /\ k.event = NoEvent /\ k.delta = Absent
      /\ k.degraded = {} /\ ~k.edited /\ ~k.wrote
  OBVIOUS
<1> HIDE DEF k
<1>9. ~HeadIs(k, "replace") /\ ~HeadIs(k, "archive")
  BY <1>2, <1>8, JournalsLast DEF HeadIs
<1>10. ~HeadIs(job, "archive")
  BY <1>3 DEF HeadIs, Idle
<1>11. UNCHANGED <<store, legacy, history, bodies, gone, journal, logged, shot, agents, held, owed>>
  BY <1>3 DEF stateFiles, events, derived
<1>12. Types /\ Bodies /\ Told
  BY DEF WInv
<1>13. Types'
  BY <1>3, <1>6, <1>11, <1>12 DEF Types, Versions
<1>14. Bodies'
  BY <1>10, <1>11, <1>12, BodiesKept
<1>15. Told'
<2>1. \A e \in carried : e \in Events /\ e.id \in 1 .. begun'
  BY <1>1, <1>3, <1>12 DEF Told
<2> QED
  BY <1>3, <1>11, <1>12, <2>1 DEF Told
<1>16. StateUnderWay(k)' /\ PlanKept(k)'
  BY <1>8, <1>9 DEF StateUnderWay, PlanKept
<1>17. EventKept(k)'
<2>1. k.id \in 1 .. begun'
  BY <1>1, <1>3, <1>8
<2>2. \A i \in 1 .. Len(k.todo) : k.todo[i] = "journal" =>
         \E m \in 1 .. (i - 1) : k.todo[m] \in Writers
  BY <1>2, <1>8, JournalsLast
<2>3. \A e \in Readable(journal) : e.id # k.id
  BY <1>1, <1>8, <1>12 DEF Told
<2> QED
  BY <1>8, <1>11, <2>1, <2>2, <2>3 DEF EventKept
<1>18. Derived(k)'
<2>1. kind = "sync" => {"snapshot", "agents", "push"} \subseteq Pending(k)
  BY <1>2, <1>8, JournalsLast DEF Pending
<2> QED
  BY <1>8, <2>1 DEF Derived, UpToDate
<1>19. Carries(k)'
  BY <1>5, <1>7, <1>8, <1>16, <1>17, <1>18 DEF Carries
<1>20. Carries(job)' /\ job'.todo # <<>>
  BY <1>4, <1>5, <1>8, <1>19 DEF Carries, StateUnderWay, PlanKept, EventKept, Derived, Updating, UpToDate, Archived
<1>21. Reported'
  BY <1>3, <1>6 DEF Reported
<1> QED
  BY <1>13, <1>14, <1>15, <1>20, <1>21 DEF WInv

LEMMA KillKeeps ==
  ASSUME WInv, Kill
  PROVE  WInv'
<1>1. PICK j : j = job
  OBVIOUS
<1>2. PICK t : t = Tail(j.todo)
  OBVIOUS
<1>3. /\ job # Idle /\ mishaps' = mishaps + 1 /\ Die
      /\ gone' = IF Due("archive") THEN gone \cup {job.prior} ELSE gone
      /\ UNCHANGED <<hosting, store, legacy, history, bodies, logged, derived, begun, minted, retouches, carried>>
  BY DEF Kill, Mishap
<1>4. Types /\ Bodies /\ Told
  BY DEF WInv
<1>5. /\ journal' \in Seq(Lines) /\ Once(journal') /\ Readable(journal) \subseteq Readable(journal')
      /\ Readable(journal') \subseteq carried
<2>1. Once(journal) /\ journal \in Seq(Lines) /\ Readable(journal) \subseteq carried
  BY <1>4 DEF Told, Once, Types
<2>2. CASE ~Due("journal")
<3>1. journal' = journal
  BY <2>2 DEF Kill
<3> QED
  BY <2>1, <3>1
<2>3. CASE Due("journal")
<3>1. j.event \in Events /\ j.event \in carried \ Readable(journal)
  BY <1>1, <2>3, HasEvent
<3>2. PICK e : e = j.event
  OBVIOUS
<3>3. journal' \in Partly(journal, e)
  BY <1>1, <2>3, <3>2 DEF Kill
<3>4. PICK a : a = journal'
  OBVIOUS
<3>5. /\ a \in Seq(Lines) /\ Once(a) /\ Readable(journal) \subseteq Readable(a)
      /\ Readable(a) \subseteq Readable(journal) \union {e}
  BY <2>1, <3>1, <3>2, <3>3, <3>4, PartlyRecorded
<3> QED
  BY <2>1, <3>1, <3>2, <3>4, <3>5
<2> QED
  BY <2>2, <2>3
<1>6. Told'
  BY <1>3, <1>4, <1>5 DEF Told, Once
<1>7. gone' \subseteq Versions /\ gone \subseteq gone' /\ (HeadIs(job, "archive") => job.prior \in gone')
<2>1. CASE Due("archive")
<3>1. StateUnderWay(j) /\ HeadIs(j, "archive")
  BY <1>1, <1>2, <2>1, AtHand DEF HeadIs
<3>2. j.prior \in bodies
  BY <3>1 DEF StateUnderWay
<3> QED
  BY <1>1, <1>3, <1>4, <2>1, <3>2 DEF Types
<2>2. CASE ~Due("archive")
  BY <1>3, <1>4, <2>2 DEF HeadIs, Due, Types
<2> QED
  BY <2>1, <2>2
<1>8. Bodies'
  BY <1>3, <1>4, <1>7 DEF Bodies, Archived
<1>9. report' \in Reports => Types'
  BY <1>3, <1>4, <1>5, <1>7 DEF Types, Versions, derived
<1> QED
  BY <1>3, <1>6, <1>8, <1>9, DieKeeps

(* A hand's edit takes the current body away; the command under way, if any, is   *)
(* no longer one that was carried through undisturbed.                         *)
LEMMA RetouchKeeps ==
  ASSUME WInv, Retouch
  PROVE  WInv'
<1>1. PICK j : j = job
  OBVIOUS
<1>2. /\ store["state"] # Absent /\ retouches' = retouches + 1 /\ minted' = minted + 1
      /\ gone' = gone \union {store["state"]} /\ report' = NoReport
      /\ UNCHANGED <<hosting, legacy, history, events, derived, begun, mishaps, carried>>
  BY DEF Retouch
<1>3. PICK body \in {minted + 1, Blank} :
        store' = [store EXCEPT !.state = body] /\ bodies' = bodies \union {body}
  BY DEF Retouch
<1>4. Types /\ Bodies /\ Told
  BY DEF WInv
<1>5. /\ minted \in Nat \ {0} /\ body # Absent /\ body \in Versions' /\ "state" \in Part
      /\ body \in Int /\ body \notin 1 .. minted
  BY <1>2, <1>4 DEF Types, Versions, Absent, Blank, Part
<1>6. /\ minted' \in Nat \ {0} /\ Versions \subseteq Versions'
      /\ store \in [Part -> Versions'] /\ shot \in [Part -> Versions']
      /\ agents \in [Part -> Versions'] /\ held \in [Part -> Versions']
      /\ history \in Seq(1 .. minted') /\ bodies \subseteq Versions' /\ gone \subseteq Versions'
  BY <1>2, <1>4, Widens
<1>7. store'["state"] = body /\ store' \in [Part -> Versions']
  BY <1>3, <1>5, <1>6
<1>8. /\ bodies' \subseteq Versions' /\ gone' \subseteq Versions' /\ gone \subseteq gone'
      /\ store["state"] \in gone' /\ bodies \subseteq bodies'
  BY <1>2, <1>3, <1>5, <1>6 DEF Part
<1>9. /\ UNCHANGED <<journal, logged, shot, agents, held, owed>>
      /\ report' \in Reports /\ ~report'.ok
  BY <1>2 DEF events, derived, NoReport, Reports
<1>10. Types'
  BY <1>2, <1>4, <1>6, <1>7, <1>8, <1>9 DEF Types
<1>11. \A b \in 1 .. Len(history) : history[b] \in 1 .. minted
  BY <1>4 DEF Types
<1>12. CASE job = Idle
<2>1. job' = [Idle EXCEPT !.edited = FALSE]
  BY <1>12 DEF Retouch
<2>2. job' = Idle
  BY <2>1 DEF Idle
<2>3. ~HeadIs(job, "archive")
  BY <1>12 DEF HeadIs, Idle
<2>4. Bodies'
<3>1. body # Blank => ~Archived(body)
  BY <1>5, <1>11 DEF Archived
<3> QED
  BY <1>2, <1>3, <1>4, <1>5, <1>7, <1>8, <2>3, <3>1 DEF Bodies, Archived
<2>5. Told'
  BY <1>2, <1>4, <1>9 DEF Told
<2> QED
  BY <1>9, <1>10, <2>2, <2>4, <2>5 DEF WInv, Reported
<1>13. CASE job # Idle
<2> DEFINE k == [j EXCEPT !.edited = TRUE]
<2>1. /\ j \in Jobs /\ Ordered(j.kind, j.todo) /\ StateUnderWay(j) /\ PlanKept(j) /\ EventKept(j)
      /\ Derived(j) /\ j.todo # <<>>
  BY <1>1, <1>13 DEF WInv, Carries
<2>2. job' = k
<3>1. job' = [job EXCEPT !.edited = (job # Idle)]
  BY DEF Retouch
<3>2. job' = [job EXCEPT !.edited = TRUE]
  BY <1>13, <3>1
<3> QED
  BY <1>1, <3>2
<2>3. /\ k \in Jobs /\ k.todo = j.todo /\ k.kind = j.kind /\ k.id = j.id /\ k.event = j.event
      /\ k.prior = j.prior /\ k.plan = j.plan /\ k.delta = j.delta /\ k.edited
      /\ k.degraded = j.degraded /\ k.wrote = j.wrote
  BY <2>1 DEF Jobs
<2> HIDE DEF k
<2>4. /\ Pending(k) = Pending(j) /\ \A step : HeadIs(k, step) <=> HeadIs(j, step)
  BY <2>3 DEF Pending, HeadIs
<2>5. Bodies'
<3>1. body # Blank => ~Archived(body)
  BY <1>5, <1>11 DEF Archived
<3>2. HeadIs(job, "archive") => HeadIs(job, "archive")' /\ job'.prior = job.prior
  BY <1>1, <2>2, <2>3 DEF HeadIs
<3> QED
  BY <1>2, <1>3, <1>4, <1>5, <1>7, <1>8, <3>1, <3>2 DEF Bodies, Archived
<2>6. Told'
  BY <1>2, <1>4, <1>9 DEF Told
<2>7. StateUnderWay(k)'
<3>1. HeadIs(j, "replace") \/ HeadIs(j, "archive") =>
        /\ j.prior \in bodies \ {Absent} /\ (j.prior # Blank => ~Archived(j.prior))
  BY <2>1 DEF StateUnderWay
<3>2. HeadIs(j, "replace") => j.delta \in (1 .. minted') \ bodies'
<4> SUFFICES ASSUME HeadIs(j, "replace") PROVE j.delta \in (1 .. minted') \ bodies'
  OBVIOUS
<4>1. j.delta \in (1 .. minted) \ bodies
  BY <2>1 DEF StateUnderWay
<4> QED
  BY <1>2, <1>3, <1>5, <4>1
<3>3. HeadIs(j, "archive") => j.prior = Blank \/ j.prior # body
  BY <1>4, <1>5, <3>1 DEF Types, Versions, Blank
<3> QED
  BY <1>2, <1>5, <1>7, <1>8, <2>3, <2>4, <3>1, <3>2, <3>3 DEF StateUnderWay, Archived
<2>8. PlanKept(k)'
<3>1. j.delta # Absent /\ ~Updating(j) => "archive" \notin Pending(j)
  BY <2>1 DEF PlanKept
<3> QED
  BY <2>3, <2>4, <3>1 DEF PlanKept, Updating
<2>9. EventKept(k)'
  BY <1>2, <1>9, <2>1, <2>3, <2>4 DEF EventKept
<2>10. Derived(k)'
  BY <2>1, <2>3, <2>4 DEF Derived
<2>11. Carries(k)'
  BY <2>1, <2>3, <2>7, <2>8, <2>9, <2>10 DEF Carries
<2>12. Carries(job)' /\ job'.todo # <<>>
  BY <2>1, <2>2, <2>3, <2>11 DEF Carries, StateUnderWay, PlanKept, EventKept, Derived, Updating, UpToDate, Archived
<2> QED
  BY <1>9, <1>10, <2>5, <2>6, <2>12 DEF WInv, Reported
<1> QED
  BY <1>12, <1>13

LEMMA NothingKeeps ==
  ASSUME WInv, UNCHANGED wvars
  PROVE  WInv'
<1>1. /\ UNCHANGED <<store, legacy, history, bodies, gone, journal, logged, shot, agents, held, owed>>
      /\ UNCHANGED <<hosting, job, report, begun, minted, mishaps, retouches, carried>>
  BY DEF wvars, stateFiles, events, derived
<1>2. Types' /\ Bodies' /\ Told' /\ Reported'
  BY <1>1 DEF WInv, Types, Versions, Bodies, Archived, HeadIs, Told, Reported, UpToDate
<1>3. job # Idle => job.todo # <<>> /\ Carries(job)'
  BY <1>1 DEF WInv, Carries, StateUnderWay, PlanKept, EventKept, Derived, Updating, UpToDate, Archived
<1>4. job' # Idle => job'.todo # <<>> /\ Carries(job)'
  BY <1>1, <1>3 DEF WInv
<1> QED
  BY <1>2, <1>4 DEF WInv

LEMMA WritesBegin ==
  ASSUME WInit
  PROVE  WInv
<1>1. PICK s \in {Absent, Blank, 1} : store = [Fresh EXCEPT !.state = s]
  BY DEF WInit
<1>2. /\ legacy \in {Absent, 1} /\ (store["state"] # Absent => legacy = Absent)
      /\ history = <<>> /\ journal = <<>> /\ shot = store /\ agents = store /\ held = store
      /\ job = Idle /\ report = NoReport /\ begun = 0 /\ minted = 1 /\ mishaps = 0 /\ retouches = 0
      /\ bodies = {store["state"], legacy} /\ gone = {} /\ logged = {} /\ carried = {} /\ owed = {}
  BY DEF WInit
<1>3. s \in Versions /\ 1 \in Versions /\ Absent \in Versions
  BY <1>2 DEF Versions, Absent, Blank
<1>4. Fresh \in [Part -> Versions]
  BY <1>3 DEF Fresh, Part
<1>5. store \in [Part -> Versions] /\ store["state"] = s
  BY <1>1, <1>3, <1>4 DEF Fresh, Part
<1>6. NoReport \in Reports /\ ~NoReport.ok
  BY DEF NoReport, Reports
<1>7. Types
  BY <1>2, <1>3, <1>5, <1>6 DEF Types
<1>8. Bodies
  BY <1>2, <1>5 DEF Bodies, Archived
<1>9. Told
  BY <1>2 DEF Told, Readable
<1> QED
  BY <1>2, <1>6, <1>7, <1>8, <1>9 DEF WInv, Reported

-----------------------------------------------------------------------------
LEMMA WritesGoOn ==
  ASSUME WInv, [WNext]_wvars
  PROVE  WInv'
<1>1. ASSUME NEW kind \in DOMAIN Steps, Begin(kind) PROVE WInv'
<2>1. kind \in Kinds
  BY DEF Steps, Kinds
<2> QED
  BY <1>1, <2>1, BeginKeeps
<1>2. CASE Decide
<2>1. Target("decide") = "decisions"
  BY DEF Target
<2> QED
  BY <1>2, <2>1, WriteKeeps, RefuseKeeps DEF Decide
<1>3. CASE Ask
<2>1. Target("ask") = "questions"
  BY DEF Target
<2> QED
  BY <1>3, <2>1, WriteKeeps, RefuseKeeps DEF Ask
<1>4. CASE FillProject
<2>1. Target("fill") = "project"
  BY DEF Target
<2> QED
  BY <1>4, <2>1, WriteKeeps DEF FillProject
<1>5. CASE ReadState
  BY <1>5, ReadNothingKeeps, ReadKeeps
<1>6. CASE ReplaceState
  BY <1>6, ReplaceKeeps
<1>7. CASE ArchiveState
  BY <1>7, ArchiveKeeps
<1>8. CASE TruncateProject
  BY <1>8, TruncateKeeps
<1>9. CASE Snapshot
  BY <1>9, SnapshotKeeps
<1>10. CASE Regenerate
  BY <1>10, RegenerateKeeps
<1>11. CASE Push
  BY <1>11, PushKeeps
<1>12. CASE Pull
  BY <1>12, PullKeeps
<1>13. CASE Journal
  BY <1>13, JournalKeeps
<1>14. CASE Kill
  BY <1>14, KillKeeps
<1>15. CASE Retouch
  BY <1>15, RetouchKeeps
<1>16. CASE UNCHANGED wvars
  BY <1>16, NothingKeeps
<1> QED
  BY <1>1, <1>2, <1>3, <1>4, <1>5, <1>6, <1>7, <1>8, <1>9, <1>10, <1>11, <1>12, <1>13, <1>14,
     <1>15, <1>16 DEF WNext

(* A body that is archived is so once.                                        *)
LEMMA ArchivedOnce ==
  ASSUME Types, Bodies, NEW body
  PROVE  LET at == {i \in 1 .. Len(history) : history[i] = body}
         IN Cardinality(at) <= 1 /\ (Cardinality(at) = 0 => ~Archived(body))
<1> DEFINE at == {i \in 1 .. Len(history) : history[i] = body}
<1>1. CASE ~Archived(body)
<2>1. at = {}
  BY <1>1 DEF Archived
<2> QED
  BY <1>1, <2>1, FS_EmptySet
<1>2. CASE Archived(body)
<2>1. PICK i \in 1 .. Len(history) : history[i] = body
  BY <1>2 DEF Archived
<2>2. at = {i}
  BY <2>1 DEF Bodies
<2>3. Cardinality(at) = 1
  BY <2>2, FS_Singleton
<2> QED
  BY <2>3
<1> QED
  BY <1>1, <1>2

LEMMA WInvSays ==
  ASSUME WInv
  PROVE  WritesSound
<1>1. Types /\ Bodies /\ Told /\ Reported
  BY DEF WInv
<1>2. WTypeOK
<2>1. \A i \in 1 .. Len(history) : history[i] \in 1 .. minted
  BY <1>1 DEF Types
<2>2. job.kind \in DOMAIN Steps \union {"none"}
<3>1. CASE job = Idle
  BY <3>1 DEF Idle
<3>2. CASE job # Idle
<4>1. job.kind \in Kinds
  BY <3>2 DEF WInv, Carries, Jobs
<4> QED
  BY <4>1 DEF Kinds, Steps
<3> QED
  BY <3>1, <3>2
<2>3. Readable(journal) \subseteq carried
  BY <1>1 DEF Told
<2> QED
  BY <1>1, <2>1, <2>2, <2>3 DEF WTypeOK, Types, Versions, Derives
<1>3. BodiesArchived
<2> DEFINE Copies(body) == Cardinality({i \in 1 .. Len(history) : history[i] = body})
           underWay == IF Due("archive") THEN {job.prior} ELSE {}
<2>1. \A body : Copies(body) <= 1 /\ (Copies(body) = 0 => ~Archived(body))
  BY <1>1, ArchivedOnce
<2> HIDE DEF Copies
<2>2. ASSUME NEW body \in bodies \ {Absent, Blank}, Copies(body) = 0
      PROVE  body \in {store["state"], legacy} \union underWay \union gone
  BY <1>1, <2>1, <2>2 DEF Bodies, HeadIs, Due
<2> USE DEF Copies
<2> QED
  BY <2>1, <2>2 DEF BodiesArchived
<1>4. PlanAgrees
<2> SUFFICES ASSUME job.delta # Absent, ~job.edited, ~Due("replace"), ~Due("archive")
             PROVE  job.plan = [current |-> store.state, history |-> history]
  BY DEF PlanAgrees
<2>1. job # Idle
  BY DEF Idle
<2>2. PlanKept(job) /\ ~Updating(job)
  BY <2>1 DEF WInv, Carries, Updating, HeadIs, Due
<2> QED
  BY <2>2 DEF PlanKept
<1>5. JournalTruthful
  BY <1>1 DEF Told, JournalTruthful
<1>6. ReportTruthful
  BY <1>1 DEF Reported, ReportTruthful, UpToDate, Captures, Guides, Pushes
<1> QED
  BY <1>2, <1>3, <1>4, <1>5, <1>6 DEF WritesSound

(***************************************************************************)
(* Whatever write commands run, whichever of their steps fail, wherever they   *)
(* are killed and whatever a hand makes of the state file: no body of the       *)
(* state file is lost unless a kill between its two writes or the hand took it   *)
(* (update_state), an update leaves what the plan of it says                  *)
(* (plan_state_update), the journal tells each event that happened once and      *)
(* keeps it (append_event), and a command that reports no trouble has brought    *)
(* the snapshot, AGENTS.md and the server up to date (run_post_commit).         *)
(***************************************************************************)
THEOREM WritesStaySound == WInit /\ [][WNext]_wvars => []WritesSound
<1>1. WInit => WInv
  BY WritesBegin
<1>2. WInv /\ [WNext]_wvars => WInv'
  BY WritesGoOn
<1>3. WInv => WritesSound
  BY WInvSays
<1> QED
  BY <1>1, <1>2, <1>3, PTL
=============================================================================
