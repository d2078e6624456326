----------------------------- MODULE Acquisition -----------------------------
(***************************************************************************)
(* Fetching one hosted generation into memory                               *)
(* (sync/generation_acquisition.py, download_with_retry of sync/transfer.py).*)
(*                                                                         *)
(* The artifacts come in chunks of presigned links, each chunk through a    *)
(* window of threads that share the links. A link may expire, the server    *)
(* may publish another generation at any moment, and the first failure of a *)
(* window stops the rest of it.                                            *)
(***************************************************************************)
EXTENDS Naturals, FiniteSets

CONSTANTS Paths,
          Digest,        \* Digest[g][p]: the artifact at path p in generation g
          Prior,         \* the generation already installed; 0: none
          ChunkSize,     \* PRESIGN_BATCH_LIMIT
          Workers,       \* ACQUISITION_WORKERS
          MaxAttempts,   \* _MAX_ATTEMPTS of one download budget
          MaxTries       \* _MAX_ACQUISITION_ATTEMPTS

Generations == DOMAIN Digest
Nothing == 0

VARIABLES
  committed,  \* the generation the server serves
  tries,      \* attempts begun
  stage,      \* "start", "chunk", "fetch", "interrupted", "verify", "done", "failed"
  target,     \* the generation this attempt acquires
  todo,       \* paths of this attempt not fetched in an earlier chunk
  chunk, waiting,   \* the paths of this chunk, those not handed to a thread
  page,       \* the links: the paths they cover and their mint
  outstanding,\* paths a re-mint asks for
  work,       \* the download of each path
  stop, failure,
  bodies,     \* what was received or reused for each path
  gets,       \* history: GETs of each path in this chunk
  denied,     \* history: the current links answered 403 once
  trouble     \* history: a fault or an interrupt happened

window == <<chunk, waiting, page, outstanding, work, stop, failure, gets, denied>>
qvars == <<committed, tries, stage, target, todo, window, bodies, trouble>>

Resting == [at |-> "out", fails |-> 0, reminted |-> FALSE, seen |-> 0]
Running == {p \in Paths : work[p].at # "out"}

QInit ==
  /\ committed \in Generations \ {Prior}
  /\ tries = 0 /\ stage = "start" /\ target = Nothing
  /\ todo = {} /\ chunk = {} /\ waiting = {}
  /\ page = [paths |-> {}, mint |-> 0] /\ outstanding = {}
  /\ work = [p \in Paths |-> Resting]
  /\ stop = FALSE /\ failure = "none"
  /\ bodies = [p \in Paths |-> Nothing]
  /\ gets = [p \in Paths |-> 0]
  /\ denied = FALSE /\ trouble = FALSE

(* The while loop of acquire_generation_projection.                          *)
TryAgain == stage' = IF tries < MaxTries THEN "start" ELSE "failed"

Supersede ==
  /\ committed + 1 \in Generations
  /\ committed' = committed + 1
  /\ UNCHANGED <<tries, stage, target, todo, window, bodies, trouble>>

(* Mutant: whatever is installed is reused.                                  *)
ReusedAlways(g) == IF Prior = 0 THEN {} ELSE Paths

(* _reusable_bytes and the comparison with the manifest.                     *)
Reused(g) == IF Prior = 0 THEN {} ELSE {p \in Paths : Digest[Prior][p] = Digest[g][p]}

(* _fetch_projection, _parse_manifest: what is committed becomes the target.  *)
Begin ==
  /\ stage = "start"
  /\ tries' = tries + 1
  /\ \/ /\ target' = committed
        /\ bodies' = [p \in Paths |-> IF p \in Reused(committed)
                                        THEN Digest[Prior][p] ELSE Nothing]
        /\ todo' = Paths \ Reused(committed)
        /\ stage' = "chunk"
        /\ UNCHANGED trouble
     \/ /\ stage' = "failed" /\ trouble' = TRUE
        /\ UNCHANGED <<target, bodies, todo>>
  /\ UNCHANGED <<committed, window>>

(* _PageUrls: the links of the next chunk. A page of another generation      *)
(* starts the acquisition again.                                            *)
PresignChunk ==
  /\ stage = "chunk" /\ todo # {}
  /\ \/ /\ committed = target
        /\ chunk' \in {c \in SUBSET todo :
              Cardinality(c) = ChunkSize \/ (c = todo /\ Cardinality(c) < ChunkSize)}
        /\ waiting' = chunk' /\ outstanding' = chunk'
        /\ page' = [paths |-> chunk', mint |-> 0]
        /\ stop' = FALSE /\ failure' = "none" /\ denied' = FALSE
        /\ gets' = [p \in Paths |-> 0]
        /\ stage' = "fetch"
        /\ UNCHANGED <<work, trouble>>
     \/ committed # target /\ TryAgain /\ UNCHANGED <<window, trouble>>
     \/ stage' = "failed" /\ trouble' = TRUE /\ UNCHANGED window
  /\ UNCHANGED <<committed, tries, target, todo, bodies>>

(***************************************************************************)
(* One download: _ChunkFetch.fetch and download_with_retry.                *)
(***************************************************************************)
StandsAt(p, place) == work[p].at = place
MovesTo(p, place) == work' = [work EXCEPT ![p].at = place]
outer == <<committed, tries, stage, target, todo, chunk>>

Quit(p, why) ==
  /\ work' = [work EXCEPT ![p] = Resting]
  /\ stop' = TRUE
  /\ failure' = IF failure = "none" THEN why ELSE failure

Submit(p) ==
  /\ stage = "fetch" /\ p \in waiting /\ ~stop
  /\ Cardinality(Running) < Workers
  /\ waiting' = waiting \ {p}
  /\ work' = [work EXCEPT ![p] = [Resting EXCEPT !.at = "lookup"]]
  /\ UNCHANGED <<outer, page, outstanding, stop, failure, bodies, gets, denied, trouble>>

(* Mutant: a path counts as fetched as soon as its download begins.          *)
LookUpDone(p) ==
  /\ StandsAt(p, "lookup")
  /\ work' = [work EXCEPT ![p].at = "check", ![p].seen = page.mint]
  /\ outstanding' = outstanding \ {p}
  /\ UNCHANGED <<outer, waiting, page, stop, failure, bodies, gets, denied, trouble>>

(* url_for. The links of a path that is still wanted are always there.       *)
LookUp(p) ==
  /\ StandsAt(p, "lookup")
  /\ work' = [work EXCEPT ![p].at = "check", ![p].seen = page.mint]
  /\ UNCHANGED <<outer, waiting, page, outstanding, stop, failure, bodies, gets, denied, trouble>>

CheckStop(p) ==
  /\ StandsAt(p, "check")
  /\ IF stop THEN Quit(p, "fault")
             ELSE MovesTo(p, "get") /\ UNCHANGED <<stop, failure>>
  /\ UNCHANGED <<outer, waiting, page, outstanding, bodies, gets, denied, trouble>>

(* Mutants: an expired link is always minted again; attempts are not counted. *)
AfterGetAlways(p, fault) ==
  IF fault = "expired"
    THEN /\ work' = [work EXCEPT ![p].at = "remint", ![p].fails = 0]
         /\ UNCHANGED <<stop, failure>>
    ELSE IF fault # "transient" \/ work[p].fails + 1 >= MaxAttempts \/ stop
      THEN Quit(p, "fault")
      ELSE /\ work' = [work EXCEPT ![p].at = "lookup", ![p].fails = @ + 1]
           /\ UNCHANGED <<stop, failure>>

AfterGetUncounted(p, fault) ==
  IF fault # "permanent" /\ ~stop
    THEN MovesTo(p, "lookup") /\ UNCHANGED <<stop, failure>>
    ELSE Quit(p, "fault")

(* The handler of a failed GET: the first expired link earns new links and a  *)
(* new budget, a transient fault another attempt after a pause.             *)
AfterGet(p, fault) ==
  IF fault = "expired" /\ ~work[p].reminted /\ ~stop
    THEN /\ work' = [work EXCEPT ![p].at = "remint", ![p].fails = 0, ![p].reminted = TRUE]
         /\ UNCHANGED <<stop, failure>>
    ELSE IF fault # "transient" \/ work[p].fails + 1 >= MaxAttempts \/ stop
      THEN Quit(p, "fault")
      ELSE /\ work' = [work EXCEPT ![p].at = "lookup", ![p].fails = @ + 1]
           /\ UNCHANGED <<stop, failure>>

CountGet(p) ==
  gets' = [gets EXCEPT ![p] = IF @ <= 2 * MaxAttempts THEN @ + 1 ELSE @]

Get(p) ==
  /\ StandsAt(p, "get")
  /\ CountGet(p)
  /\ \/ MovesTo(p, "keep") /\ UNCHANGED <<stop, failure, denied, trouble>>
     \/ \E fault \in {"transient", "permanent", "expired"} :
          /\ AfterGet(p, fault)
          /\ denied' = (denied \/ (fault = "expired" /\ work[p].seen = page.mint))
          /\ trouble' = TRUE
  /\ UNCHANGED <<outer, waiting, page, outstanding, bodies>>

(* Mutant: every thread whose link expired asks for links.                   *)
MineIsLatestAlways(p) == TRUE

(* remint: a link older than the latest mint is not minted again.            *)
MineIsLatest(p) == work[p].seen = page.mint

Remint(p) ==
  /\ StandsAt(p, "remint")
  /\ IF ~MineIsLatest(p)
       THEN MovesTo(p, "lookup") /\ UNCHANGED <<page, denied, stop, failure, trouble>>
       ELSE \/ /\ committed = target
               /\ page' = [paths |-> outstanding, mint |-> page.mint + 1]
               /\ denied' = FALSE
               /\ MovesTo(p, "lookup") /\ UNCHANGED <<stop, failure, trouble>>
            \/ /\ committed # target
               /\ Quit(p, "superseded") /\ UNCHANGED <<page, denied, trouble>>
            \/ Quit(p, "fault") /\ trouble' = TRUE /\ UNCHANGED <<page, denied>>
  /\ UNCHANGED <<outer, waiting, outstanding, bodies, gets>>

(* _keep, under the lock; the size cap refuses, or the body is damaged.      *)
Keep(p) ==
  /\ StandsAt(p, "keep")
  /\ \/ /\ bodies' = [bodies EXCEPT ![p] = Digest[target][p]]
        /\ MovesTo(p, "settle") /\ UNCHANGED <<stop, failure, trouble>>
     \/ /\ bodies' = [bodies EXCEPT ![p] = Nothing] /\ trouble' = TRUE
        /\ MovesTo(p, "settle") /\ UNCHANGED <<stop, failure>>
     \/ Quit(p, "fault") /\ trouble' = TRUE /\ UNCHANGED bodies
  /\ UNCHANGED <<outer, waiting, page, outstanding, gets, denied>>

(* done: the path leaves what a re-mint asks for.                            *)
Conclude(p) ==
  /\ StandsAt(p, "settle")
  /\ outstanding' = outstanding \ {p}
  /\ work' = [work EXCEPT ![p] = Resting]
  /\ UNCHANGED <<outer, waiting, page, stop, failure, bodies, gets, denied, trouble>>

Interrupt ==
  /\ stage = "fetch"
  /\ stage' = "interrupted" /\ stop' = TRUE /\ trouble' = TRUE
  /\ UNCHANGED <<committed, tries, target, todo, chunk, waiting, page, outstanding,
                 work, failure, bodies, gets, denied>>

(* Mutant: the window does not wait for the threads it stopped.              *)
DrainedOrStopped == stop \/ (Running = {} /\ waiting = {})

(* The finally of run: no fetch is left running.                             *)
Drained == Running = {} /\ (stop \/ waiting = {})

EndChunk ==
  /\ stage \in {"fetch", "interrupted"} /\ Drained
  /\ IF stage = "fetch" /\ failure = "none"
       THEN stage' = "chunk" /\ todo' = todo \ chunk
       ELSE /\ IF stage = "fetch" /\ failure = "superseded" THEN TryAgain
                                                            ELSE stage' = "failed"
            /\ UNCHANGED todo
  /\ UNCHANGED <<committed, tries, target, window, bodies, trouble>>

(* verify_generation_projection: one body per artifact of the manifest, each  *)
(* with its digest.                                                         *)
Verify ==
  /\ stage = "chunk" /\ todo = {}
  /\ stage' = IF bodies = Digest[target] THEN "done" ELSE "failed"
  /\ UNCHANGED <<committed, tries, target, todo, window, bodies, trouble>>

FetchOne(p) == \/ Submit(p) \/ LookUp(p) \/ CheckStop(p) \/ Get(p)
               \/ Remint(p) \/ Keep(p) \/ Conclude(p)

Acquiring == Begin \/ PresignChunk \/ (\E p \in Paths : FetchOne(p)) \/ EndChunk \/ Verify

QNext == Acquiring \/ Supersede \/ Interrupt

QSpec == QInit /\ [][QNext]_qvars

(* Requests time out and threads run.                                        *)
QFairness == WF_qvars(Acquiring)

-----------------------------------------------------------------------------
(* Types of the attempt, its window and its downloads.                       *)
QTypeOK ==
  /\ committed \in Generations /\ tries \in 0 .. MaxTries
  /\ stage \in {"start", "chunk", "fetch", "interrupted", "done", "failed"}
  /\ todo \subseteq Paths /\ chunk \subseteq Paths /\ waiting \subseteq chunk
  /\ page.paths \subseteq chunk /\ outstanding \subseteq chunk
  /\ work \in [Paths -> [at : {"out", "lookup", "check", "get", "remint", "keep", "settle"},
                         fails : 0 .. MaxAttempts, reminted : BOOLEAN,
                         seen : 0 .. Cardinality(Paths)]]
  /\ failure \in {"none", "fault", "superseded"}

(* No thread of a window works on when its attempt has ended or another has  *)
(* begun: its links and its bodies belong to one generation.                *)
NoStrayFetch == Running # {} => stage \in {"fetch", "interrupted"}

(* A path is fetched at most two budgets of attempts per chunk, whatever its *)
(* links answer and however the other threads mint new ones.                *)
GetsBounded == \A p \in Paths : gets[p] <= 2 * MaxAttempts

(* Every path a thread still looks up has a link, after any re-mint.         *)
LinksAreThere == \A p \in Paths : StandsAt(p, "lookup") => p \in page.paths

(* Links are minted again only when the latest ones were refused, however    *)
(* many threads saw the older ones refused.                                 *)
MintsOnlyWhenDenied == [][page.mint' > page.mint => denied]_qvars

(* An acquisition fails for a reason: a fault, an interrupt, or as many       *)
(* publications as it has attempts.                                         *)
FailsForCause == stage = "failed" => trouble \/ tries = MaxTries

(* Every acquisition ends, without any bound on the faults it meets.         *)
AcquisitionEnds == <>(stage \in {"done", "failed"})

(* One acquisition keeps to its threads, its budgets and its links.           *)
AcquisitionSound ==
  [](NoStrayFetch /\ GetsBounded /\ LinksAreThere /\ FailsForCause) /\ MintsOnlyWhenDenied
=============================================================================
