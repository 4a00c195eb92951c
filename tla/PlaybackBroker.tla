--------------------------- MODULE PlaybackBroker ---------------------------
(***************************************************************************)
(* Remote playback: playbackBroker (internal/cloud/playback_broker.go),    *)
(* the handlers around it (internal/cloud/recording_handlers.go) and the   *)
(* agent's loop servePlaybackRequest with UploadPlayback.                  *)
(*                                                                         *)
(* A viewer prepares a recording, the broker queues a request, the agent   *)
(* of the site takes it and uploads the file into the cloud's cache.       *)
(* Request IDs are numbers in the order of creation, which is the order    *)
(* of CreatedAt. A Handler is one run of uploadRequestedRecording or of    *)
(* rejectRequestedRecording. Each critical section of the mutex, and each  *)
(* file operation outside of it, is one step.                              *)
(*                                                                         *)
(* Sizes: a file with content counts 1 (every segment has the same size).  *)
(* Time: age tells which of the limits a request's UpdatedAt has passed,   *)
(* expired how many of the oldest cache files have passed cacheTTL.        *)
(***************************************************************************)
EXTENDS Integers, Sequences, FiniteSetsExt

CONSTANTS Site, Recording, Handler,
          SiteOf,      \* the site that holds a recording
          Checked,     \* recordings whose checksum the cloud knows
          CacheMax,    \* PLAYBACK_CACHE_MAX_BYTES, in files
          Attempts,    \* AGENT_UPLOAD_RETRIES
          MaxRequests, \* bound: requests created in a behaviour
          MaxRestarts, \* bound: restarts of the cloud
          None

ASSUME SiteOfAssumption   == SiteOf \in [Recording -> Site]
(* Temporary files are named .upload-*, cached ones after their recording. *)
ASSUME NamesAssumption    == /\ Recording \cap Handler = {}
                             /\ None \notin Recording \cup Handler
ASSUME CheckedAssumption  == Checked \subseteq Recording
(* config.go refuses a cache smaller than the largest upload.              *)
ASSUME CacheMaxAssumption == CacheMax \in Nat \ {0}
ASSUME AttemptsAssumption == Attempts \in Nat \ {0}
ASSUME BoundsAssumption   == MaxRequests \in Nat /\ MaxRestarts \in Nat

VARIABLES
  status,    \* of a request; "new" before it exists, "gone" once deleted
  rec,       \* the recording a request is for
  age,       \* 0: young; 1: older than playbackRequestTTL (a ready one: than
             \* cacheTTL); 2: older than playbackUploadLease
  cache,     \* the *.mp4 files of the cache directory, oldest mtime first
  expired,   \* how many of them, from the oldest, are older than cacheTTL
  handler,   \* what an upload handler is about to do
  job,       \* the request an agent serves, 0 if none
  via,       \* the handler of the agent's current attempt
  attempt,   \* the number of the agent's attempt to upload
  restarts   \* restarts of the cloud so far

brokerVars == <<status, rec, age>>
fileVars   == <<cache, expired>>
agentVars  == <<job, via, attempt>>
vars == <<brokerVars, fileVars, handler, agentVars, restarts>>

Id == 1..MaxRequests

(* A cached recording (key), or the temporary file of a handler or, after  *)
(* a restart, of nobody; good: complete and with the bytes the agent has.  *)
File == [key : Recording \cup Handler \cup {None}, size : {0, 1},
         good : BOOLEAN, by : Id]

Idle == [st |-> "idle", id |-> 0, good |-> FALSE]

TypeOK ==
  /\ status   \in [Id -> {"new", "queued", "uploading", "ready", "error", "gone"}]
  /\ rec      \in [Id -> Recording \cup {None}]
  /\ age      \in [Id -> 0..2]
  /\ \A i \in 1..Len(cache) : cache[i] \in File
  /\ expired  \in 0..Len(cache)
  /\ handler  \in [Handler -> [st : {"idle", "copy", "copied", "renamed", "requeue", "fail"},
                               id : Id \cup {0}, good : BOOLEAN]]
  /\ job      \in [Site -> Id \cup {0}]
  /\ via      \in [Site -> Handler \cup {None}]
  /\ attempt  \in [Site -> 1..Attempts]
  /\ restarts \in 0..MaxRestarts

Init ==
  /\ status   = [i \in Id |-> "new"]
  /\ rec      = [i \in Id |-> None]
  /\ age      = [i \in Id |-> 0]
  /\ cache    = <<>>
  /\ expired  = 0
  /\ handler  = [u \in Handler |-> Idle]
  /\ job      = [s \in Site |-> 0]
  /\ via      = [s \in Site |-> None]
  /\ attempt  = [s \in Site |-> 1]
  /\ restarts = 0

----------------------------------------------------------------------------
(* The cache directory                                                     *)

Positions(c, k) == {i \in 1..Len(c) : c[i].key = k}

(* cacheReadyLocked, on a directory without expired files.                 *)
InCache(c, r) == \E i \in Positions(c, r) : c[i].size > 0

Total(c) == Cardinality({i \in 1..Len(c) : c[i].size > 0})

Without(c, K) ==
  LET rest[n \in 0..Len(c)] ==
        IF n = 0 THEN <<>>
        ELSE IF c[n].key \in K THEN rest[n - 1] ELSE Append(rest[n - 1], c[n])
  IN rest[Len(c)]

(* The files that cacheTTL has not overtaken: cacheReadyLocked and         *)
(* enforceCacheLimitLocked remove the others.                              *)
Unexpired == SubSeq(cache, expired + 1, Len(cache))

(* enforceCacheLimitLocked: the oldest files go, temporary ones too, until *)
(* the rest fits.                                                          *)
EvictLate(c) ==   \* mutant: one file too many stays
  SubSeq(c, Min({k \in 0..Len(c) : Total(SubSeq(c, k + 1, Len(c))) <= CacheMax + 1}) + 1, Len(c))

EvictEarly(c) ==   \* mutant: < instead of <=
  SubSeq(c, Min({k \in 0..Len(c) : k = Len(c) \/ Total(SubSeq(c, k + 1, Len(c))) < CacheMax}) + 1,
         Len(c))

Evict(c) ==
  LET fits(k) == Total(SubSeq(c, k + 1, Len(c))) <= CacheMax
  IN SubSeq(c, Min({k \in 0..Len(c) : fits(k)}) + 1, Len(c))

----------------------------------------------------------------------------
(* cleanupLocked. A ready request that is over age takes the file along,   *)
(* whoever uploaded it; other requests for that file are visited later.    *)

OverAge(i) == status[i] = "ready" /\ InCache(Unexpired, rec[i]) /\ age[i] >= 1

TakenAlong == {rec[i] : i \in {j \in Id : OverAge(j)}}

Swept == Without(Unexpired, TakenAlong)

(* cacheReadyLocked, once those files are gone.                            *)
Missing(i) == rec[i] \in TakenAlong \/ ~InCache(Unexpired, rec[i])

CleanedNoLease(i) ==   \* mutant: what is uploading is left to its handler
  CASE OverAge(i)                                                     -> "gone"
    [] status[i] = "ready" /\ ~OverAge(i) /\ Missing(i)               -> "queued"
    [] status[i] \in {"queued", "error"} /\ age[i] >= 1                -> "gone"
    [] OTHER                                                          -> status[i]

Cleaned(i) ==
  CASE OverAge(i)                                                     -> "gone"
    [] status[i] = "ready" /\ ~OverAge(i) /\ Missing(i)               -> "queued"
    [] status[i] = "uploading" /\ age[i] = 2                          -> "queued"
    [] status[i] \in {"queued", "uploading", "error"} /\ age[i] >= 1
                           /\ ~(status[i] = "uploading" /\ age[i] = 2) -> "gone"
    [] OTHER                                                          -> status[i]

CleanAge(i) == IF Cleaned(i) = status[i] THEN age[i] ELSE 0

CleanFiles == cache' = Evict(Swept) /\ expired' = 0

(* A critical section that cleans up and leaves the requests at that.      *)
CleanRequests == /\ status' = [i \in Id |-> Cleaned(i)]
                 /\ age'    = [i \in Id |-> CleanAge(i)]
                 /\ UNCHANGED rec

Set(i, st) == /\ status' = [status EXCEPT ![i] = st]
              /\ age'    = [age EXCEPT ![i] = 0]
              /\ UNCHANGED rec

Known(i) == status[i] \notin {"new", "gone"}

----------------------------------------------------------------------------
(* The viewer                                                              *)

(* prepareRecording: a cached recording is ready, a live request is used   *)
(* again, else a new one is queued.                                        *)
Prepare(r) ==
  LET ready == InCache(Evict(Swept), r)
      alive == \E i \in Id : rec[i] = r /\ Cleaned(i) \in {"queued", "uploading", "ready"}
      fresh == {i \in Id : status[i] = "new"}
  IN /\ CleanFiles
     /\ IF ready \/ alive
          THEN CleanRequests
          ELSE /\ fresh # {}
               /\ status' = [i \in Id |-> IF i = Min(fresh) THEN "queued" ELSE Cleaned(i)]
               /\ rec'    = [rec EXCEPT ![Min(fresh)] = r]
               /\ age'    = [i \in Id |-> CleanAge(i)]
     /\ UNCHANGED <<handler, agentVars, restarts>>

(* recordingPreparation, or a poll of an agent that finds nothing queued:  *)
(* only the clean-up changes anything.                                     *)
StatusPoll ==
  /\ CleanFiles
  /\ CleanRequests
  /\ UNCHANGED <<handler, agentVars, restarts>>

----------------------------------------------------------------------------
(* The agent, and the handlers of its requests                             *)

Offerable(s) == {i \in Id : rec[i] # None /\ Cleaned(i) = "queued" /\ SiteOf[rec[i]] = s}

(* next: the oldest queued request of the site.                            *)
Offer(s) ==
  /\ job[s] = 0
  /\ Offerable(s) # {}
  /\ LET i == Min(Offerable(s))
     IN /\ status' = [j \in Id |-> IF j = i THEN "uploading" ELSE Cleaned(j)]
        /\ age'    = [j \in Id |-> IF j = i THEN 0 ELSE CleanAge(j)]
  /\ CleanFiles
  /\ UNCHANGED <<rec, handler, via, attempt, restarts>>

TakeRequest(s) == Offer(s) /\ job' = [job EXCEPT ![s] = Min(Offerable(s))]

(* The answer is lost on its way to the agent.                             *)
LoseOffer(s) == Offer(s) /\ UNCHANGED job

AgentIdle(s) == /\ job'     = [job EXCEPT ![s] = 0]
                /\ via'     = [via EXCEPT ![s] = None]
                /\ attempt' = [attempt EXCEPT ![s] = 1]

(* UploadPlayback goes round its loop again.                               *)
TryAgain(s) == /\ attempt[s] < Attempts
               /\ attempt' = [attempt EXCEPT ![s] = @ + 1]
               /\ via'     = [via EXCEPT ![s] = None]
               /\ UNCHANGED job

(* The PUT or the DELETE for the request begins: request. A handler that   *)
(* is refused leaves at once (404, the agent stops); one that is not goes  *)
(* on to copy the body, to fail (rejected by the agent, too large, no      *)
(* temporary file) or to queue the request again (no content length).      *)
BeginUpload(s, u) ==
  /\ job[s] # 0
  /\ via[s] = None
  /\ handler[u].st = "idle"
  /\ IF status[job[s]] \in {"uploading", "queued"}
       THEN /\ Set(job[s], "uploading")
            /\ via' = [via EXCEPT ![s] = u]
            /\ \E st \in {"copy", "fail", "requeue"} :
                 /\ handler' = [handler EXCEPT ![u] = [st |-> st, id |-> job[s], good |-> FALSE]]
                 /\ cache' = IF st = "copy"
                               THEN Append(cache, [key |-> u, size |-> 0, good |-> FALSE, by |-> job[s]])
                               ELSE cache
            /\ UNCHANGED <<job, attempt>>
       ELSE /\ AgentIdle(s)
            /\ UNCHANGED <<brokerVars, handler, cache>>
  /\ UNCHANGED <<expired, restarts>>

Attached(u) == \E s \in Site : via[s] = u

(* Body bytes arrive: the temporary file, if it still has a name, grows    *)
(* and is the newest.                                                      *)
Grow(u) ==
  /\ handler[u].st = "copy"
  /\ \E i \in Positions(cache, u) :
       /\ cache[i].size = 0
       /\ cache' = Append(Without(cache, {u}), [cache[i] EXCEPT !.size = 1])
       /\ expired' = IF i <= expired THEN expired - 1 ELSE expired
  /\ UNCHANGED <<brokerVars, handler, agentVars, restarts>>

(* The whole body has arrived; its bytes may differ from what is expected. *)
CopyDone(u) ==
  /\ handler[u].st = "copy"
  /\ Attached(u)
  /\ \A i \in Positions(cache, u) : cache[i].size = 1
  /\ \E good \in BOOLEAN :
       handler' = [handler EXCEPT ![u].st = "copied", ![u].good = good]
  /\ UNCHANGED <<brokerVars, fileVars, agentVars, restarts>>

(* The copy is short or fails.                                             *)
CopyInterrupted(u) ==
  /\ handler[u].st = "copy"
  /\ handler' = [handler EXCEPT ![u].st = "requeue"]
  /\ UNCHANGED <<brokerVars, fileVars, agentVars, restarts>>

(* A checksum that is known is compared.                                   *)
RefusesNothing(u) == FALSE   \* mutant: the comparison is left out

Refuses(u) == rec[handler[u].id] \in Checked /\ ~handler[u].good

ChecksumMismatch(u) ==
  /\ handler[u].st = "copied"
  /\ Refuses(u)
  /\ handler' = [handler EXCEPT ![u].st = "fail"]
  /\ UNCHANGED <<brokerVars, fileVars, agentVars, restarts>>

(* os.Rename into the cache keeps the modification time; it fails if the   *)
(* temporary file was evicted, and the request is queued again.            *)
Rename(u) ==
  LET r    == rec[handler[u].id]
      here == Positions(cache, u)
  IN /\ handler[u].st = "copied"
     /\ ~Refuses(u)
     /\ IF here = {}
          THEN /\ handler' = [handler EXCEPT ![u].st = "requeue"]
               /\ UNCHANGED fileVars
          ELSE LET others == Without(cache, {r})
               IN /\ handler' = [handler EXCEPT ![u].st = "renamed"]
                  /\ cache'   = [others EXCEPT ![Min(Positions(others, u))] =
                                   [@ EXCEPT !.key = r, !.good = handler[u].good]]
                  /\ expired' = expired - Cardinality({j \in Positions(cache, r) : j <= expired})
     /\ UNCHANGED <<brokerVars, agentVars, restarts>>

(* ready: the request, if it still exists, is done; the limit is enforced. *)
MarkReady(u) ==
  LET i == handler[u].id
  IN /\ handler[u].st = "renamed"
     /\ IF Known(i) THEN Set(i, "ready") ELSE UNCHANGED brokerVars
     /\ cache'   = Evict(Unexpired)
     /\ expired' = 0
     /\ handler' = [handler EXCEPT ![u] = Idle]
     /\ \/ \E s \in Site : via[s] = u /\ AgentIdle(s)
        \/ ~Attached(u) /\ UNCHANGED agentVars
     /\ UNCHANGED restarts

(* requeue or fail, whatever the request's status is by now; the deferred  *)
(* removal of the temporary file. The agent tries again after 409 and 500  *)
(* until its attempts are used up, and gives up after another 4xx.         *)
Settle(u) ==
  LET i == handler[u].id
  IN /\ handler[u].st \in {"requeue", "fail"}
     /\ IF Known(i) THEN Set(i, IF handler[u].st = "fail" THEN "error" ELSE "queued")
                    ELSE UNCHANGED brokerVars
     /\ cache'   = Without(cache, {u})
     /\ expired' = expired - Cardinality({j \in Positions(cache, u) : j <= expired})
     /\ handler' = [handler EXCEPT ![u] = Idle]
     /\ \/ \E s \in Site : /\ via[s] = u
                           /\ AgentIdle(s) \/ TryAgain(s)
        \/ ~Attached(u) /\ UNCHANGED agentVars
     /\ UNCHANGED restarts

(* The agent's attempt ends on its side (timeout, broken connection); the  *)
(* handler runs on.                                                        *)
BreakUpload(s) ==
  /\ via[s] # None
  /\ AgentIdle(s) \/ TryAgain(s)
  /\ UNCHANGED <<brokerVars, fileVars, handler, restarts>>

AgentRestart(s) ==
  /\ job[s] # 0
  /\ AgentIdle(s)
  /\ UNCHANGED <<brokerVars, fileVars, handler, restarts>>

(* The cloud restarts: the requests are forgotten, the directory is not,   *)
(* and temporary files stay behind.                                        *)
CloudRestart ==
  /\ restarts < MaxRestarts
  /\ restarts' = restarts + 1
  /\ status'   = [i \in Id |-> IF status[i] = "new" THEN "new" ELSE "gone"]
  /\ age'      = [i \in Id |-> 0]
  /\ cache'    = [i \in 1..Len(cache) |->
                    IF cache[i].key \in Handler THEN [cache[i] EXCEPT !.key = None] ELSE cache[i]]
  /\ handler'  = [u \in Handler |-> Idle]
  /\ via'      = [s \in Site |-> None]
  /\ UNCHANGED <<rec, expired, job, attempt>>

----------------------------------------------------------------------------
(* Time                                                                    *)

(* A ready request is no older than the file that made it ready: it is     *)
(* over age first only if another upload has renewed the file. The pause   *)
(* before an agent's next attempt (1, 2, 4 s) is too short for any limit.  *)
AgeRequest(i) ==
  /\ Known(i)
  /\ age[i] < IF status[i] = "uploading" THEN 2 ELSE 1
  /\ ~\E s \in Site : job[s] = i /\ via[s] = None
  /\ status[i] = "ready" =>
       \E k \in Positions(Unexpired, rec[i]) : Unexpired[k].by # i
  /\ age' = [age EXCEPT ![i] = @ + 1]
  /\ UNCHANGED <<status, rec, fileVars, handler, agentVars, restarts>>

ExpireFile ==
  /\ expired < Len(cache)
  /\ expired' = expired + 1
  /\ UNCHANGED <<brokerVars, cache, handler, agentVars, restarts>>

----------------------------------------------------------------------------
HandlerStep(u) == \/ CopyDone(u) \/ CopyInterrupted(u) \/ ChecksumMismatch(u)
                  \/ Rename(u) \/ MarkReady(u) \/ Settle(u)

Uploads(s) == \E u \in Handler : BeginUpload(s, u)

Next ==
  \/ \E r \in Recording : Prepare(r)
  \/ StatusPoll
  \/ \E s \in Site    : \/ TakeRequest(s) \/ LoseOffer(s) \/ Uploads(s)
                         \/ BreakUpload(s) \/ AgentRestart(s)
  \/ \E u \in Handler : HandlerStep(u) \/ Grow(u)
  \/ \E i \in Id      : AgeRequest(i)
  \/ ExpireFile
  \/ CloudRestart

Spec == Init /\ [][Next]_vars

(* Handlers end, time passes, the agent polls every second or so, which    *)
(* cleans up even when it finds nothing, and of the answers that offer a   *)
(* request not every one is lost.                                          *)
FairSpec == /\ Spec
            /\ WF_vars(StatusPoll)
            /\ \A i \in Id : WF_vars(AgeRequest(i))
            /\ \A u \in Handler : WF_vars(HandlerStep(u))
            /\ \A s \in Site : WF_vars(Uploads(s))
            /\ \A s \in Site, i \in Id : SF_vars(TakeRequest(s) /\ job'[s] = i)

----------------------------------------------------------------------------
(* Properties                                                              *)

(* A file under a recording's name is a whole upload, never one that was   *)
(* cut short, and has the known checksum: playRecording serves the name    *)
(* without looking (recording_handlers.go:50-65,360-379).                  *)
CacheHoldsVerified == \A i \in 1..Len(cache) :
  cache[i].key \in Recording => /\ cache[i].size = 1
                                /\ cache[i].key \in Checked => cache[i].good

(* PLAYBACK_CACHE_MAX_BYTES bounds what viewers have been promised: only   *)
(* uploads in progress, files whose upload has not yet run ready, and what *)
(* they left at a restart, may come on top.                                *)
SettledWithinLimit ==
  Cardinality({i \in 1..Len(cache) :
     /\ cache[i].key \in Recording
     /\ status[cache[i].by] = "ready"
     /\ ~\E u \in Handler : handler[u].st = "renamed" /\ handler[u].id = cache[i].by}) <= CacheMax

(* README, PLAYBACK_CACHE_TTL: a transferred segment is kept for the TTL.  *)
(* A file that is younger is removed only when the cache is over its size. *)
KeepsFreshFiles ==
  [][\A k \in 1..Len(Unexpired) :
       LET r == Unexpired[k].key
       IN r \in Recording /\ ~InCache(cache', r) => Total(Unexpired) > CacheMax]_vars

(* An offer whose answer was lost, or whose agent died, does not stay      *)
(* "uploading" for ever with nobody uploading: viewers that poll see it    *)
(* queued again or gone.                                                   *)
Served(i) == \/ \E s \in Site : job[s] = i
             \/ \E u \in Handler : handler[u].id = i

LostOfferRecovers == \A i \in Id :
  status[i] = "uploading" /\ ~Served(i) ~> status[i] # "uploading" \/ Served(i)
==============================================================================
