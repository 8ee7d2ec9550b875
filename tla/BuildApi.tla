------------------------------ MODULE BuildApi ------------------------------
(***************************************************************************)
(* POST /build and GET /job/<id> of factory/api/server.py.  Every request  *)
(* has a thread of its own (ThreadingHTTPServer); build threads choose a   *)
(* name in queue/incoming by the clock, test it, open it and write the     *)
(* idea, while a worker leases jobs and ends them and rescues bring old    *)
(* leases back.  A file is known by the request that created it.           *)
(***************************************************************************)
EXTENDS Integers, FiniteSets

CONSTANTS
    Requests,   \* build requests, numbered
    MaxSeconds, \* bound: the clock
    MaxRescues  \* bound

ASSUME ApiAssumption ==
    Requests \subseteq Nat \ {0} /\ IsFiniteSet(Requests) /\ MaxSeconds \in Nat /\ MaxRescues \in Nat

VARIABLES
    second,    \* the clock
    thread,    \* thread[r]: where the build thread stands
    jobId,     \* jobId[r]: its candidate, then its answer: the second and the index
    opened,    \* opened[r]: the file it writes to
    place,     \* place[f]: the directory of the file
    name,      \* name[f]: the job id it is named after
    idea,      \* idea[f]: the request whose idea it holds
    job,       \* the file the worker runs
    wanted, looking,  \* GET /job: the job id, and what _job_state checks next
    wentBack,  \* a lease was rescued during this GET (history)
    raced,     \* requests whose name was taken between its test and its open (history)
    rescues

buildVars == <<thread, jobId, opened>>
fileVars  == <<place, name, idea>>
pollVars  == <<wanted, looking, wentBack>>
apiVars   == <<second, buildVars, fileVars, job, pollVars, raced, rescues>>

NoFile == 0
Blank == 0
JobIds == (0 .. MaxSeconds) \X (0 .. Cardinality(Requests))
\* The name of a file that was moved to a directory that had its name already.
Renamed == <<-1, 0>>
Queue == {"incoming", "leased", "done", "failed"}

Named(dir, id) == {f \in Requests : place[f] = dir /\ name[f] = id}

ApiTypeOK ==
    /\ second \in 0 .. MaxSeconds
    /\ thread \in [Requests -> {"off", "naming", "free", "open", "answered", "refused"}]
    /\ jobId \in [Requests -> JobIds]
    /\ opened \in [Requests -> Requests \union {NoFile}]
    /\ place \in [Requests -> Queue \union {"none"}]
    /\ name \in [Requests -> JobIds \union {Renamed}]
    /\ idea \in [Requests -> Requests \union {Blank}]
    /\ job \in Requests \union {NoFile}
    /\ wanted \in JobIds /\ looking \in Queue \union {"no", "found", "unknown"}
    /\ wentBack \in BOOLEAN /\ raced \subseteq Requests /\ rescues \in 0 .. MaxRescues

ApiInit ==
    /\ second = 0
    /\ thread = [r \in Requests |-> "off"]
    /\ jobId = [r \in Requests |-> <<0, 0>>]
    /\ opened = [r \in Requests |-> NoFile]
    /\ place = [r \in Requests |-> "none"]
    /\ name = [r \in Requests |-> Renamed]
    /\ idea = [r \in Requests |-> Blank]
    /\ job = NoFile
    /\ wanted = <<0, 0>> /\ looking = "no" /\ wentBack = FALSE
    /\ raced = {} /\ rescues = 0

NextSecond ==
    /\ second < MaxSeconds
    /\ second' = second + 1
    /\ UNCHANGED <<buildVars, fileVars, job, pollVars, raced, rescues>>
-----------------------------------------------------------------------------
(* POST /build                                                             *)

ThreadGoes(r, to) == thread' = [thread EXCEPT ![r] = to]

\* No JSON object, or an idea that is no text, empty or too long: 400.
RefuseBuild(r) ==
    /\ thread[r] = "off"
    /\ ThreadGoes(r, "refused")
    /\ UNCHANGED <<second, jobId, opened, fileVars, job, pollVars, raced, rescues>>

AcceptBuild(r) ==
    /\ thread[r] = "off"
    /\ ThreadGoes(r, "naming")
    /\ jobId' = [jobId EXCEPT ![r] = <<second, 0>>]
    /\ UNCHANGED <<second, opened, fileVars, job, pollVars, raced, rescues>>

\* Mutant of TestName: the first name is taken for free.
TestNothing(r) ==
    /\ thread[r] = "naming"
    /\ ThreadGoes(r, "free")
    /\ UNCHANGED <<second, jobId, opened, fileVars, job, pollVars, raced, rescues>>

\* while os.path.exists(path): the next index, until no file is in the way.
TestName(r) ==
    /\ thread[r] = "naming"
    /\ IF Named("incoming", jobId[r]) # {}
       THEN jobId' = [jobId EXCEPT ![r][2] = @ + 1] /\ UNCHANGED <<thread, raced>>
       ELSE LET rivals == {q \in Requests : thread[q] = "free" /\ jobId[q] = jobId[r]}
            IN  /\ ThreadGoes(r, "free")
                /\ raced' = IF rivals = {} THEN raced ELSE raced \union rivals \union {r}
                /\ UNCHANGED jobId
    /\ UNCHANGED <<second, opened, fileVars, job, pollVars, rescues>>

\* open(path, "w"): a file of that name is truncated, or there is a new one.
OpenFile(r) ==
    /\ thread[r] = "free"
    /\ ThreadGoes(r, "open")
    /\ LET old == Named("incoming", jobId[r])
           f == IF old = {} THEN r ELSE CHOOSE o \in old : TRUE
       IN  /\ opened' = [opened EXCEPT ![r] = f]
           /\ idea' = [idea EXCEPT ![f] = Blank]
           /\ place' = [place EXCEPT ![f] = "incoming"]
           /\ name' = [name EXCEPT ![f] = jobId[r]]
    /\ UNCHANGED <<second, jobId, job, pollVars, raced, rescues>>

\* fh.write to the file wherever it is by now; 200 with the job id.
WriteIdea(r) ==
    /\ thread[r] = "open"
    /\ ThreadGoes(r, "answered")
    /\ idea' = [idea EXCEPT ![opened[r]] = r]
    /\ UNCHANGED <<second, jobId, opened, place, name, job, pollVars, raced, rescues>>
-----------------------------------------------------------------------------
(* The worker and the rescue: lease_one.sh, the end of run_job.sh, and     *)
(* rescue_leases.sh.  A name that is taken is changed.                     *)

MoveFile(f, dir) ==
    /\ place' = [place EXCEPT ![f] = dir]
    /\ name' = [name EXCEPT ![f] = IF Named(dir, @) = {} THEN @ ELSE Renamed]

LeaseFile ==
    /\ job = NoFile
    /\ \E f \in {g \in Requests : place[g] = "incoming"} :
        MoveFile(f, "leased") /\ job' = f
    /\ UNCHANGED <<second, buildVars, idea, pollVars, raced, rescues>>

\* The run ends, or is killed and leaves its lease; a lease that was rescued under it is
\* not there to be moved.
EndRun ==
    /\ job # NoFile
    /\ job' = NoFile
    /\ \/ place[job] = "leased" /\ \E dir \in {"done", "failed"} : MoveFile(job, dir)
       \/ UNCHANGED <<place, name>>
    /\ UNCHANGED <<second, buildVars, idea, pollVars, raced, rescues>>

\* A lease that is older than LEASE_TIMEOUT_SEC goes back, and takes its name from a
\* build that has tested it and stood still since.
RescueLease ==
    /\ rescues < MaxRescues
    /\ rescues' = rescues + 1
    /\ \E f \in {g \in Requests : place[g] = "leased" /\ name[g][1] < second} :
        LET rivals == {r \in Requests : thread[r] = "free" /\ jobId[r] = name[f]}
        IN  /\ MoveFile(f, "incoming")
            /\ raced' = IF rivals = {} THEN raced ELSE raced \union rivals \union {f}
    /\ wentBack' = TRUE
    /\ UNCHANGED <<second, buildVars, idea, job, wanted, looking>>
-----------------------------------------------------------------------------
(* GET /job/<id>                                                           *)

AskJob ==
    /\ looking \in {"no", "found", "unknown"}
    /\ \E r \in Requests : thread[r] = "answered" /\ wanted' = jobId[r]
    /\ looking' = "incoming" /\ wentBack' = FALSE
    /\ UNCHANGED <<second, buildVars, fileVars, job, raced, rescues>>

\* The order of _job_state.
NextCheck(dir) ==
    CASE dir = "incoming" -> "leased" [] dir = "leased" -> "done"
      [] dir = "done" -> "failed" [] dir = "failed" -> "unknown"

\* One os.path.isfile after the other, while files move.
CheckDirectory ==
    /\ looking \in Queue
    /\ looking' = IF Named(looking, wanted) # {} THEN "found" ELSE NextCheck(looking)
    /\ UNCHANGED <<second, buildVars, fileVars, job, wanted, wentBack, raced, rescues>>

ApiNext ==
    \/ NextSecond \/ LeaseFile \/ EndRun \/ RescueLease \/ AskJob \/ CheckDirectory
    \/ \E r \in Requests :
        RefuseBuild(r) \/ AcceptBuild(r) \/ TestName(r) \/ OpenFile(r) \/ WriteIdea(r)

ApiSpec == ApiInit /\ [][ApiNext]_apiVars
-----------------------------------------------------------------------------
\* A job that was answered to a client is found by _job_state, however it moves from
\* directory to directory between the checks, unless a rescue takes it the other way.
JobIsKnown == looking = "unknown" => wentBack

\* The idea of an answered build is on disk, in a file of its own, however often its job
\* id was given away again after a lease, unless a name was taken between its test and
\* its open: by another request of that second, or by a rescue that brings a lease back.
IdeasAreKept == \A r \in Requests \ raced :
    thread[r] = "answered" => place[r] # "none" /\ idea[r] = r

ApiHolds == JobIsKnown /\ IdeasAreKept
=============================================================================
