-------------------------------- MODULE Jobs --------------------------------
(***************************************************************************)
(* The durable job record: class Jobs of src/pionir/server.py, the worker  *)
(* thread behind it (PionirApp._submit), the handlers that record a job at *)
(* once (run_task's refusals and parkings) and the long poll of            *)
(* GET /api/task/<id>.                                                     *)
(*                                                                         *)
(* A job's file is rewritten by Jobs under its lock, so create and finish  *)
(* are one step each.  The events of _done live in the process, and a      *)
(* waiter that took one keeps it after finish() drops it from the table.   *)
(* Definitions introduced by "Mistake:" model no code (see Approvals).     *)
(***************************************************************************)
EXTENDS Naturals, FiniteSets

CONSTANTS
  Ids,        \* the jobs; every create() mints an id of its own
  Pollers,    \* the clients of GET /api/task/<id>?wait=
  Keep,       \* JOBS_KEEP: how many files the directory holds
  MaxCrashes, \* bound: crashes of the process
  MaxTime,    \* bound: modification times
  MaxFaults   \* bound: files that cannot be read, written or unlinked

\* The handler that created a job waits for it too; it is named by the job.
Waiters == Ids \cup Pollers

ASSUME WaitersApart == Ids \cap Pollers = {} /\ "none" \notin Ids
ASSUME BoundsTyped ==
  /\ Keep \in Nat \ {0} /\ IsFiniteSet(Ids)
  /\ MaxTime \in Nat /\ MaxCrashes \in Nat /\ MaxFaults \in Nat

VARIABLES
  phase,  \* the server process: "up" or "down"
  files,  \* the directory, by job
  clock,  \* the last modification time given out
  stuck,  \* history: the files the last pruning could not unlink
  work,   \* how far each job's thread (or recording handler) has come: "dead" in a
          \* crash, "lost" when a write of its record raised, "unread" when finish()
          \* could not read it
  armed,  \* _done: the jobs whose event can be looked up
  set,    \* the jobs whose event is set
  waits,  \* what each waiter is doing
  on,     \* the job each waiter asked about
  heard,  \* what each waiter was told
  crashes, faults

disk == <<files, clock, stuck>>
waiting == <<waits, on, heard>>
bounds == <<crashes, faults>>
vars == <<phase, disk, work, armed, set, waiting, bounds>>

-----------------------------------------------------------------------------
(* The directory. *)

File == [state : {"absent", "running", "finished", "pruned"},
         says : {"nothing", "work", "interrupted"}, mtime : Nat]

NoFile == [state |-> "absent", says |-> "nothing", mtime |-> 0]
Gone == [NoFile EXCEPT !.state = "pruned"]

Present(f) == f.state \in {"running", "finished"}

\* Two writes may get the same time.
Times == clock .. MaxTime

Written(state, says, time) == [state |-> state, says |-> says, mtime |-> time]

On(fs) == {j \in Ids : Present(fs[j])}

\* _files and _prune: what comes after the first Keep, newest first, running or not.
\* Files of the same time come in any order.
Stale(fs) ==
  {S \in SUBSET On(fs) :
     /\ S # {} => Cardinality(On(fs) \ S) = Keep
     /\ S = {} => Cardinality(On(fs)) <= Keep
     /\ \A i \in S, k \in On(fs) \ S : fs[i].mtime <= fs[k].mtime}

\* Those of them that unlink() takes away; one it cannot is logged and stays.
Unlinked(fs, S) == [j \in Ids |-> IF j \in S THEN Gone ELSE fs[j]]

\* Mistake: a restart marks every file it finds.
OrphansAll == {j \in Ids : Present(files[j])}

\* Mistake: a restart leaves the files as they are.
OrphansNone == {}

\* The files a restart finds running.
Orphans == {j \in Ids : files[j].state = "running"}

\* _recover_interrupted: they are rewritten newest first, so a newer one gets no later
\* time than an older one.  A file in `skip` could not be read or written.
InTurn(skip) ==
  {when \in [Orphans \ skip -> Times] :
     \A i, k \in Orphans \ skip : files[i].mtime > files[k].mtime => when[i] <= when[k]}

Recovered(skip, when) ==
  [j \in Ids |->
     IF j \in Orphans \ skip
     THEN Written("finished", "interrupted", when[j]) ELSE files[j]]

-----------------------------------------------------------------------------
(* Creating and ending jobs. *)

Init ==
  /\ phase = "up"
  /\ files = [j \in Ids |-> NoFile] /\ clock = 0 /\ stuck = {}
  /\ work = [j \in Ids |-> "none"]
  /\ armed = {} /\ set = {}
  /\ waits = [w \in Waiters |-> "away"]
  /\ on = [w \in Waiters |-> "none"]
  /\ heard = [w \in Waiters |-> "nothing"]
  /\ crashes = 0 /\ faults = 0

\* create(): the event, the file, then the pruning.  A job that runs gets a thread,
\* and its handler will wait for it; a refused or parked one has its result already.
Create(j) ==
  /\ phase = "up" /\ work[j] = "none"
  /\ armed' = armed \cup {j}
  /\ \E time \in Times :
       LET written == [files EXCEPT ![j] = Written("running", "nothing", time)]
       IN \E S \in Stale(written), s \in SUBSET Ids :
            /\ s \subseteq S /\ faults + Cardinality(s) <= MaxFaults
            /\ files' = Unlinked(written, S \ s) /\ clock' = time
            /\ stuck' = s /\ faults' = faults + Cardinality(s)
  /\ work' \in {[work EXCEPT ![j] = w] : w \in {"running", "recording"}}
  /\ UNCHANGED <<phase, set, waiting, crashes>>

\* create() raises in its write: the event stays in the table, the handler ends.
CreateFails(j) ==
  /\ phase = "up" /\ work[j] = "none" /\ faults < MaxFaults
  /\ armed' = armed \cup {j}
  /\ work' = [work EXCEPT ![j] = "lost"]
  /\ waits' = [waits EXCEPT ![j] = "told"]
  /\ faults' = faults + 1
  /\ UNCHANGED <<phase, disk, set, on, heard, crashes>>

Filed(j) ==
  \E time \in Times :
    /\ files' = [files EXCEPT ![j] = Written("finished", "work", time)]
    /\ clock' = time /\ UNCHANGED stuck
    /\ set' = set \cup {j} /\ armed' = armed \ {j}

\* Mistake: the result is written whether or not the file is still there.
FinishWritesAnyway(j) == Filed(j)

\* finish(): a file that is gone takes no result and wakes nobody.
Finish(j) ==
  IF Present(files[j]) THEN Filed(j) ELSE UNCHANGED <<disk, armed, set>>

\* The worker thread: the work returns (or raised, which is a result too), fills the
\* response box, and the job is finished.  Nobody looks into the box in between.
End(j) ==
  /\ phase = "up" /\ work[j] = "running"
  /\ Finish(j)
  /\ work' = [work EXCEPT ![j] = "ended"]
  /\ UNCHANGED <<phase, waiting, bounds>>

\* The recording handler finishes the job itself and answers with the result.
Record(j) ==
  /\ phase = "up" /\ work[j] = "recording"
  /\ Finish(j)
  /\ work' = [work EXCEPT ![j] = "ended"]
  /\ waits' = [waits EXCEPT ![j] = "told"]
  /\ on' = [on EXCEPT ![j] = j]
  /\ heard' = [heard EXCEPT ![j] = "work"]
  /\ UNCHANGED <<phase, bounds>>

\* finish() cannot read the record and does nothing, as for one that is gone: the file
\* stays "running" and nobody is woken, but a recording handler answers all the same.
EndUnread(j) ==
  /\ phase = "up" /\ work[j] \in {"running", "recording"} /\ Present(files[j])
  /\ faults < MaxFaults
  /\ work' = [work EXCEPT ![j] = "unread"]
  /\ IF work[j] = "recording"
     THEN /\ waits' = [waits EXCEPT ![j] = "told"]
          /\ on' = [on EXCEPT ![j] = j]
          /\ heard' = [heard EXCEPT ![j] = "work"]
     ELSE UNCHANGED waiting
  /\ faults' = faults + 1
  /\ UNCHANGED <<phase, disk, armed, set, crashes>>

\* finish() raises in its write: the thread ends there, or the handler answers 500.
EndFails(j) ==
  /\ phase = "up" /\ work[j] \in {"running", "recording"} /\ Present(files[j])
  /\ faults < MaxFaults
  /\ work' = [work EXCEPT ![j] = "lost"]
  /\ waits' = IF work[j] = "recording" THEN [waits EXCEPT ![j] = "told"] ELSE waits
  /\ faults' = faults + 1
  /\ UNCHANGED <<phase, disk, armed, set, on, heard, crashes>>

-----------------------------------------------------------------------------
(* Waiting for a job. *)

\* Who may ask about which job: its own handler once the thread runs, and any poller.
Asks(w, j) == work[j] # "none" /\ (w \in Ids => w = j /\ work[j] # "recording")

\* What the file says, for GET: a 404 when there is none.
FileSays(j) ==
  IF ~Present(files[j]) THEN "unknown"
  ELSE IF files[j].state = "running" THEN "running" ELSE files[j].says

\* wait() found no event: the record answers whether the job is finished.
Finished(j) == files[j].state = "finished"

\* What a waiter is told once wait() came back: _submit answers from the response
\* box, GET from the file.
Told(w, j, ended) ==
  IF w \in Ids THEN (IF ended THEN "work" ELSE "running") ELSE FileSays(j)

\* The file of a GET may be unreadable just then: a 404 as well.
Answered(w, j, ended) ==
  /\ waits' = [waits EXCEPT ![w] = "told"]
  /\ on' = [on EXCEPT ![w] = j]
  /\ \/ heard' = [heard EXCEPT ![w] = Told(w, j, ended)] /\ UNCHANGED faults
     \/ /\ w \in Pollers /\ Present(files[j]) /\ faults < MaxFaults
        /\ heard' = [heard EXCEPT ![w] = "unknown"] /\ faults' = faults + 1

\* wait(): holds the job's event if there is one, else it is over at once.  Reading
\* the record later than the table changes nothing: an event never comes back.
Wait(w, j) ==
  /\ phase = "up" /\ waits[w] = "away" /\ Asks(w, j)
  /\ IF j \in armed
     THEN /\ waits' = [waits EXCEPT ![w] = "holding"]
          /\ on' = [on EXCEPT ![w] = j]
          /\ UNCHANGED <<heard, faults>>
     ELSE Answered(w, j, Finished(j))
  /\ UNCHANGED <<phase, disk, work, armed, set, crashes>>

Wake(w) ==
  /\ phase = "up" /\ waits[w] = "holding" /\ on[w] \in set
  /\ Answered(w, on[w], TRUE)
  /\ UNCHANGED <<phase, disk, work, armed, set, crashes>>

\* The wait's time is up: MAX_WAIT_SECONDS at most.
GiveUp(w) ==
  /\ phase = "up" /\ waits[w] = "holding" /\ on[w] \notin set
  /\ Answered(w, on[w], FALSE)
  /\ UNCHANGED <<phase, disk, work, armed, set, crashes>>

-----------------------------------------------------------------------------
(* Crashes and restarts. *)

\* Every thread, event and open connection dies; the files stay.
Crash ==
  /\ phase = "up" /\ crashes < MaxCrashes
  /\ phase' = "down" /\ crashes' = crashes + 1
  /\ work' = [j \in Ids |-> IF work[j] \in {"running", "recording"} THEN "dead" ELSE work[j]]
  /\ armed' = {} /\ set' = {}
  /\ waits' = [w \in Waiters |->
       IF waits[w] = "holding" \/ (w \in Ids /\ work[w] # "none") THEN "told" ELSE waits[w]]
  /\ UNCHANGED <<disk, on, heard, faults>>

\* Jobs.__init__; a file that cannot be read or rewritten is left to the next start.
Boot ==
  /\ phase = "down" /\ phase' = "up"
  /\ \E skip \in SUBSET Orphans : \E when \in InTurn(skip) :
       /\ faults + Cardinality(skip) <= MaxFaults
       /\ faults' = faults + Cardinality(skip)
       /\ files' = Recovered(skip, when)
       /\ clock' \in Times /\ \A j \in Orphans \ skip : when[j] <= clock'
       /\ work' = [j \in Ids |-> IF j \in skip /\ work[j] # "unread" THEN "lost" ELSE work[j]]
  /\ UNCHANGED <<stuck, armed, set, waiting, crashes>>

Next ==
  \/ \E j \in Ids : \/ Create(j) \/ CreateFails(j)
                    \/ End(j) \/ Record(j) \/ EndUnread(j) \/ EndFails(j)
  \/ \E w \in Waiters, j \in Ids : Wait(w, j)
  \/ \E w \in Waiters : Wake(w) \/ GiveUp(w)
  \/ Crash \/ Boot

Spec == Init /\ [][Next]_vars

\* Work ends (every adapter has a time-out), a thread that has its result goes on to
\* record it, and a process that died is started again.
Fairness ==
  /\ \A j \in Ids : WF_vars(End(j)) /\ WF_vars(Record(j))
  /\ WF_vars(Boot)

FairSpec == Spec /\ Fairness

-----------------------------------------------------------------------------
(* What must hold. *)

TypeOK ==
  /\ phase \in {"up", "down"}
  /\ files \in [Ids -> File] /\ clock \in Nat /\ stuck \subseteq Ids
  /\ work \in [Ids -> {"none", "running", "recording", "ended", "dead", "lost", "unread"}]
  /\ armed \subseteq Ids /\ set \subseteq Ids
  /\ waits \in [Waiters -> {"away", "holding", "told"}]
  /\ on \in [Waiters -> Ids \cup {"none"}]
  /\ heard \in [Waiters -> {"nothing", "running", "work", "interrupted", "unknown"}]
  /\ crashes \in Nat /\ faults \in Nat

\* A job has one end: whoever was told how it ended was told the same, before and
\* after a restart, and while the file is there it says so too (finish, _submit,
\* _recover_interrupted: no client hears a result the record then denies), unless
\* finish() could not read the record to end it.
Ends == {"work", "interrupted"}

OneEnd ==
  \A w \in Waiters : heard[w] \in Ends /\ work[on[w]] # "unread" =>
    /\ \A v \in Waiters : on[v] = on[w] /\ heard[v] \in Ends => heard[v] = heard[w]
    /\ Present(files[on[w]]) => FileSays(on[w]) = heard[w]

\* The directory holds no more than Keep files but for those the last pruning could not
\* unlink: however many failed before, it makes up for them, at whatever moment
\* finish() and create() meet (_prune, finish).
DirectoryBounded == Cardinality(On(files) \ stuck) <= Keep

\* An end on file is final: no late worker, second finish or restart rewrites it; it
\* leaves only by pruning, and what was pruned never comes back.
EndsAreFinal ==
  [][\A j \in Ids :
       /\ files[j].state = "finished"
            => files'[j] \in {files[j], Gone}
       /\ files[j].state = "pruned" => files'[j] = files[j]]_vars

\* No record says "running" for ever: its thread ends it, or the restart after a crash
\* does, unless it could not be written or read (finish, _recover_interrupted).
EveryRecordEnds ==
  \A j \in Ids : files[j].state = "running" ~>
                    files[j].state # "running" \/ work[j] \in {"lost", "unread"}

\* What the docstring of Jobs says: "a result is never lost to a client that gave up:
\* the file holds it".  When the worker has ended, the file has its result.
EveryResultIsKept ==
  [][\A j \in Ids : work[j] = "running" /\ work'[j] = "ended"
                      => files'[j].state = "finished"]_vars
=============================================================================
