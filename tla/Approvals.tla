------------------------------ MODULE Approvals ------------------------------
(***************************************************************************)
(* The owner's gate: src/pionir/approvals.py (ApprovalQueue), the handlers *)
(* of src/pionir/server.py that use it (PionirApp.run_task, approve, deny, *)
(* approve_group) and the worker thread behind each call (_submit).        *)
(*                                                                         *)
(* A task is one call that runs work: the run_task call that asks for an   *)
(* action (named by the action itself) or one approve() call.  rows is the *)
(* file queue.json: every queue operation loads it, works and saves under  *)
(* one lock, so each is one step.  A file that cannot be read loads as an  *)
(* empty one (_load): most operations then find nothing to do, but a new   *)
(* question is saved alone, and a start repairs nothing.  Between the      *)
(* steps of a task anything else may happen, a crash included.  What the   *)
(* job files say of a task is the subject of the module Jobs.              *)
(*                                                                         *)
(* A definition introduced by "Mistake:" models no code: it is the next    *)
(* definition as a plausible bug would have it, and PROJECT.json names the *)
(* property that TLC finds violated when it takes that one's place.        *)
(***************************************************************************)
EXTENDS Naturals, FiniteSets

CONSTANTS
  Actions,      \* what callers ask for: one element per run_task call
  Calls,        \* the approve() calls; each mints a task id of its own
  Requests,     \* what a run_task call may carry (see RequestType)
  Clients,      \* the authenticated HTTP clients
  Approvers,    \* auth.APPROVERS, the owner's surfaces
  InProcess,    \* no client: the Discord gate's reaction, or in-process code
  ClientGrant,  \* the permissions each client's grant holds
  ExpireSingle, \* EXPIRES_AFTER: how long a question with its own card waits
  ExpireBatch,  \* DigestSettings.expires_after: how long a digest item waits
  RetainFor,    \* RETAIN_RESOLVED
  MaxTime,      \* bound: the clock stops here
  MaxCrashes,   \* bound: crashes of the process
  MaxFaults     \* bound: file writes that raise and reads that fail

Tasks == Actions \cup Calls
Callers == Clients \cup {InProcess}

\* "permit" is the capability's required_permissions; the rest are the markers
\* of batching.APPROVAL_MARKERS (NEW_ONLY_GRANT behaves as BATCHED_GRANT does).
Markers == {"owner", "batched"}
Permissions == Markers \cup {"permit"}

RequestType ==
  [kind : {"open", "privileged", "every_call"}, \* contracts.Capability
   from : Callers,                  \* who calls run_task
   named : SUBSET Permissions,      \* what an in-process caller names itself
   valid : BOOLEAN,                 \* the grant allows it and its arguments pass
   batch : BOOLEAN]                 \* batch_refusal() is None

ASSUME TasksApart == Actions \cap Calls = {} /\ "none" \notin Tasks
ASSUME RequestsTyped == Requests \subseteq RequestType /\ Requests # {}
ASSUME CallersTyped == Approvers \subseteq Clients /\ InProcess \notin Clients
\* auth.load_grants: no client's grant can hold an approval marker.
ASSUME GrantsTyped == ClientGrant \in [Clients -> SUBSET (Permissions \ Markers)]
ASSUME TimesTyped ==
  /\ ExpireSingle \in Nat /\ ExpireBatch \in Nat /\ RetainFor \in Nat
  /\ MaxTime \in Nat /\ MaxCrashes \in Nat /\ MaxFaults \in Nat

VARIABLES
  now,      \* the clock
  phase,    \* the server process: "up" or "down"
  rows,     \* queue.json, by action
  pc,       \* how far each task's thread has come
  asked,    \* the request each action carries, once asked
  target,   \* the action each task is about
  grants,   \* the permissions a task runs with
  outcome,  \* what a task has to report
  ran,      \* history: the tasks whose adapter was called, by action
  yeses,    \* history: <<action, who>> for every claim made
  crashes, faults

taskVars == <<pc, target, grants, outcome>>
history == <<asked, ran, yeses>>
bounds == <<crashes, faults>>
vars == <<now, phase, rows, taskVars, history, bounds>>

-----------------------------------------------------------------------------
(* The queue file. *)

Row == [status : {"absent", "pending", "running", "approved", "approved_failed",
                  "denied", "dropped"},
        reason : {"none", "expired", "interrupted"},
        task : Calls \cup {"none"}, expires : Nat, resolvedAt : Nat,
        file : {"kept", "skipped", "gone"}] \* what a failed read did to it

NoRow == [status |-> "absent", reason |-> "none", task |-> "none",
          expires |-> 0, resolvedAt |-> 0, file |-> "kept"]

\* The file holds the row with this status.
Stands(r, s) == r.status = s /\ r.file # "gone"

Resolved == {"approved", "approved_failed", "denied"}

\* _retain: a row resolved long enough ago leaves the file.
Retain(rs) ==
  [a \in Actions |->
     IF (\E s \in Resolved : Stands(rs[a], s)) /\ rs[a].resolvedAt + RetainFor < now
     THEN [rs[a] EXCEPT !.status = "dropped"] ELSE rs[a]]

\* _save, always through _retain.
Save(rs) == rows' = Retain(rs)

\* Mistake: a question is still open at its deadline.
OverdueLate(r) == Stands(r, "pending") /\ now > r.expires

\* Mistake: a claimed row expires under its worker.
OverdueRunning(r) ==
  (Stands(r, "pending") \/ Stands(r, "running")) /\ now >= r.expires

\* _expired and _sweep: a pending row past its deadline is denied.
Overdue(r) == Stands(r, "pending") /\ now >= r.expires

\* Mistake: nobody denies the overdue.
SweepNone(rs) == rs

Sweep(rs) ==
  [a \in Actions |->
     IF Overdue(rs[a])
     THEN [rs[a] EXCEPT !.status = "denied", !.reason = "expired", !.resolvedAt = now]
     ELSE rs[a]]

\* What an operation that changed nothing else writes: the sweep, if it denied any.
SaveIfSwept == IF Sweep(rows) # rows THEN Save(Sweep(rows)) ELSE UNCHANGED rows

\* enqueue's new row.
Deadline(batch) == now + (IF batch THEN ExpireBatch ELSE ExpireSingle)

Parked(batch) == [NoRow EXCEPT !.status = "pending", !.expires = Deadline(batch)]

\* enqueue on a file it could not read: the new row is all there is left.
Overwritten(a, new) ==
  [b \in Actions |-> IF b = a THEN new
                     ELSE IF rows[b].status = "absent" THEN rows[b]
                     ELSE [rows[b] EXCEPT !.file = "gone"]]

\* claim: only what is pending, after the sweep.
\* Mistake: whatever is not resolved yet can be claimed.
ClaimableUnresolved(r) == Stands(r, "pending") \/ Stands(r, "running")

Claimable(r) == Stands(r, "pending")

\* Mistake: resolve() looks for a pending row whatever it is asked.
ResolvePending(a, from, to, why) ==
  IF Stands(Sweep(rows)[a], "pending")
  THEN Save([Sweep(rows) EXCEPT ![a].status = to, ![a].reason = why, ![a].resolvedAt = now])
  ELSE SaveIfSwept

\* Mistake: a no is taken for a row that already runs.
ResolveOpen(a, from, to, why) ==
  IF Stands(Sweep(rows)[a], "pending") \/ Stands(Sweep(rows)[a], "running")
  THEN Save([Sweep(rows) EXCEPT ![a].status = to, ![a].reason = why, ![a].resolvedAt = now])
  ELSE SaveIfSwept

\* resolve(id, status, from_status=..., reason=...).
Resolve(a, from, to, why) ==
  IF Stands(Sweep(rows)[a], from)
  THEN Save([Sweep(rows) EXCEPT ![a].status = to, ![a].reason = why, ![a].resolvedAt = now])
  ELSE SaveIfSwept

-----------------------------------------------------------------------------
(* What run_task decides before anything is parked or run. *)

\* A client's permissions are its grant's; an in-process caller's are the ones it
\* names, less the approval markers.
Granted(q) == IF q.from = InProcess THEN q.named \ Markers ELSE ClientGrant[q.from]

\* batching.parks: every-call approvals always, a privileged capability when the
\* caller lacks its permission.
Parks(q) == \/ q.kind = "every_call"
            \/ q.kind = "privileged" /\ "permit" \notin Granted(q)

\* Mistake: an asker on one of the owner's surfaces answers itself.
MayApproveOwn(a, who) == who # InProcess => who \in Approvers

\* _approver_refusal: only the owner's surfaces, and never the asker itself.
MayApprove(a, who) ==
  who # InProcess => who \in Approvers /\ who # asked[a].from

\* approve(): the row's own permissions, the owner's mark and, for a digest item,
\* the batched restriction.
ApprovedGrants(a) == {"permit", "owner"} \cup (IF asked[a].batch THEN {"batched"} ELSE {})

-----------------------------------------------------------------------------
(* The server's steps. *)

Init ==
  /\ now = 0
  /\ phase = "up"
  /\ rows = [a \in Actions |-> NoRow]
  /\ pc = [t \in Tasks |-> "idle"]
  /\ asked = [a \in Actions |-> CHOOSE q \in Requests : TRUE]
  /\ target = [t \in Tasks |-> IF t \in Actions THEN t ELSE "none"]
  /\ grants = [t \in Tasks |-> {}]
  /\ outcome = [t \in Tasks |-> "none"]
  /\ ran = [a \in Actions |-> {}]
  /\ yeses = {}
  /\ crashes = 0 /\ faults = 0

Fault == faults < MaxFaults /\ faults' = faults + 1

\* run_task: refused, parked, or submitted to run with what the caller holds.  The
\* job that records a refusal or a parking changes nothing here.  The bound keeps
\* every deadline inside the clock's range.
RunTask(a, q) ==
  /\ phase = "up" /\ pc[a] = "idle"
  /\ Deadline(q.batch) <= MaxTime
  /\ asked' = [asked EXCEPT ![a] = q]
  /\ \/ /\ ~q.valid
        /\ pc' = [pc EXCEPT ![a] = "done"]
        /\ UNCHANGED <<rows, grants, faults>>
     \/ /\ q.valid /\ Parks(q)
        /\ \/ /\ Save([Sweep(rows) EXCEPT ![a] = Parked(q.batch)])
              /\ UNCHANGED faults
           \/ rows' = Overwritten(a, Parked(q.batch)) /\ Fault
        /\ pc' = [pc EXCEPT ![a] = "done"]
        /\ UNCHANGED grants
     \/ /\ q.valid /\ ~Parks(q)
        /\ pc' = [pc EXCEPT ![a] = "submitting"]
        /\ grants' = [grants EXCEPT ![a] = Granted(q)]
        /\ UNCHANGED <<rows, faults>>
  /\ UNCHANGED <<now, phase, target, outcome, ran, yeses, crashes>>

\* approve() up to the claim; approve_group() is a read-only check followed by
\* approve() calls, so each of its runs is a sequence of these.
Approve(c, a, who) ==
  /\ phase = "up" /\ pc[c] = "idle" /\ rows[a].status # "absent"
  /\ MayApprove(a, who)
  /\ IF ~Claimable(Sweep(rows)[a])
     THEN SaveIfSwept /\ UNCHANGED <<pc, target, grants, yeses>>
     ELSE /\ Save([Sweep(rows) EXCEPT ![a].status = "running", ![a].task = c])
          /\ pc' = [pc EXCEPT ![c] = "submitting"]
          /\ target' = [target EXCEPT ![c] = a]
          /\ grants' = [grants EXCEPT ![c] = ApprovedGrants(a)]
          /\ yeses' = yeses \cup {<<a, who>>}
  /\ UNCHANGED <<now, phase, outcome, asked, ran, bounds>>

\* deny(): pending to denied, by the owner's surfaces only.
Deny(a, who) ==
  /\ phase = "up" /\ rows[a].status # "absent"
  /\ who # InProcess => who \in Approvers
  /\ Resolve(a, "pending", "denied", "none")
  /\ UNCHANGED <<now, phase, taskVars, history, bounds>>

\* Any reader that sweeps: pending(), batched_expired().  The Discord gate polls.
Look ==
  /\ phase = "up"
  /\ Sweep(rows) # rows
  /\ Save(Sweep(rows))
  /\ UNCHANGED <<now, phase, taskVars, history, bounds>>

\* note_digest: a pending digest item is listed under a new date; the date is not
\* modelled, the save (and so the retention) is.
NoteDigest(a) ==
  /\ phase = "up"
  /\ Stands(rows[a], "pending") /\ asked[a].batch
  /\ Save(rows)
  /\ UNCHANGED <<now, phase, taskVars, history, bounds>>

\* _submit: the job file is written and the worker thread starts.
Submit(t) ==
  /\ phase = "up" /\ pc[t] = "submitting"
  /\ pc' = [pc EXCEPT ![t] = "queued"]
  /\ UNCHANGED <<now, phase, rows, target, grants, outcome, history, bounds>>

\* _execute_task reaches the adapter: from here on the action has its effect.
Act(t) ==
  /\ phase = "up" /\ pc[t] = "queued"
  /\ pc' = [pc EXCEPT ![t] = "acting"]
  /\ ran' = [ran EXCEPT ![target[t]] = @ \cup {t}]
  /\ UNCHANGED <<now, phase, rows, target, grants, outcome, asked, yeses, bounds>>

\* _execute_task returns: the adapter's verdict, or a refusal before the adapter
\* (circuit open, no lease, permission) which is never a success.
Return(t) ==
  /\ phase = "up" /\ pc[t] \in {"queued", "acting"}
  /\ pc' = [pc EXCEPT ![t] = "returned"]
  /\ \E o \in {"ok", "bad"} :
       /\ pc[t] = "queued" => o = "bad"
       /\ outcome' = [outcome EXCEPT ![t] = o]
  /\ UNCHANGED <<now, phase, rows, target, grants, history, bounds>>

\* finish(): the approval's end, from the work's own verdict.
FinalStatus(o) == IF o = "ok" THEN "approved" ELSE "approved_failed"

\* The worker's on_finish, before the job is marked finished: approve() records
\* the approval's end.  A direct run has none.
Settle(t) ==
  /\ phase = "up" /\ pc[t] = "returned"
  /\ IF t \in Calls
     THEN Resolve(target[t], "running", FinalStatus(outcome[t]), "none")
     ELSE UNCHANGED rows
  /\ pc' = [pc EXCEPT ![t] = "done"]
  /\ UNCHANGED <<now, phase, target, grants, outcome, history, bounds>>

\* A file write raises.  In Jobs.create the handler ends, and what it claimed stays
\* claimed; in on_finish _submit logs it and goes on, as it does when resolve() could
\* not read the row.
WriteFails(t) ==
  /\ phase = "up" /\ Fault
  /\ \/ pc[t] = "submitting" /\ pc' = [pc EXCEPT ![t] = "failed"]
     \/ pc[t] = "returned" /\ t \in Calls /\ pc' = [pc EXCEPT ![t] = "unsettled"]
  /\ UNCHANGED <<now, phase, rows, target, grants, outcome, history, crashes>>

-----------------------------------------------------------------------------
(* Time, crashes and restarts. *)

Tick ==
  /\ now < MaxTime
  /\ now' = now + 1
  /\ UNCHANGED <<phase, rows, taskVars, history, bounds>>

\* The process dies, and every thread with it; the file stays.
Crash ==
  /\ phase = "up" /\ crashes < MaxCrashes
  /\ phase' = "down"
  /\ pc' = [t \in Tasks |-> IF pc[t] \in {"idle", "done"} THEN pc[t] ELSE "dead"]
  /\ crashes' = crashes + 1
  /\ UNCHANGED <<now, rows, target, grants, outcome, history, faults>>

\* Mistake: an interrupted row is asked again.
InterruptReopens(rs) ==
  [a \in Actions |->
     IF Stands(rs[a], "running") THEN [rs[a] EXCEPT !.status = "pending"] ELSE rs[a]]

\* Mistake: a restart leaves running rows alone.
InterruptNone(rs) == rs

\* ApprovalQueue.__init__: a row left running is denied, saved if any was.
Interrupt(rs) ==
  [a \in Actions |->
     IF Stands(rs[a], "running")
     THEN [rs[a] EXCEPT !.status = "denied", !.reason = "interrupted", !.resolvedAt = now]
     ELSE rs[a]]

\* A start that cannot read the file leaves its running rows as they are.
Skipped ==
  [a \in Actions |->
     IF Stands(rows[a], "running") THEN [rows[a] EXCEPT !.file = "skipped"] ELSE rows[a]]

Boot ==
  /\ phase = "down"
  /\ phase' = "up"
  /\ \/ /\ IF Interrupt(rows) # rows THEN Save(Interrupt(rows)) ELSE UNCHANGED rows
        /\ UNCHANGED faults
     \/ rows' = Skipped /\ Fault
  /\ UNCHANGED <<now, taskVars, history, crashes>>

Step(t) ==
  Submit(t) \/ Act(t) \/ Return(t) \/ Settle(t) \/ WriteFails(t)

Next ==
  \/ \E a \in Actions, q \in Requests : RunTask(a, q)
  \/ \E c \in Calls, a \in Actions, who \in Callers : Approve(c, a, who)
  \/ \E a \in Actions, who \in Callers : Deny(a, who)
  \/ \E a \in Actions : NoteDigest(a)
  \/ \E t \in Tasks : Step(t)
  \/ Look \/ Tick \/ Crash \/ Boot

Spec == Init /\ [][Next]_vars

\* The clock runs, the gate polls, a process that died is restarted, and a thread
\* that was started runs on: adapters and the executive answer within time-outs.
\* Nothing is assumed of the callers or of the owner.
Fairness ==
  /\ WF_vars(Tick) /\ WF_vars(Look) /\ WF_vars(Boot)
  /\ \A t \in Tasks : WF_vars(Submit(t)) /\ WF_vars(Return(t)) /\ WF_vars(Settle(t))

FairSpec == Spec /\ Fairness

-----------------------------------------------------------------------------
(* What must hold. *)

PCs == {"idle", "submitting", "queued", "acting", "returned", "done",
        "failed", "unsettled", "dead"}

TypeOK ==
  /\ now \in Nat /\ phase \in {"up", "down"}
  /\ rows \in [Actions -> Row]
  /\ pc \in [Tasks -> PCs]
  /\ asked \in [Actions -> Requests]
  /\ target \in [Tasks -> Actions \cup {"none"}]
  /\ grants \in [Tasks -> SUBSET Permissions]
  /\ outcome \in [Tasks -> {"none", "ok", "bad"}]
  /\ ran \in [Actions -> SUBSET Tasks]
  /\ yeses \subseteq Actions \X Callers
  /\ crashes \in Nat /\ faults \in Nat

\* No action has its effect twice, whatever double taps, retries, crashes and
\* restarts come between the claim and the end of its run (approve, claim).
RunsAtMostOnce == \A a \in Actions : \A t, u \in ran[a] : t = u

\* Whatever needed the owner, and whatever ran carrying the owner's mark, ran after
\* a yes from a surface of the owner's that had not asked for it (run_task's parking
\* and stripping of markers, _approver_refusal, approve).
YesFrom(a, who) ==
  /\ <<a, who>> \in yeses
  /\ who # InProcess => who \in Approvers /\ who # asked[a].from

RunsOnlyOnTheOwnersYes ==
  \A a \in Actions : \A t \in ran[a] :
    Parks(asked[a]) \/ grants[t] \cap Markers # {} => \E who \in Callers : YesFrom(a, who)

\* What the queue says of an action is what happened to it: denied or expired means
\* it never ran, approved means it ran and succeeded, failed that its call said so,
\* and only an interrupted run leaves it open (claim, resolve, _sweep, __init__).
RecordTellsTheTruth ==
  \A a \in Actions :
    /\ rows[a].status \in {"pending", "denied"} /\ rows[a].reason # "interrupted"
         => ran[a] = {}
    /\ rows[a].status = "approved"
         => ran[a] = {rows[a].task} /\ outcome[rows[a].task] = "ok"
    /\ rows[a].status = "approved_failed" => outcome[rows[a].task] = "bad"

\* While the server is up, a running row on file has a live worker of its own, unless
\* a write of that very task failed, or a start could not read the file (claim,
\* _submit, ApprovalQueue.__init__): a crash alone leaves no latch behind, and
\* whoever sees the job finished sees the row settled.
AtWork == {"submitting", "queued", "acting", "returned"}
Orphaned == {"failed", "unsettled"}

RunningHasItsWorker ==
  \A a \in Actions :
    phase = "up" /\ rows[a].status = "running" /\ rows[a].file = "kept"
      => /\ target[rows[a].task] = a
         /\ pc[rows[a].task] \in AtWork \cup Orphaned

\* A row only moves forward: nothing resolved is ever reopened or re-labelled, no
\* row past its deadline starts to run, and nothing leaves the file unresolved but
\* with the file itself, at a read that failed (claim, resolve, _retain, _load).
Forward(r, s) ==
  \/ s = r
  \/ r.status = "absent" /\ s.status = "pending"
  \/ r.status = "pending" /\ s.status \in {"running", "denied"}
  \/ r.status = "running" /\ s.status \in Resolved
  \/ r.status \in Resolved /\ s = [r EXCEPT !.status = "dropped"]
  \/ s = [r EXCEPT !.file = s.file] /\ faults' > faults

RowsMoveForward ==
  [][\A a \in Actions :
       /\ Forward(rows[a], rows'[a])
       /\ rows[a].status = "pending" /\ rows'[a].status = "running"
            => now < rows[a].expires]_vars

\* No question stays open for ever: it is answered, or it expires (_sweep), or it was
\* lost with the file.
EveryQuestionCloses ==
  \A a \in Actions : rows[a].status = "pending" ~> ~ Stands(rows[a], "pending")

\* No claimed action stays "running" for ever: its run is recorded, or the restart
\* after a crash denies it, unless a write of its task or a read of the file failed.
EveryRunSettles ==
  \A a \in Actions :
    rows[a].status = "running"
      ~> \/ rows[a].status # "running" \/ rows[a].file # "kept"
         \/ phase = "up" /\ pc[rows[a].task] \in Orphaned

\* The abstract gate: only what needed the owner counts as an attempt.
Gate == INSTANCE OwnerGate WITH
  stage <- [a \in Actions |->
              CASE rows[a].status = "absent" -> "unasked"
                [] rows[a].status = "pending" -> "waiting"
                [] rows[a].status = "running" -> "allowed"
                [] OTHER -> "closed"],
  attempts <- {a \in Actions : ran[a] \cap Calls # {}}

\* The queue, handlers and workers implement the gate (OwnerGate); an action whose
\* row is lost stays where it stood.
ImplementsOwnerGate == Gate!GateSpec
=============================================================================
