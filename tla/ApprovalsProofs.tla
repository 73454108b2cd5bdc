--------------------------- MODULE ApprovalsProofs ---------------------------
(***************************************************************************)
(* Proofs about the owner's gate, for every set of actions, calls, callers *)
(* and requests, every time-out and any number of crashes and faults.      *)
(***************************************************************************)
EXTENDS Approvals, TLAPS

-----------------------------------------------------------------------------
(* The inductive invariant. *)

\* A call at work holds its row: the row is running and names the call.
ClaimHeld ==
  \A c \in Calls : pc[c] \in AtWork =>
    /\ phase = "up"
    /\ target[c] \in Actions
    /\ rows[target[c]].status = "running"
    /\ rows[target[c]].task = c

\* A call that once claimed a row had the owner's yes for it.
ClaimAllowed ==
  \A c \in Calls : target[c] \in Actions =>
    /\ pc[c] # "idle"
    /\ rows[target[c]].status \notin {"absent", "pending"}
    /\ \E who \in Callers : YesFrom(target[c], who)

\* A row names the call that claimed it, and no call before the claim.
RowNamesItsCall ==
  \A a \in Actions :
    /\ rows[a].status \in {"absent", "pending"} => rows[a].task = "none"
    /\ rows[a].status \in {"running", "approved", "approved_failed"} => rows[a].task # "none"
    /\ rows[a].task # "none" => target[rows[a].task] = a

\* An action that was not parked has no row, and runs without any marker.
DirectRun ==
  \A a \in Actions :
    /\ target[a] = a
    /\ pc[a] = "idle" => rows[a].status = "absent"
    /\ pc[a] \in AtWork \/ a \in ran[a] =>
         /\ pc[a] # "idle"
         /\ rows[a].status = "absent"
         /\ ~Parks(asked[a])
         /\ grants[a] \cap Markers = {}

\* What has run: the action's own direct call, or the call its row names.
RanByItsTask ==
  \A a \in Actions : \A t \in ran[a] :
    /\ target[t] = a
    /\ pc[t] \notin {"idle", "submitting", "queued"}
    /\ t \in Calls => t = rows[a].task

\* A task that returned has its verdict, and a success is only reported by one that ran.
SuccessRan ==
  \A t \in Tasks :
    /\ pc[t] = "returned" => outcome[t] \in {"ok", "bad"}
    /\ pc[t] = "acting" => t \in ran[target[t]]
    /\ pc[t] = "returned" /\ outcome[t] = "ok" => t \in ran[target[t]]

IInv ==
  /\ TypeOK
  /\ ClaimHeld
  /\ ClaimAllowed
  /\ RowNamesItsCall
  /\ DirectRun
  /\ RanByItsTask
  /\ SuccessRan
  /\ RecordTellsTheTruth
  /\ RunningHasItsWorker

-----------------------------------------------------------------------------
(* What the queue's operations do to one row. *)

\* A row that no task of its own moves: it stays, is denied while pending, leaves
\* the file once resolved, or is lost with it.
Drift(r, s) ==
  \/ s = r
  \/ r.status # "absent" /\ s = [r EXCEPT !.file = "gone"]
  \/ /\ r.status = "pending"
     /\ \E why \in {"none", "expired"} :
          s = [r EXCEPT !.status = "denied", !.reason = why, !.resolvedAt = now]
  \/ r.status \in Resolved /\ s = [r EXCEPT !.status = "dropped"]

\* What the invariant needs of it.
DriftFacts(r, s) ==
  /\ s.task = r.task
  /\ r.status = "absent" => s = r
  /\ r.status = "running" => s.status = "running" /\ (s = r \/ s.file = "gone")
  /\ s.status # r.status =>
              /\ s.status \in {"denied", "dropped"}
              /\ r.status \in {"pending"} \cup Resolved
              /\ s.status = "denied" => r.status = "pending"
  /\ s.status = r.status => s.reason = r.reason

LEMMA DriftFactsHold ==
  ASSUME NEW r \in Row, NEW s, Drift(r, s)
  PROVE  DriftFacts(r, s)
  BY DEF Drift, DriftFacts, Row, Resolved

LEMMA SweepDrifts ==
  ASSUME rows \in [Actions -> Row], now \in Nat
  PROVE  /\ Sweep(rows) \in [Actions -> Row]
         /\ \A a \in Actions :
              \/ Sweep(rows)[a] = rows[a] /\ ~Overdue(rows[a])
              \/ /\ rows[a].status = "pending"
                 /\ Sweep(rows)[a].status = "denied" /\ Sweep(rows)[a].file = rows[a].file
                 /\ Sweep(rows)[a] = [rows[a] EXCEPT !.status = "denied",
                                        !.reason = "expired", !.resolvedAt = now]
<1> DEFINE Expired(a) == [rows[a] EXCEPT !.status = "denied", !.reason = "expired",
                                         !.resolvedAt = now]
<1>1. ASSUME NEW a \in Actions
      PROVE  /\ Expired(a) \in Row
             /\ Expired(a).status = "denied" /\ Expired(a).file = rows[a].file
  <2>1. rows[a] \in Row
    OBVIOUS
  <2> QED BY <2>1 DEF Row
<1>2. Sweep(rows) = [a \in Actions |-> IF Overdue(rows[a]) THEN Expired(a) ELSE rows[a]]
  BY DEF Sweep
<1>3. \A a \in Actions : Overdue(rows[a]) => rows[a].status = "pending"
  BY DEF Overdue, Stands
<1> HIDE DEF Expired
<1>4. Sweep(rows) \in [Actions -> Row]
  BY <1>1, <1>2
<1>5. \A a \in Actions :
        \/ Sweep(rows)[a] = rows[a] /\ ~Overdue(rows[a])
        \/ /\ rows[a].status = "pending" /\ Sweep(rows)[a] = Expired(a)
           /\ Sweep(rows)[a].status = "denied" /\ Sweep(rows)[a].file = rows[a].file
  BY <1>1, <1>2, <1>3
<1> QED BY <1>4, <1>5 DEF Expired

LEMMA RetainDrifts ==
  ASSUME NEW rs \in [Actions -> Row], now \in Nat
  PROVE  /\ Retain(rs) \in [Actions -> Row]
         /\ \A a \in Actions :
              \/ Retain(rs)[a] = rs[a]
              \/ /\ rs[a].status \in Resolved
                 /\ rs[a].resolvedAt + RetainFor < now
                 /\ Retain(rs)[a] = [rs[a] EXCEPT !.status = "dropped"]
  BY DEF Retain, Resolved, Stands, Row

LEMMA JustResolved == ASSUME now \in Nat PROVE ~(now + RetainFor < now)
  BY TimesTyped

\* Saving the swept rows with one row b replaced by r leaves r at b, if r is open or
\* was resolved just now, and lets every other row drift.
LEMMA SaveDrifts ==
  ASSUME rows \in [Actions -> Row], now \in Nat,
         NEW b \in Actions, NEW r \in Row,
         r.status \in Resolved => r.resolvedAt = now,
         Save([Sweep(rows) EXCEPT ![b] = r])
  PROVE  /\ rows' \in [Actions -> Row]
         /\ rows'[b] = r
         /\ \A a \in Actions \ {b} : Drift(rows[a], rows'[a])
<1> DEFINE rs == [Sweep(rows) EXCEPT ![b] = r]
<1>1. rs \in [Actions -> Row] /\ rs[b] = r /\ \A a \in Actions \ {b} : rs[a] = Sweep(rows)[a]
  BY SweepDrifts
<1>2. rows' = Retain(rs)
  BY DEF Save
<1>3. rows' \in [Actions -> Row]
  BY <1>1, <1>2, RetainDrifts
<1>4. rows'[b] = r
  <2>1. RetainFor \in Nat
    BY TimesTyped
  <2>2. ~(r.status \in Resolved /\ r.resolvedAt + RetainFor < now)
    BY <2>1
  <2> QED BY <1>1, <1>2, <2>2, RetainDrifts
<1>5. ASSUME NEW a \in Actions \ {b}
      PROVE  Drift(rows[a], rows'[a])
  <2>1. rs[a] = Sweep(rows)[a]
    BY <1>1
  <2>2. CASE Sweep(rows)[a] = rows[a]
    BY <2>1, <2>2, <1>1, <1>2, RetainDrifts DEF Drift
  <2>3. CASE /\ rows[a].status = "pending"
             /\ Sweep(rows)[a] = [rows[a] EXCEPT !.status = "denied",
                                    !.reason = "expired", !.resolvedAt = now]
    <3>1. rs[a].resolvedAt = now
      BY <2>1, <2>3 DEF Row
    <3>2. Retain(rs)[a] = rs[a]
      BY <3>1, JustResolved DEF Retain
    <3> QED BY <2>1, <2>3, <3>2, <1>2 DEF Drift
  <2> QED BY <2>2, <2>3, SweepDrifts
<1> QED BY <1>3, <1>4, <1>5

\* So does a new question saved alone, over a file that could not be read.
LEMMA OverwrittenDrifts ==
  ASSUME rows \in [Actions -> Row],
         NEW b \in Actions, NEW r \in Row, rows' = Overwritten(b, r)
  PROVE  /\ rows' \in [Actions -> Row]
         /\ rows'[b] = r
         /\ \A a \in Actions \ {b} : Drift(rows[a], rows'[a])
<1>1. \A a \in Actions \ {b} : rows'[a] \in Row /\ Drift(rows[a], rows'[a])
  BY DEF Overwritten, Drift, Row
<1>2. rows'[b] = r
  BY DEF Overwritten
<1>3. rows' = [a \in Actions |-> rows'[a]]
  BY DEF Overwritten
<1> QED BY <1>1, <1>2, <1>3

LEMMA SaveSweptDrifts ==
  ASSUME rows \in [Actions -> Row], now \in Nat, Save(Sweep(rows))
  PROVE  rows' \in [Actions -> Row] /\ \A a \in Actions : Drift(rows[a], rows'[a])
<1>1. rows' = Retain(Sweep(rows)) /\ Sweep(rows) \in [Actions -> Row]
  BY SweepDrifts DEF Save
<1>2. ASSUME NEW a \in Actions
      PROVE  Drift(rows[a], rows'[a])
  <2>2. CASE Sweep(rows)[a] = rows[a]
    BY <2>2, <1>1, RetainDrifts DEF Drift
  <2>3. CASE /\ rows[a].status = "pending"
             /\ Sweep(rows)[a] = [rows[a] EXCEPT !.status = "denied",
                                    !.reason = "expired", !.resolvedAt = now]
    <3>1. Sweep(rows)[a].resolvedAt = now
      BY <2>3 DEF Row
    <3>2. Retain(Sweep(rows))[a] = Sweep(rows)[a]
      BY <3>1, JustResolved DEF Retain
    <3> QED BY <2>3, <3>2, <1>1 DEF Drift
  <2> QED BY <2>2, <2>3, SweepDrifts
<1> QED BY <1>1, <1>2, RetainDrifts

LEMMA SaveIfSweptDrifts ==
  ASSUME rows \in [Actions -> Row], now \in Nat, SaveIfSwept
  PROVE  rows' \in [Actions -> Row] /\ \A a \in Actions : Drift(rows[a], rows'[a])
  BY SaveSweptDrifts DEF SaveIfSwept, Drift

-----------------------------------------------------------------------------
(* The invariant holds initially and every step keeps it. *)

LEMMA InitIInv == Init => IInv
<1> SUFFICES ASSUME Init PROVE IInv
  OBVIOUS
<1> USE DEF Init, Tasks
<1>1. TypeOK
  BY RequestsTyped DEF TypeOK, NoRow, Row, PCs, vars
<1>2. ClaimHeld /\ ClaimAllowed
  BY TasksApart DEF ClaimHeld, ClaimAllowed, AtWork
<1>3. RowNamesItsCall /\ DirectRun /\ RanByItsTask /\ SuccessRan
  BY DEF RowNamesItsCall, DirectRun, RanByItsTask, SuccessRan, NoRow, AtWork
<1>4. RecordTellsTheTruth /\ RunningHasItsWorker
  BY DEF RecordTellsTheTruth, RunningHasItsWorker, NoRow
<1> QED BY <1>1, <1>2, <1>3, <1>4 DEF IInv

\* Nothing has run for a row that waits or was never parked, but its own direct call.
LEMMA PendingNotRun ==
  ASSUME IInv, NEW a \in Actions
  PROVE  /\ rows[a].status = "pending" => ran[a] = {}
         /\ rows[a].status = "absent" => ran[a] \subseteq {a}
<1>1. ran[a] \subseteq Tasks
  BY DEF IInv, TypeOK
<1>2. \A t \in ran[a] : t \in Calls => t = rows[a].task /\ t # "none"
  BY TasksApart DEF IInv, RanByItsTask, Tasks
<1>3. \A t \in ran[a] : t \in Actions => t = a
  BY DEF IInv, RanByItsTask, DirectRun
<1>4. a \in ran[a] => rows[a].status = "absent"
  BY DEF IInv, DirectRun
<1>5. rows[a].status \in {"absent", "pending"} => rows[a].task = "none"
  BY DEF IInv, RowNamesItsCall
<1> QED BY <1>1, <1>2, <1>3, <1>4, <1>5 DEF Tasks

\* Rows that only drift, with every task and the history as they were, keep it.
LEMMA DriftKeeps ==
  ASSUME IInv,
         rows' \in [Actions -> Row], \A a \in Actions : Drift(rows[a], rows'[a]),
         UNCHANGED <<phase, taskVars, history>>,
         now' \in Nat, crashes' \in Nat, faults' \in Nat
  PROVE  IInv'
<1> USE DEF IInv, taskVars, history
<1>1. TypeOK'
  BY DEF TypeOK
<1>2. \A a \in Actions : DriftFacts(rows[a], rows'[a])
  BY DriftFactsHold DEF TypeOK
<1> USE DEF DriftFacts
<1>3. ClaimHeld'
  BY <1>2 DEF ClaimHeld
<1>4. ClaimAllowed'
  BY <1>2 DEF ClaimAllowed, YesFrom
<1>5. RowNamesItsCall'
  BY <1>2 DEF RowNamesItsCall
<1>6. DirectRun'
  BY <1>2 DEF DirectRun, Parks, Granted
<1>7. RanByItsTask' /\ SuccessRan'
  BY <1>2 DEF RanByItsTask, SuccessRan
<1>8. RecordTellsTheTruth'
  <2> QED BY <1>2, PendingNotRun DEF RecordTellsTheTruth
<1>9. RunningHasItsWorker'
  BY <1>2 DEF RunningHasItsWorker
<1> QED BY <1>1, <1>3, <1>4, <1>5, <1>6, <1>7, <1>8, <1>9

LEMMA ResolveDrifts ==
  ASSUME IInv, NEW b \in Actions, Resolve(b, "pending", "denied", "none")
  PROVE  rows' \in [Actions -> Row] /\ \A a \in Actions : Drift(rows[a], rows'[a])
<1>0. rows \in [Actions -> Row] /\ now \in Nat
  BY DEF IInv, TypeOK
<1>1. CASE Stands(Sweep(rows)[b], "pending")
  <2> DEFINE r == [Sweep(rows)[b] EXCEPT !.status = "denied", !.reason = "none",
                                         !.resolvedAt = now]
  <2>1. Sweep(rows) \in [Actions -> Row] /\ Sweep(rows)[b] = rows[b]
        /\ rows[b].status = "pending"
    <3>1. Sweep(rows)[b].status = "pending"
      BY <1>1 DEF Stands
    <3> QED BY <1>0, <3>1, SweepDrifts
  <2>2. r \in Row /\ r.resolvedAt = now
    BY <1>0, <2>1 DEF Row
  <2>3. Save([Sweep(rows) EXCEPT ![b] = r])
    BY <1>1, <2>1 DEF Resolve, Row
  <2>4. Drift(rows[b], r)
    BY <2>1 DEF Drift
  <2> HIDE DEF r
  <2>5. rows' \in [Actions -> Row] /\ rows'[b] = r
        /\ \A a \in Actions \ {b} : Drift(rows[a], rows'[a])
    BY <1>0, <2>2, <2>3, SaveDrifts
  <2> QED BY <2>4, <2>5
<1>2. CASE ~ Stands(Sweep(rows)[b], "pending")
  BY <1>0, <1>2, SaveIfSweptDrifts DEF Resolve
<1> QED BY <1>1, <1>2

LEMMA RetainSteps ==
  ASSUME IInv, Save(rows)
  PROVE  rows' \in [Actions -> Row] /\ \A a \in Actions : Drift(rows[a], rows'[a])
  BY RetainDrifts DEF IInv, TypeOK, Save, Drift

LEMMA DriftingSteps ==
  ASSUME IInv,
         \/ \E a \in Actions, who \in Callers : Deny(a, who)
         \/ \E a \in Actions : NoteDigest(a)
         \/ Look \/ Tick \/ UNCHANGED vars
  PROVE  IInv'
<1>0. /\ rows \in [Actions -> Row] /\ now \in Nat
      /\ crashes \in Nat /\ faults \in Nat
  BY DEF IInv, TypeOK
<1>1. ASSUME NEW a \in Actions, NEW who \in Callers, Deny(a, who)
      PROVE  IInv'
  BY <1>0, <1>1, ResolveDrifts, DriftKeeps DEF Deny, bounds
<1>2. ASSUME NEW a \in Actions, NoteDigest(a)
      PROVE  IInv'
  BY <1>0, <1>2, RetainSteps, DriftKeeps DEF NoteDigest, bounds
<1>3. CASE Look
  BY <1>0, <1>3, SaveSweptDrifts, DriftKeeps DEF Look, bounds
<1>4. CASE Tick
  BY <1>0, <1>4, DriftKeeps DEF Tick, bounds, Drift
<1>5. CASE UNCHANGED vars
  BY <1>0, <1>5, DriftKeeps DEF vars, bounds, Drift
<1> QED BY <1>1, <1>2, <1>3, <1>4, <1>5

\* A step of task t that leaves the queue alone.
LEMMA SubmitKeeps ==
  ASSUME IInv, NEW t \in Tasks, Submit(t)
  PROVE  IInv'
<1> USE DEF IInv, Submit, history, bounds, Tasks
<1>1. TypeOK'
  BY DEF TypeOK, PCs
<1>2. ClaimHeld' /\ ClaimAllowed'
  <2>1. ClaimHeld'
    BY DEF TypeOK, ClaimHeld, AtWork
  <2>2. ClaimAllowed'
    BY DEF TypeOK, ClaimAllowed, YesFrom
  <2> QED BY <2>1, <2>2
<1>3. RowNamesItsCall' /\ DirectRun'
  BY DEF TypeOK, RowNamesItsCall, DirectRun, AtWork, Parks, Granted
<1>4. RanByItsTask' /\ SuccessRan'
  BY DEF TypeOK, RanByItsTask, SuccessRan
<1>5. RecordTellsTheTruth' /\ RunningHasItsWorker'
  BY DEF TypeOK, RecordTellsTheTruth, RunningHasItsWorker, AtWork
<1> QED BY <1>1, <1>2, <1>3, <1>4, <1>5

LEMMA WriteFailsKeeps ==
  ASSUME IInv, NEW t \in Tasks, WriteFails(t)
  PROVE  IInv'
<1> USE DEF IInv, WriteFails, Fault, history, Tasks
<1>1. TypeOK'
  BY DEF TypeOK, PCs
<1>2. ClaimHeld' /\ ClaimAllowed'
  <2>1. ClaimHeld'
    BY DEF TypeOK, ClaimHeld, AtWork
  <2>2. ClaimAllowed'
    BY DEF TypeOK, ClaimAllowed, YesFrom
  <2> QED BY <2>1, <2>2
<1>3. RowNamesItsCall' /\ DirectRun'
  BY DEF TypeOK, RowNamesItsCall, DirectRun, AtWork, Parks, Granted
<1>4. RanByItsTask' /\ SuccessRan'
  BY DEF TypeOK, RanByItsTask, SuccessRan
<1>5. RecordTellsTheTruth'
  BY DEF RecordTellsTheTruth
<1>6. RunningHasItsWorker'
  BY DEF TypeOK, Row, RowNamesItsCall, RunningHasItsWorker, AtWork, Orphaned
<1> QED BY <1>1, <1>2, <1>3, <1>4, <1>5, <1>6

\* The step that lets the action have its effect: nothing ran for it before.
LEMMA ActKeeps ==
  ASSUME IInv, NEW t \in Tasks, Act(t)
  PROVE  IInv'
<1> USE DEF IInv, Act, bounds, Tasks
<1> DEFINE b == target[t]
<1>0. /\ b \in Actions /\ ran[b] \subseteq {t}
      /\ rows[b].status \in {"absent", "running"}
      /\ t \in Calls => rows[b].status = "running" /\ rows[b].task = t
      /\ t \in Actions => b = t
  <2>1. CASE t \in Calls
    <3>1. b \in Actions /\ rows[b].status = "running" /\ rows[b].task = t
      BY <2>1 DEF ClaimHeld, AtWork
    <3>2. \A u \in ran[b] : u \in Calls => u = t
      BY <3>1 DEF RanByItsTask
    <3>3. \A u \in ran[b] : u \notin Actions
      BY <3>1 DEF RanByItsTask, DirectRun, TypeOK
    <3> QED BY <2>1, <3>1, <3>2, <3>3, TasksApart DEF TypeOK
  <2>2. CASE t \in Actions
    <3>1. b = t /\ rows[b].status = "absent"
      BY <2>2 DEF DirectRun, AtWork
    <3> QED BY <2>2, <3>1, PendingNotRun, TasksApart
  <2> QED BY <2>1, <2>2
<1>1. TypeOK'
  BY <1>0 DEF TypeOK, PCs
<1>2. ClaimHeld' /\ ClaimAllowed'
  <2>1. ClaimHeld'
    BY DEF TypeOK, ClaimHeld, AtWork
  <2>2. ClaimAllowed'
    BY DEF TypeOK, ClaimAllowed, YesFrom
  <2> QED BY <2>1, <2>2
<1>3. RowNamesItsCall'
  BY DEF RowNamesItsCall
<1>4. DirectRun'
  BY <1>0, TasksApart DEF TypeOK, DirectRun, AtWork, Parks, Granted
<1>5. RanByItsTask' /\ SuccessRan'
  BY <1>0 DEF TypeOK, RanByItsTask, SuccessRan
<1>6. RecordTellsTheTruth'
  BY <1>0 DEF TypeOK, RecordTellsTheTruth
<1>7. RunningHasItsWorker'
  BY DEF TypeOK, RunningHasItsWorker, AtWork
<1> QED BY <1>1, <1>2, <1>3, <1>4, <1>5, <1>6, <1>7

\* A task still at work has reported nothing that a row records.
LEMMA AtWorkUnrecorded ==
  ASSUME IInv, NEW t \in Tasks, pc[t] \in AtWork, NEW a \in Actions,
         rows[a].status \in {"approved", "approved_failed"}
  PROVE  rows[a].task # t
<1>1. rows[a].task # "none" /\ rows[a].task \in Calls /\ target[rows[a].task] = a
  BY DEF IInv, RowNamesItsCall, TypeOK, Row
<1> QED BY <1>1 DEF IInv, ClaimHeld

LEMMA ReturnKeeps ==
  ASSUME IInv, NEW t \in Tasks, Return(t)
  PROVE  IInv'
<1>0. \A c \in Tasks : pc'[c] = pc[c] \/ (pc[c] \in AtWork /\ pc'[c] = "returned")
  <2>1. pc \in [Tasks -> PCs]
    BY DEF IInv, TypeOK
  <2>2. pc' = [pc EXCEPT ![t] = "returned"] /\ pc[t] \in AtWork
    BY DEF Return, AtWork
  <2> QED BY <2>1, <2>2
<1> USE DEF IInv, Return, history, bounds, Tasks
<1>1. TypeOK'
  BY DEF TypeOK, PCs
<1>2. ClaimHeld' /\ ClaimAllowed'
  <2>2. ClaimHeld'
    BY <1>0 DEF ClaimHeld
  <2>3. ClaimAllowed'
    BY <1>0 DEF ClaimAllowed, YesFrom, AtWork
  <2> QED BY <2>2, <2>3
<1>3. RowNamesItsCall' /\ DirectRun'
  BY DEF TypeOK, RowNamesItsCall, DirectRun, AtWork, Parks, Granted
<1>4. RanByItsTask' /\ SuccessRan'
  BY DEF TypeOK, RanByItsTask, SuccessRan
<1>5. RecordTellsTheTruth'
  <2>1. \A a \in Actions : rows[a].status \in {"approved", "approved_failed"}
          => outcome'[rows[a].task] = outcome[rows[a].task]
    BY AtWorkUnrecorded DEF AtWork, TypeOK
  <2> QED BY <2>1 DEF RecordTellsTheTruth
<1>6. RunningHasItsWorker'
  BY DEF TypeOK, RunningHasItsWorker, AtWork
<1> QED BY <1>1, <1>2, <1>3, <1>4, <1>5, <1>6

\* A running row is what the sweep leaves it.
LEMMA SettleKeeps ==
  ASSUME IInv, NEW t \in Tasks, Settle(t)
  PROVE  IInv'
<1> USE DEF IInv
<1>0. /\ rows \in [Actions -> Row] /\ now \in Nat
      /\ pc \in [Tasks -> PCs] /\ pc[t] = "returned" /\ pc' = [pc EXCEPT ![t] = "done"]
      /\ UNCHANGED <<now, phase, target, grants, outcome, asked, ran, yeses, crashes, faults>>
  BY DEF Settle, TypeOK, history, bounds
<1>1. CASE t \in Actions
  <2>1. rows' = rows
    BY <1>1, TasksApart DEF Settle
  <2>2. TypeOK'
    BY <1>0, <2>1 DEF TypeOK, PCs
  <2>3. ClaimHeld' /\ ClaimAllowed' /\ RowNamesItsCall'
    BY <1>0, <1>1, <2>1, TasksApart DEF ClaimHeld, ClaimAllowed, RowNamesItsCall, YesFrom,
                                        Tasks
  <2>4. DirectRun'
    BY <1>0, <2>1 DEF DirectRun, AtWork, Parks, Granted, Tasks
  <2>5. RanByItsTask' /\ SuccessRan'
    BY <1>0, <2>1 DEF TypeOK, RanByItsTask, SuccessRan
  <2>6. RecordTellsTheTruth'
    BY <1>0, <2>1 DEF RecordTellsTheTruth
  <2>7. RunningHasItsWorker'
    BY <1>0, <1>1, <2>1, TasksApart DEF TypeOK, RunningHasItsWorker, RowNamesItsCall, Row,
                                        Tasks
  <2> QED BY <2>2, <2>3, <2>4, <2>5, <2>6, <2>7
<1>2. CASE t \in Calls /\ rows[target[t]].file # "gone"
  <2> DEFINE b == target[t]
             r == [rows[b] EXCEPT !.status = FinalStatus(outcome[t]), !.reason = "none",
                                  !.resolvedAt = now]
  <2>1. b \in Actions /\ rows[b].status = "running" /\ rows[b].task = t /\ rows[b] \in Row
    BY <1>0, <1>2 DEF ClaimHeld, AtWork
  <2>2. Sweep(rows) \in [Actions -> Row] /\ Sweep(rows)[b] = rows[b]
    BY <1>0, <2>1, SweepDrifts
  <2>3. /\ r \in Row /\ r.resolvedAt = now /\ r.task = t
        /\ r.status = FinalStatus(outcome[t])
        /\ r.status \in {"approved", "approved_failed"}
    BY <1>0, <2>1 DEF Row, FinalStatus
  <2>4. Save([Sweep(rows) EXCEPT ![b] = r])
    BY <1>2, <2>1, <2>2 DEF Settle, Resolve, Stands, Row
  <2> HIDE DEF r
  <2>5. rows' \in [Actions -> Row] /\ rows'[b] = r
        /\ \A a \in Actions \ {b} : Drift(rows[a], rows'[a])
    BY <1>0, <2>1, <2>3, <2>4, SaveDrifts
  <2>6. \A a \in Actions \ {b} : DriftFacts(rows[a], rows'[a])
    BY <1>0, <2>5, DriftFactsHold
  <2>7. \A a \in Actions \ {b} : rows[a].task # t
    BY <2>1 DEF RowNamesItsCall
  <2>8. TypeOK'
    BY <1>0, <2>5 DEF TypeOK, PCs
  <2>9. ClaimHeld'
    <3>1. \A c \in Calls \ {t} : pc[c] \in AtWork => target[c] # b
      BY <2>1 DEF ClaimHeld
    <3> QED BY <1>0, <2>6, <3>1 DEF ClaimHeld, DriftFacts, AtWork, Tasks
  <2>10. ClaimAllowed'
    BY <1>0, <2>1, <2>3, <2>5, <2>6 DEF ClaimAllowed, DriftFacts, YesFrom, Tasks
  <2>11. RowNamesItsCall'
    BY <1>0, <2>1, <2>3, <2>5, <2>6 DEF RowNamesItsCall, DriftFacts
  <2>12. DirectRun'
    BY <1>0, <1>2, <2>1, <2>5, <2>6, TasksApart
    DEF DirectRun, DriftFacts, AtWork, Parks, Granted, Tasks
  <2>13. RanByItsTask'
    BY <1>0, <2>1, <2>3, <2>5, <2>6 DEF RanByItsTask, DriftFacts, TypeOK
  <2>14. SuccessRan'
    BY <1>0 DEF SuccessRan
  <2>15. RecordTellsTheTruth'
    <3>1. ran[b] \subseteq {t}
      BY <2>1, <1>2 DEF RanByItsTask, DirectRun, TypeOK, Tasks
    <3>2. outcome[t] = "ok" => t \in ran[b]
      BY <1>0 DEF SuccessRan
    <3>3. outcome[t] \in {"ok", "bad"}
      BY <1>0 DEF SuccessRan
    <3>4. r.status = "approved" <=> outcome[t] = "ok"
      BY <2>3, <3>3 DEF FinalStatus
    <3>5. r.status = "approved_failed" <=> outcome[t] = "bad"
      BY <2>3, <3>3 DEF FinalStatus
    <3>6. ASSUME NEW a \in Actions
          PROVE  /\ rows'[a].status \in {"pending", "denied"} /\ rows'[a].reason # "interrupted"
                      => ran[a] = {}
                 /\ rows'[a].status = "approved"
                      => ran[a] = {rows'[a].task} /\ outcome[rows'[a].task] = "ok"
                 /\ rows'[a].status = "approved_failed" => outcome[rows'[a].task] = "bad"
      <4>1. CASE a = b
        BY <4>1, <2>3, <2>5, <3>1, <3>2, <3>4, <3>5
      <4>2. CASE a # b
        BY <4>2, <2>6, PendingNotRun DEF DriftFacts, RecordTellsTheTruth
      <4> QED BY <4>1, <4>2
    <3> QED BY <1>0, <3>6 DEF RecordTellsTheTruth
  <2>16. RunningHasItsWorker'
    BY <1>0, <2>1, <2>3, <2>5, <2>6, <2>7
    DEF RunningHasItsWorker, DriftFacts, RowNamesItsCall, Row, Tasks, TypeOK
  <2> QED BY <2>8, <2>9, <2>10, <2>11, <2>12, <2>13, <2>14, <2>15, <2>16
<1>3. CASE t \in Calls /\ rows[target[t]].file = "gone"
  <2> DEFINE b == target[t]
  <2>1. b \in Actions /\ rows[b].status = "running" /\ rows[b].task = t
    BY <1>0, <1>3 DEF ClaimHeld, AtWork
  <2>2. SaveIfSwept
    <3>1. Sweep(rows)[b] = rows[b]
      BY <1>0, <2>1, SweepDrifts
    <3> QED BY <1>3, <2>1, <3>1 DEF Settle, Resolve, Stands
  <2>3. rows' \in [Actions -> Row] /\ \A a \in Actions : Drift(rows[a], rows'[a])
    BY <1>0, <2>2, SaveIfSweptDrifts
  <2>4. \A a \in Actions : DriftFacts(rows[a], rows'[a])
    BY <1>0, <2>3, DriftFactsHold
  <2>5. TypeOK'
    BY <1>0, <2>3 DEF TypeOK, PCs
  <2>6. ClaimHeld'
    BY <1>0, <2>4 DEF ClaimHeld, DriftFacts, AtWork, Tasks
  <2>7. ClaimAllowed'
    BY <1>0, <2>4 DEF ClaimAllowed, DriftFacts, YesFrom, Tasks, Resolved
  <2>8. RowNamesItsCall'
    BY <1>0, <2>4 DEF RowNamesItsCall, DriftFacts
  <2>9. DirectRun'
    BY <1>0, <1>3, <2>4, TasksApart
    DEF DirectRun, DriftFacts, AtWork, Parks, Granted, Tasks
  <2>10. RanByItsTask'
    BY <1>0, <2>4 DEF RanByItsTask, DriftFacts, TypeOK
  <2>11. SuccessRan'
    BY <1>0 DEF SuccessRan
  <2>12. RecordTellsTheTruth'
    BY <1>0, <2>4, PendingNotRun DEF DriftFacts, RecordTellsTheTruth
  <2>13. RunningHasItsWorker'
    <3>1. ASSUME NEW a \in Actions, phase = "up",
                 rows'[a].status = "running", rows'[a].file = "kept"
          PROVE  target[rows'[a].task] = a /\ pc'[rows'[a].task] \in AtWork \cup Orphaned
      <4>1. rows'[a] = rows[a]
        BY <3>1, <2>4 DEF DriftFacts
      <4>2. rows[a].task \in Calls
        BY <1>0, <3>1, <4>1 DEF RowNamesItsCall, Row
      <4>3. target[rows[a].task] = a /\ pc[rows[a].task] \in AtWork \cup Orphaned
        BY <3>1, <4>1 DEF RunningHasItsWorker
      <4>4. rows[a].task # t
        BY <1>3, <3>1, <4>1, <4>3
      <4> QED BY <1>0, <4>1, <4>2, <4>3, <4>4 DEF Tasks
    <3> QED BY <1>0, <3>1 DEF RunningHasItsWorker
  <2> QED BY <2>5, <2>6, <2>7, <2>8, <2>9, <2>10, <2>11, <2>12, <2>13
<1> QED BY <1>1, <1>2, <1>3 DEF Tasks

\* Asking touches only an action nobody has asked for.
LEMMA RunTaskKeeps ==
  ASSUME IInv, NEW b \in Actions, NEW q \in Requests, RunTask(b, q)
  PROVE  IInv'
<1> USE DEF IInv
<1>0. /\ rows \in [Actions -> Row] /\ now \in Nat
      /\ pc \in [Tasks -> PCs] /\ pc[b] = "idle"
      /\ asked' = [asked EXCEPT ![b] = q]
      /\ faults' \in Nat
      /\ UNCHANGED <<now, phase, target, outcome, ran, yeses, crashes>>
      /\ rows[b].status = "absent" /\ rows[b].task = "none" /\ ran[b] = {}
      /\ b \in Tasks /\ b \notin Calls
  <2>1. rows[b].status = "absent" /\ rows[b].task = "none" /\ b \notin ran[b]
    BY DEF RunTask, DirectRun, RowNamesItsCall
  <2>2. ran[b] = {}
    BY <2>1, PendingNotRun
  <2> QED BY <2>1, <2>2, TasksApart DEF RunTask, Fault, TypeOK, Tasks
<1>1. /\ rows' \in [Actions -> Row]
      /\ \A a \in Actions \ {b} : DriftFacts(rows[a], rows'[a])
      /\ rows'[b].task = "none" /\ rows'[b].status \in {"absent", "pending"}
      /\ pc' \in [Tasks -> PCs] /\ \A t \in Tasks \ {b} : pc'[t] = pc[t]
      /\ grants' \in [Tasks -> SUBSET Permissions]
      /\ \A t \in Tasks \ {b} : grants'[t] = grants[t]
      /\ \/ pc'[b] = "done"
         \/ /\ pc'[b] = "submitting" /\ rows'[b].status = "absent"
            /\ ~Parks(q) /\ grants'[b] \cap Markers = {}
  <2>0. grants \in [Tasks -> SUBSET Permissions]
    BY DEF TypeOK
  <2>1. CASE ~q.valid /\ pc' = [pc EXCEPT ![b] = "done"] /\ UNCHANGED <<rows, grants>>
    BY <1>0, <2>0, <2>1 DEF DriftFacts, PCs
  <2>2. CASE /\ q.valid /\ Parks(q)
             /\ \/ Save([Sweep(rows) EXCEPT ![b] = Parked(q.batch)])
                \/ rows' = Overwritten(b, Parked(q.batch))
             /\ pc' = [pc EXCEPT ![b] = "done"] /\ UNCHANGED grants
    <3>1. Parked(q.batch) \in Row /\ Parked(q.batch).status = "pending"
          /\ Parked(q.batch).task = "none"
      <4>1. Deadline(q.batch) \in Nat
        BY <1>0, TimesTyped DEF Deadline
      <4> QED BY <4>1 DEF Parked, NoRow, Row
    <3>2. /\ rows' \in [Actions -> Row] /\ rows'[b] = Parked(q.batch)
          /\ \A a \in Actions \ {b} : Drift(rows[a], rows'[a])
      BY <1>0, <2>2, <3>1, SaveDrifts, OverwrittenDrifts DEF Resolved
    <3>3. \A a \in Actions \ {b} : DriftFacts(rows[a], rows'[a])
      BY <1>0, <3>2, DriftFactsHold
    <3> QED BY <1>0, <2>0, <2>2, <3>1, <3>2, <3>3 DEF PCs
  <2>3. CASE /\ q.valid /\ ~Parks(q) /\ pc' = [pc EXCEPT ![b] = "submitting"]
             /\ grants' = [grants EXCEPT ![b] = Granted(q)] /\ UNCHANGED rows
    <3>1. Granted(q) \in SUBSET Permissions /\ Granted(q) \cap Markers = {}
      BY RequestsTyped, GrantsTyped DEF Granted, RequestType, Callers
    <3> QED BY <1>0, <2>0, <2>3, <3>1 DEF DriftFacts, PCs
  <2> QED BY <2>1, <2>2, <2>3 DEF RunTask
<1>2. TypeOK'
  BY <1>0, <1>1 DEF TypeOK
<1>3. ClaimHeld'
  BY <1>0, <1>1 DEF ClaimHeld, DriftFacts, Tasks, AtWork
<1>4. ClaimAllowed'
  <2>1. \A c \in Calls : target[c] # b
    BY <1>0 DEF ClaimAllowed
  <2> QED BY <1>0, <1>1, <2>1 DEF ClaimAllowed, DriftFacts, Tasks, YesFrom, TypeOK
<1>5. RowNamesItsCall'
  BY <1>0, <1>1 DEF RowNamesItsCall, DriftFacts
<1>6. DirectRun'
  <2>1. asked'[b] = q /\ \A a \in Actions \ {b} : asked'[a] = asked[a]
    BY <1>0 DEF TypeOK
  <2>2. ASSUME NEW a \in Actions
        PROVE  /\ target'[a] = a
               /\ pc'[a] = "idle" => rows'[a].status = "absent"
               /\ pc'[a] \in AtWork \/ a \in ran'[a] =>
                    /\ pc'[a] # "idle" /\ rows'[a].status = "absent"
                    /\ ~Parks(asked'[a]) /\ grants'[a] \cap Markers = {}
    <3>1. CASE a = b
      BY <1>0, <1>1, <2>1, <3>1 DEF DirectRun, AtWork
    <3>2. CASE a # b
      BY <1>0, <1>1, <2>1, <3>2 DEF DirectRun, DriftFacts, Tasks
    <3> QED BY <3>1, <3>2
  <2> QED BY <2>2 DEF DirectRun, Parks, Granted
<1>7. RanByItsTask'
  <2>1. \A a \in Actions : \A t \in ran[a] : t # b /\ t \in Tasks
    BY <1>0 DEF RanByItsTask, TypeOK
  <2> QED BY <1>0, <1>1, <2>1 DEF RanByItsTask, DriftFacts
<1>8. SuccessRan'
  BY <1>0, <1>1 DEF SuccessRan
<1>9. RecordTellsTheTruth'
  <2>1. ASSUME NEW a \in Actions
        PROVE  /\ rows'[a].status \in {"pending", "denied"} /\ rows'[a].reason # "interrupted"
                    => ran[a] = {}
               /\ rows'[a].status = "approved"
                    => ran[a] = {rows'[a].task} /\ outcome[rows'[a].task] = "ok"
               /\ rows'[a].status = "approved_failed" => outcome[rows'[a].task] = "bad"
    <3>1. CASE a = b
      BY <1>0, <1>1, <3>1
    <3>2. CASE a # b
      BY <1>1, <3>2, PendingNotRun DEF DriftFacts, RecordTellsTheTruth
    <3> QED BY <3>1, <3>2
  <2> QED BY <1>0, <2>1 DEF RecordTellsTheTruth
<1>10. RunningHasItsWorker'
  <2>1. ASSUME NEW a \in Actions, phase = "up",
               rows'[a].status = "running", rows'[a].file = "kept"
        PROVE  target[rows'[a].task] = a /\ pc'[rows'[a].task] \in AtWork \cup Orphaned
    <3>1. a # b /\ rows'[a] = rows[a]
      BY <1>1, <2>1 DEF DriftFacts
    <3>2. rows[a].task \in Calls /\ rows[a].task # b
      BY <1>0, <2>1, <3>1 DEF RowNamesItsCall, Row
    <3> QED BY <1>1, <2>1, <3>1, <3>2 DEF RunningHasItsWorker, Tasks
  <2> QED BY <1>0, <2>1 DEF RunningHasItsWorker
<1> QED BY <1>2, <1>3, <1>4, <1>5, <1>6, <1>7, <1>8, <1>9, <1>10

\* A claim: the row was waiting, the call is fresh, and its caller may say yes.
LEMMA ApproveKeeps ==
  ASSUME IInv, NEW c \in Calls, NEW b \in Actions, NEW who \in Callers,
         Approve(c, b, who)
  PROVE  IInv'
<1> USE DEF IInv
<1>0. /\ rows \in [Actions -> Row] /\ now \in Nat /\ crashes \in Nat /\ faults \in Nat
      /\ pc \in [Tasks -> PCs] /\ pc[c] = "idle" /\ phase = "up" /\ c \in Tasks
      /\ UNCHANGED <<now, phase, outcome, asked, ran, crashes, faults>>
  BY DEF Approve, TypeOK, bounds, Tasks
<1>1. CASE ~Claimable(Sweep(rows)[b])
  BY <1>0, <1>1, SaveIfSweptDrifts, DriftKeeps DEF Approve, taskVars, history
<1>2. CASE Claimable(Sweep(rows)[b])
  <2> DEFINE r == [rows[b] EXCEPT !.status = "running", !.task = c]
  <2>1. Sweep(rows)[b] = rows[b] /\ rows[b].status = "pending" /\ rows[b].task = "none"
    <3>1. Sweep(rows)[b] = rows[b]
      <4>1. rows[b] \in Row /\ Sweep(rows)[b].status = "pending"
        BY <1>0, <1>2 DEF Claimable, Stands
      <4>2. \/ Sweep(rows)[b] = rows[b]
            \/ Sweep(rows)[b] = [rows[b] EXCEPT !.status = "denied",
                                    !.reason = "expired", !.resolvedAt = now]
        BY <1>0, SweepDrifts
      <4> QED BY <4>1, <4>2 DEF Row
    <3> QED BY <1>2, <3>1 DEF Claimable, Stands, RowNamesItsCall
  <2>2. r \in Row /\ r.status = "running" /\ r.task = c
    BY <1>0, <2>1 DEF Row
  <2>3. Save([Sweep(rows) EXCEPT ![b] = r])
    <3>1. Sweep(rows) \in [Actions -> Row]
      BY <1>0, SweepDrifts
    <3> QED BY <1>2, <2>1, <3>1 DEF Approve, Row
  <2> HIDE DEF r
  <2>4. /\ rows' \in [Actions -> Row] /\ rows'[b] = r
        /\ \A a \in Actions \ {b} : Drift(rows[a], rows'[a])
    BY <1>0, <2>2, <2>3, SaveDrifts DEF Resolved
  <2>5. \A a \in Actions \ {b} : DriftFacts(rows[a], rows'[a])
    BY <1>0, <2>4, DriftFactsHold
  <2>6. /\ pc' = [pc EXCEPT ![c] = "submitting"]
        /\ target' = [target EXCEPT ![c] = b]
        /\ grants' = [grants EXCEPT ![c] = ApprovedGrants(b)]
        /\ yeses' = yeses \cup {<<b, who>>}
        /\ MayApprove(b, who)
    BY <1>2 DEF Approve
  <2>7. target[c] \notin Actions /\ ran[b] = {} /\ c \notin Actions /\ c # "none"
    BY <1>0, <2>1, PendingNotRun, TasksApart DEF ClaimAllowed, Tasks
  <2>8. \A a \in Actions : rows[a].task # c
    BY <2>7 DEF RowNamesItsCall
  <2>9. TypeOK'
    <3>1. ApprovedGrants(b) \in SUBSET Permissions
      BY DEF ApprovedGrants, Permissions, Markers
    <3> QED BY <1>0, <2>4, <2>6, <3>1 DEF TypeOK, PCs
  <2>10. target' \in [Tasks -> Actions \cup {"none"}] /\ target'[c] = b
         /\ \A t \in Tasks \ {c} : target'[t] = target[t] /\ pc'[t] = pc[t]
                                     /\ grants'[t] = grants[t]
    BY <1>0, <2>6 DEF TypeOK
  <2>11. ClaimHeld'
    <3>1. ASSUME NEW d \in Calls, pc'[d] \in AtWork
          PROVE  /\ phase' = "up" /\ target'[d] \in Actions
                 /\ rows'[target'[d]].status = "running" /\ rows'[target'[d]].task = d
      <4>1. CASE d = c
        BY <1>0, <4>1, <2>2, <2>4, <2>10
      <4>2. CASE d # c
        BY <1>0, <3>1, <4>2, <2>1, <2>5, <2>10 DEF ClaimHeld, DriftFacts, Tasks
      <4> QED BY <4>1, <4>2
    <3> QED BY <3>1 DEF ClaimHeld
  <2>12. ClaimAllowed'
    <3>1. ASSUME NEW d \in Calls, target'[d] \in Actions
          PROVE  /\ pc'[d] # "idle" /\ rows'[target'[d]].status \notin {"absent", "pending"}
                 /\ (\E w \in Callers : YesFrom(target[d], w))'
      <4>1. CASE d = c
        BY <1>0, <4>1, <2>2, <2>4, <2>6, <2>10 DEF YesFrom, MayApprove
      <4>2. CASE d # c
        <5>1. d \in Tasks \ {c} /\ target'[d] = target[d] /\ pc'[d] = pc[d]
          BY <4>2, <2>10 DEF Tasks
        <5>2. /\ target[d] \in Actions /\ pc[d] # "idle"
              /\ rows[target[d]].status \notin {"absent", "pending"}
              /\ \E w \in Callers : YesFrom(target[d], w)
          BY <3>1, <5>1 DEF ClaimAllowed
        <5>3. rows'[target[d]].status \notin {"absent", "pending"}
          BY <5>2, <2>1, <2>5 DEF DriftFacts
        <5>4. (\E w \in Callers : YesFrom(target[d], w))'
          BY <1>0, <2>6, <5>1, <5>2 DEF YesFrom
        <5> QED BY <5>1, <5>2, <5>3, <5>4
      <4> QED BY <4>1, <4>2
    <3> QED BY <3>1 DEF ClaimAllowed
  <2>13. RowNamesItsCall'
    <3>1. ASSUME NEW a \in Actions
          PROVE  /\ rows'[a].status \in {"absent", "pending"} => rows'[a].task = "none"
                 /\ rows'[a].status \in {"running", "approved", "approved_failed"}
                      => rows'[a].task # "none"
                 /\ rows'[a].task # "none" => target'[rows'[a].task] = a
      <4>1. CASE a = b
        BY <4>1, <2>2, <2>4, <2>7, <2>10
      <4>2. CASE a # b
        <5>1. rows[a].task \in Tasks \ {c} \/ rows[a].task = "none"
          BY <1>0, <2>8 DEF Row, Tasks
        <5> QED BY <4>2, <5>1, <2>5, <2>10 DEF RowNamesItsCall, DriftFacts
      <4> QED BY <4>1, <4>2
    <3> QED BY <3>1 DEF RowNamesItsCall
  <2>14. DirectRun'
    <3>1. \A a \in Actions : a \in Tasks \ {c}
      BY <2>7 DEF Tasks
    <3>2. ASSUME NEW a \in Actions
          PROVE  /\ target'[a] = a
                 /\ pc'[a] = "idle" => rows'[a].status = "absent"
                 /\ pc'[a] \in AtWork \/ a \in ran'[a] =>
                      /\ pc'[a] # "idle" /\ rows'[a].status = "absent"
                      /\ ~Parks(asked[a]) /\ grants'[a] \cap Markers = {}
      BY <1>0, <2>1, <2>5, <2>7, <2>10, <3>1 DEF DirectRun, DriftFacts
    <3> QED BY <1>0, <3>2 DEF DirectRun, Parks, Granted
  <2>15. RanByItsTask'
    <3>1. \A a \in Actions : \A t \in ran[a] : t \in Tasks \ {c} /\ a # b
      BY <2>7 DEF RanByItsTask, TypeOK
    <3> QED BY <1>0, <2>5, <2>10, <3>1 DEF RanByItsTask, DriftFacts
  <2>16. SuccessRan'
    <3>1. ASSUME NEW t \in Tasks
          PROVE  /\ pc'[t] = "returned" => outcome[t] \in {"ok", "bad"}
                 /\ pc'[t] = "acting" => t \in ran[target'[t]]
                 /\ pc'[t] = "returned" /\ outcome[t] = "ok" => t \in ran[target'[t]]
      BY <1>0, <2>6, <2>10 DEF SuccessRan
    <3> QED BY <1>0, <3>1 DEF SuccessRan
  <2>17. RecordTellsTheTruth'
    BY <1>0, <2>2, <2>4, <2>5, PendingNotRun DEF RecordTellsTheTruth, DriftFacts
  <2>18. RunningHasItsWorker'
    <3>1. ASSUME NEW a \in Actions, rows'[a].status = "running", rows'[a].file = "kept"
          PROVE  target'[rows'[a].task] = a /\ pc'[rows'[a].task] \in AtWork \cup Orphaned
      <4>1. CASE a = b
        BY <1>0, <4>1, <2>2, <2>4, <2>6, <2>10 DEF AtWork
      <4>2. CASE a # b
        <5>1. rows'[a] = rows[a] /\ rows[a].task \in Tasks \ {c}
          BY <1>0, <3>1, <4>2, <2>5, <2>8 DEF DriftFacts, RowNamesItsCall, Row, Tasks
        <5> QED BY <1>0, <3>1, <5>1, <2>10 DEF RunningHasItsWorker
      <4> QED BY <4>1, <4>2
    <3> QED BY <3>1 DEF RunningHasItsWorker
  <2> QED BY <2>9, <2>11, <2>12, <2>13, <2>14, <2>15, <2>16, <2>17, <2>18
<1> QED BY <1>1, <1>2

\* A crash ends every thread; no row changes, and none is promised a worker.
LEMMA CrashKeeps ==
  ASSUME IInv, Crash
  PROVE  IInv'
<1> USE DEF IInv, Crash, history
<1>1. TypeOK'
  BY DEF TypeOK, PCs
<1>2. /\ pc \in [Tasks -> PCs]
      /\ \A t \in Tasks : pc'[t] \notin AtWork /\ (pc'[t] = "idle" <=> pc[t] = "idle")
  BY DEF TypeOK, AtWork
<1>3. ClaimHeld' /\ ClaimAllowed'
  <2>1. ClaimHeld'
    BY <1>2 DEF ClaimHeld, Tasks
  <2>2. \A c \in Calls : pc[c] # "idle" => pc'[c] # "idle"
    BY <1>2 DEF Tasks
  <2>3. UNCHANGED <<target, rows, yeses, asked>>
    OBVIOUS
  <2>4. ClaimAllowed
    OBVIOUS
  <2> QED BY ONLY <2>1, <2>2, <2>3, <2>4 DEF ClaimAllowed, YesFrom
<1>4. RowNamesItsCall' /\ DirectRun'
  BY <1>2 DEF RowNamesItsCall, DirectRun, Parks, Granted, Tasks
<1>5. RanByItsTask'
  <2>1. \A a \in Actions : ran[a] \subseteq Tasks
    BY DEF TypeOK
  <2>2. \A t \in Tasks : pc[t] \notin {"idle", "submitting", "queued"}
          => pc'[t] \notin {"idle", "submitting", "queued"}
    BY <1>2
  <2> QED BY <2>1, <2>2 DEF RanByItsTask
<1>6. SuccessRan'
  BY <1>2 DEF SuccessRan, AtWork
<1>7. RecordTellsTheTruth' /\ RunningHasItsWorker'
  BY DEF RecordTellsTheTruth, RunningHasItsWorker
<1> QED BY <1>1, <1>3, <1>4, <1>5, <1>6, <1>7

\* The restart's own change to one row, with the retention that the save applies, or
\* the mark of one that could not read it.
Restarted(r, s) ==
  \/ Drift(r, s) /\ (s.status # "running" \/ s.file # "kept")
  \/ r.status = "running" /\ s = [r EXCEPT !.file = "skipped"]
  \/ /\ r.status = "running"
     /\ s = [r EXCEPT !.status = "denied", !.reason = "interrupted", !.resolvedAt = now]

LEMMA BootRestarts ==
  ASSUME rows \in [Actions -> Row], now \in Nat, Boot
  PROVE  rows' \in [Actions -> Row] /\ \A a \in Actions : Restarted(rows[a], rows'[a])
<1>1. Interrupt(rows) \in [Actions -> Row]
  BY DEF Interrupt, Row
<1>2. CASE Interrupt(rows) = rows /\ rows' = rows
  <2>1. \A a \in Actions : ~ Stands(rows[a], "running")
    <3>1. ASSUME NEW a \in Actions, Stands(rows[a], "running")
          PROVE  FALSE
      BY <1>2, <3>1 DEF Interrupt, Stands, Row
    <3> QED BY <3>1
  <2> QED BY <1>2, <2>1 DEF Restarted, Drift, Stands
<1>3. CASE Interrupt(rows) # rows /\ Save(Interrupt(rows))
  <2>1. rows' = Retain(Interrupt(rows))
    BY <1>3 DEF Save
  <2>2. ASSUME NEW a \in Actions
        PROVE  Restarted(rows[a], rows'[a])
    <3>1. CASE Stands(rows[a], "running")
      <4>1. Interrupt(rows)[a] = [rows[a] EXCEPT !.status = "denied",
                                    !.reason = "interrupted", !.resolvedAt = now]
        BY <3>1 DEF Interrupt
      <4>2. Interrupt(rows)[a].resolvedAt = now
        BY <4>1 DEF Row
      <4>3. Retain(Interrupt(rows))[a] = Interrupt(rows)[a]
        BY <4>2, JustResolved DEF Retain
      <4> QED BY <2>1, <3>1, <4>1, <4>3 DEF Restarted, Stands
    <3>2. CASE ~ Stands(rows[a], "running")
      <4>1. Interrupt(rows)[a] = rows[a]
        BY <3>2 DEF Interrupt
      <4>2. Drift(rows[a], rows'[a])
        BY <1>1, <2>1, <4>1, RetainDrifts DEF Drift
      <4>3. rows'[a].status # "running" \/ rows'[a].file = "gone"
        BY <3>2, <4>2, DriftFactsHold DEF DriftFacts, Stands
      <4> QED BY <4>2, <4>3 DEF Restarted
    <3> QED BY <3>1, <3>2
  <2> QED BY <1>1, <2>1, <2>2, RetainDrifts
<1>4. CASE rows' = Skipped
  <2>1. \A a \in Actions : rows'[a] \in Row /\ Restarted(rows[a], rows'[a])
    <3>1. ASSUME NEW a \in Actions
          PROVE  rows'[a] \in Row /\ Restarted(rows[a], rows'[a])
      BY <1>4 DEF Skipped, Stands, Restarted, Drift, Row
    <3> QED BY <3>1
  <2> QED BY <1>4, <2>1 DEF Skipped
<1> QED BY <1>2, <1>3, <1>4 DEF Boot

LEMMA BootKeeps ==
  ASSUME IInv, Boot
  PROVE  IInv'
<1> USE DEF IInv
<1>0. /\ rows \in [Actions -> Row] /\ now \in Nat /\ phase = "down"
      /\ UNCHANGED <<now, pc, target, grants, outcome, asked, ran, yeses, crashes>>
      /\ phase' = "up" /\ faults' \in Nat
  BY DEF Boot, Fault, TypeOK, taskVars, history
<1>1. rows' \in [Actions -> Row] /\ \A a \in Actions : Restarted(rows[a], rows'[a])
  BY <1>0, BootRestarts
<1>2. \A a \in Actions :
        /\ rows'[a].task = rows[a].task
        /\ rows'[a].status # "running" \/ rows'[a].file # "kept"
        /\ rows[a].status = "absent" => rows'[a] = rows[a]
        /\ rows'[a].status = rows[a].status \/ rows'[a].status \in {"denied", "dropped"}
        /\ rows'[a].status # rows[a].status /\ rows'[a].status = "denied"
             => rows[a].status = "pending" \/ rows'[a].reason = "interrupted"
        /\ rows'[a].status = rows[a].status => rows'[a].reason = rows[a].reason
  <2>1. ASSUME NEW a \in Actions
        PROVE  /\ rows'[a].task = rows[a].task
               /\ rows'[a].status # "running" \/ rows'[a].file # "kept"
               /\ rows[a].status = "absent" => rows'[a] = rows[a]
               /\ rows'[a].status = rows[a].status \/ rows'[a].status \in {"denied", "dropped"}
               /\ rows'[a].status # rows[a].status /\ rows'[a].status = "denied"
                    => rows[a].status = "pending" \/ rows'[a].reason = "interrupted"
               /\ rows'[a].status = rows[a].status => rows'[a].reason = rows[a].reason
    <3>1. rows[a] \in Row
      BY <1>0
    <3>2. CASE /\ Drift(rows[a], rows'[a])
               /\ rows'[a].status # "running" \/ rows'[a].file # "kept"
      BY <3>1, <3>2, DriftFactsHold DEF DriftFacts
    <3>3. CASE /\ rows[a].status = "running"
               /\ rows'[a] = [rows[a] EXCEPT !.status = "denied", !.reason = "interrupted",
                                             !.resolvedAt = now]
      BY <3>1, <3>3 DEF Row
    <3>4. CASE rows[a].status = "running" /\ rows'[a] = [rows[a] EXCEPT !.file = "skipped"]
      BY <3>1, <3>4 DEF Row
    <3> QED BY <1>1, <3>2, <3>3, <3>4 DEF Restarted
  <2> QED BY <2>1
<1>3. TypeOK'
  BY <1>0, <1>1 DEF TypeOK
<1>4. \A t \in Tasks : pc[t] \notin AtWork \/ t \notin Calls
  BY <1>0 DEF ClaimHeld
<1>5. ClaimHeld'
  BY <1>0, <1>4 DEF ClaimHeld, Tasks
<1>6. ClaimAllowed'
  BY <1>0, <1>2 DEF ClaimAllowed, YesFrom
<1>7. RowNamesItsCall'
  BY <1>0, <1>2 DEF RowNamesItsCall
<1>8. DirectRun'
  BY <1>0, <1>2 DEF DirectRun, Parks, Granted
<1>9. RanByItsTask' /\ SuccessRan'
  BY <1>0, <1>2 DEF RanByItsTask, SuccessRan
<1>10. RecordTellsTheTruth'
  BY <1>0, <1>2, PendingNotRun DEF RecordTellsTheTruth
<1>11. RunningHasItsWorker'
  BY <1>2 DEF RunningHasItsWorker
<1> QED BY <1>3, <1>5, <1>6, <1>7, <1>8, <1>9, <1>10, <1>11

LEMMA NextIInv ==
  ASSUME IInv, [Next]_vars
  PROVE  IInv'
<1>1. ASSUME NEW a \in Actions, NEW q \in Requests, RunTask(a, q) PROVE IInv'
  BY <1>1, RunTaskKeeps
<1>2. ASSUME NEW c \in Calls, NEW a \in Actions, NEW who \in Callers, Approve(c, a, who)
      PROVE  IInv'
  BY <1>2, ApproveKeeps
<1>3. ASSUME NEW t \in Tasks, Step(t) PROVE IInv'
  BY <1>3, SubmitKeeps, ActKeeps, ReturnKeeps, SettleKeeps, WriteFailsKeeps DEF Step
<1>4. CASE Crash
  BY <1>4, CrashKeeps
<1>5. CASE Boot
  BY <1>5, BootKeeps
<1> QED BY <1>1, <1>2, <1>3, <1>4, <1>5, DriftingSteps DEF Next

-----------------------------------------------------------------------------
(* The theorems. *)

\* The inductive invariant holds of every state of the queue, the handlers and the
\* workers; the theorems below are read off from it.
THEOREM Invariance == Spec => []IInv
<1>1. Init => IInv
  BY InitIInv
<1>2. IInv /\ [Next]_vars => IInv'
  BY NextIInv
<1> QED BY <1>1, <1>2, PTL DEF Spec

\* Every variable keeps its type, rows and threads included.
THEOREM TypeCorrect == Spec => []TypeOK
<1>1. IInv => TypeOK
  BY DEF IInv
<1> QED BY <1>1, Invariance, PTL

\* No action has its effect twice: what ran for it is either its own direct call,
\* which has no row, or the one call its row names.
THEOREM AtMostOnce == Spec => []RunsAtMostOnce
<1>1. ASSUME IInv PROVE RunsAtMostOnce
  <2>1. ASSUME NEW a \in Actions, NEW t \in ran[a], NEW u \in ran[a]
        PROVE  t = u
    <3>1. t \in Tasks /\ u \in Tasks /\ target[t] = a /\ target[u] = a
      BY <1>1 DEF IInv, TypeOK, RanByItsTask
    <3>2. \A v \in ran[a] : v \in Actions => v = a /\ rows[a].task = "none"
      BY <1>1 DEF IInv, RanByItsTask, DirectRun, RowNamesItsCall
    <3>3. \A v \in ran[a] : v \in Calls => v = rows[a].task
      BY <1>1 DEF IInv, RanByItsTask
    <3> QED BY <3>1, <3>2, <3>3, TasksApart DEF Tasks
  <2> QED BY <2>1 DEF RunsAtMostOnce
<1> QED BY <1>1, Invariance, PTL

\* What needed the owner, or ran with the owner's mark, ran after the yes of an
\* approver that had not asked for it.
THEOREM OnlyOnTheOwnersYes == Spec => []RunsOnlyOnTheOwnersYes
<1>1. ASSUME IInv PROVE RunsOnlyOnTheOwnersYes
  <2>1. ASSUME NEW a \in Actions, NEW t \in ran[a],
               Parks(asked[a]) \/ grants[t] \cap Markers # {}
        PROVE  \E who \in Callers : YesFrom(a, who)
    <3>1. t \in Tasks /\ target[t] = a
      BY <1>1 DEF IInv, TypeOK, RanByItsTask
    <3>2. t \notin Actions
      BY <1>1, <2>1, <3>1 DEF IInv, DirectRun
    <3> QED BY <1>1, <3>1, <3>2 DEF IInv, ClaimAllowed, Tasks
  <2> QED BY <2>1 DEF RunsOnlyOnTheOwnersYes
<1> QED BY <1>1, Invariance, PTL

\* What the queue says of an action is what happened to it.
THEOREM Truthful == Spec => []RecordTellsTheTruth
<1>1. IInv => RecordTellsTheTruth
  BY DEF IInv
<1> QED BY <1>1, Invariance, PTL

\* While the server is up a running row has its worker, or a failed write to blame.
THEOREM Worked == Spec => []RunningHasItsWorker
<1>1. IInv => RunningHasItsWorker
  BY DEF IInv
<1> QED BY <1>1, Invariance, PTL

-----------------------------------------------------------------------------
(* What a step may do to a row, and the gate it implements. *)

RowStep(r, s) ==
  \/ Drift(r, s)
  \/ r.status = "absent" /\ s.status = "pending"
  \/ r.status = "pending" /\ now < r.expires /\ s.status = "running"
  \/ r.status = "running" /\ s.status \in Resolved
  \/ r.status = "running" /\ s = [r EXCEPT !.file = "skipped"]

LEMMA RowSteps ==
  ASSUME IInv, [Next]_vars
  PROVE  \A a \in Actions : RowStep(rows[a], rows'[a])
<1>0. rows \in [Actions -> Row] /\ now \in Nat
  BY DEF IInv, TypeOK
<1>1. ASSUME NEW b \in Actions, NEW q \in Requests, RunTask(b, q)
      PROVE  \A a \in Actions : RowStep(rows[a], rows'[a])
  <2>1. CASE \/ Save([Sweep(rows) EXCEPT ![b] = Parked(q.batch)])
             \/ rows' = Overwritten(b, Parked(q.batch))
    <3>1. rows[b].status = "absent"
      BY <1>1 DEF RunTask, IInv, DirectRun
    <3>2. Parked(q.batch) \in Row /\ Parked(q.batch).status = "pending"
      <4>1. Deadline(q.batch) \in Nat
        BY <1>0, TimesTyped DEF Deadline
      <4> QED BY <4>1 DEF Parked, NoRow, Row
    <3>3. /\ rows'[b] = Parked(q.batch)
          /\ \A a \in Actions \ {b} : Drift(rows[a], rows'[a])
      BY <1>0, <2>1, <3>2, SaveDrifts, OverwrittenDrifts DEF Resolved
    <3> QED BY <3>1, <3>2, <3>3 DEF RowStep
  <2>2. CASE rows' = rows
    BY <2>2 DEF RowStep, Drift
  <2> QED BY <1>1, <2>1, <2>2 DEF RunTask
<1>2. ASSUME NEW c \in Calls, NEW b \in Actions, NEW who \in Callers, Approve(c, b, who)
      PROVE  \A a \in Actions : RowStep(rows[a], rows'[a])
  <2>1. CASE ~Claimable(Sweep(rows)[b])
    BY <1>0, <1>2, <2>1, SaveIfSweptDrifts DEF Approve, RowStep
  <2>2. CASE Claimable(Sweep(rows)[b])
    <3> DEFINE r == [rows[b] EXCEPT !.status = "running", !.task = c]
    <3>0. Sweep(rows)[b].status = "pending"
      BY <2>2 DEF Claimable, Stands
    <3>1. Sweep(rows)[b] = rows[b] /\ rows[b].status = "pending" /\ ~Overdue(rows[b])
          /\ Sweep(rows) \in [Actions -> Row]
      BY <1>0, <3>0, SweepDrifts
    <3>2. now < rows[b].expires
      BY <1>0, <2>2, <3>1 DEF Overdue, Claimable, Row
    <3>3. r \in Row /\ r.status = "running"
      BY <1>0, <3>1 DEF Row
    <3>4. Save([Sweep(rows) EXCEPT ![b] = r])
      BY <1>2, <2>2, <3>1 DEF Approve, Row
    <3> HIDE DEF r
    <3>5. /\ rows'[b] = r
          /\ \A a \in Actions \ {b} : Drift(rows[a], rows'[a])
      BY <1>0, <3>3, <3>4, SaveDrifts DEF Resolved
    <3> QED BY <3>1, <3>2, <3>3, <3>5 DEF RowStep
  <2> QED BY <2>1, <2>2
<1>3. ASSUME NEW b \in Actions, NEW who \in Callers, Deny(b, who)
      PROVE  \A a \in Actions : RowStep(rows[a], rows'[a])
  BY <1>3, ResolveDrifts DEF Deny, RowStep
<1>4. ASSUME NEW b \in Actions, NoteDigest(b)
      PROVE  \A a \in Actions : RowStep(rows[a], rows'[a])
  BY <1>4, RetainSteps DEF NoteDigest, RowStep
<1>5. CASE Look
  BY <1>0, <1>5, SaveSweptDrifts DEF Look, RowStep
<1>6. CASE Boot
  <2>1. ASSUME NEW a \in Actions
        PROVE  RowStep(rows[a], rows'[a])
    <3>1. rows[a] \in Row /\ Restarted(rows[a], rows'[a])
      BY <1>0, <1>6, BootRestarts
    <3>2. CASE /\ rows[a].status = "running"
               /\ rows'[a] = [rows[a] EXCEPT !.status = "denied", !.reason = "interrupted",
                                             !.resolvedAt = now]
      BY <3>1, <3>2 DEF RowStep, Resolved, Row
    <3> QED BY <3>1, <3>2 DEF Restarted, RowStep
  <2> QED BY <2>1
<1>7. ASSUME NEW t \in Tasks, Settle(t)
      PROVE  \A a \in Actions : RowStep(rows[a], rows'[a])
  <2>1. CASE t \notin Calls
    BY <1>7, <2>1 DEF Settle, RowStep, Drift
  <2>3. CASE t \in Calls /\ rows[target[t]].file = "gone"
    <3>1. target[t] \in Actions /\ rows[target[t]].status = "running"
      BY <1>7, <2>3 DEF Settle, IInv, ClaimHeld, AtWork
    <3>2. SaveIfSwept
      BY <1>0, <1>7, <2>3, <3>1, SweepDrifts DEF Settle, Resolve, Stands
    <3> QED BY <1>0, <3>2, SaveIfSweptDrifts DEF RowStep
  <2>2. CASE t \in Calls /\ rows[target[t]].file # "gone"
    <3> DEFINE b == target[t]
               r == [rows[b] EXCEPT !.status = FinalStatus(outcome[t]), !.reason = "none",
                                    !.resolvedAt = now]
    <3>1. b \in Actions /\ rows[b].status = "running"
      BY <1>7, <2>2 DEF Settle, IInv, ClaimHeld, AtWork
    <3>2. Sweep(rows) \in [Actions -> Row] /\ Sweep(rows)[b] = rows[b]
      BY <1>0, <3>1, SweepDrifts
    <3>3. r \in Row /\ r.resolvedAt = now /\ r.status \in Resolved
      <4>1. FinalStatus(outcome[t]) \in {"approved", "approved_failed"}
        BY DEF FinalStatus
      <4>2. rows[b] \in Row
        BY <1>0, <3>1
      <4> QED BY <1>0, <4>1, <4>2 DEF Row, Resolved
    <3>4. Save([Sweep(rows) EXCEPT ![b] = r])
      BY <1>7, <2>2, <3>1, <3>2 DEF Settle, Resolve, Stands, Row
    <3> HIDE DEF r
    <3>5. /\ rows'[b] = r
          /\ \A a \in Actions \ {b} : Drift(rows[a], rows'[a])
      BY <1>0, <3>1, <3>3, <3>4, SaveDrifts
    <3> QED BY <3>1, <3>3, <3>5 DEF RowStep
  <2> QED BY <2>1, <2>2, <2>3
<1>8. rows' = rows => \A a \in Actions : RowStep(rows[a], rows'[a])
  BY DEF RowStep, Drift
<1>9. \/ Tick \/ Crash \/ UNCHANGED vars
      \/ \E t \in Tasks : Submit(t) \/ Act(t) \/ Return(t) \/ WriteFails(t)
      => rows' = rows
  BY DEF Tick, Crash, vars, Submit, Act, Return, WriteFails
<1> QED BY <1>1, <1>2, <1>3, <1>4, <1>5, <1>6, <1>7, <1>8, <1>9 DEF Next, Step

\* Only a read that failed loses a row or passes over it.
LEMMA FilesStay ==
  ASSUME IInv, [Next]_vars
  PROVE  \/ faults' > faults
         \/ \A a \in Actions : rows[a].status # "absent" => rows'[a].file = rows[a].file
<1> DEFINE Stays(rs) == \A a \in Actions : rows[a].status # "absent" => rs[a].file = rows[a].file
<1>0. rows \in [Actions -> Row] /\ now \in Nat /\ faults \in Nat
  BY DEF IInv, TypeOK
<1>1. ASSUME NEW rs \in [Actions -> Row], Stays(rs), Save(rs)
      PROVE  Stays(rows')
  <2>1. ASSUME NEW a \in Actions
        PROVE  Retain(rs)[a].file = rs[a].file
    <3>1. rs[a] \in Row
      BY <1>1
    <3>2. \/ Retain(rs)[a] = rs[a]
          \/ Retain(rs)[a] = [rs[a] EXCEPT !.status = "dropped"]
      BY <1>0, <1>1, RetainDrifts
    <3> QED BY <3>1, <3>2 DEF Row
  <2> QED BY <1>1, <2>1 DEF Save
<1>2. Sweep(rows) \in [Actions -> Row] /\ Stays(Sweep(rows))
  <2>1. ASSUME NEW a \in Actions
        PROVE  Sweep(rows)[a].file = rows[a].file
    BY <1>0, SweepDrifts
  <2> QED BY <1>0, <2>1, SweepDrifts
<1>3. SaveIfSwept => Stays(rows')
  BY <1>1, <1>2 DEF SaveIfSwept
<1>4. ASSUME NEW b \in Actions, NEW q \in Requests, RunTask(b, q)
      PROVE  faults' > faults \/ Stays(rows')
  <2>1. rows[b].status = "absent"
    BY <1>4 DEF RunTask, IInv, DirectRun
  <2>2. CASE Save([Sweep(rows) EXCEPT ![b] = Parked(q.batch)])
    <3>1. Parked(q.batch) \in Row
      <4>1. Deadline(q.batch) \in Nat
        BY <1>0, TimesTyped DEF Deadline
      <4> QED BY <4>1 DEF Parked, NoRow, Row
    <3>2. /\ [Sweep(rows) EXCEPT ![b] = Parked(q.batch)] \in [Actions -> Row]
          /\ Stays([Sweep(rows) EXCEPT ![b] = Parked(q.batch)])
      BY <1>2, <2>1, <3>1
    <3> QED BY <1>1, <2>2, <3>2
  <2> QED BY <1>0, <1>4, <2>2 DEF RunTask, Fault
<1>5. ASSUME NEW c \in Calls, NEW b \in Actions, NEW who \in Callers, Approve(c, b, who)
      PROVE  Stays(rows')
  <2>1. CASE Claimable(Sweep(rows)[b])
    <3>1. PICK r : r = [Sweep(rows)[b] EXCEPT !.status = "running", !.task = c]
      OBVIOUS
    <3>2. r \in Row /\ r.file = Sweep(rows)[b].file
      BY <1>2, <3>1 DEF Row
    <3>3. Save([Sweep(rows) EXCEPT ![b] = r])
      BY <1>2, <1>5, <2>1, <3>1 DEF Approve
    <3>4. [Sweep(rows) EXCEPT ![b] = r] \in [Actions -> Row]
          /\ Stays([Sweep(rows) EXCEPT ![b] = r])
      BY <1>2, <3>2
    <3> QED BY <1>1, <3>3, <3>4
  <2> QED BY <1>3, <1>5, <2>1 DEF Approve
<1>6. ASSUME NEW b \in Actions, NEW from, NEW to \in Resolved, NEW why \in {"none"},
             Resolve(b, from, to, why)
      PROVE  Stays(rows')
  <2>1. CASE Stands(Sweep(rows)[b], from)
    <3>1. PICK r : r = [Sweep(rows)[b] EXCEPT !.status = to, !.reason = why,
                                             !.resolvedAt = now]
      OBVIOUS
    <3>2. r \in Row /\ r.file = Sweep(rows)[b].file
      <4>1. Sweep(rows)[b] \in Row /\ to \in Resolved /\ why = "none"
        BY <1>2, <1>6
      <4> QED BY <1>0, <3>1, <4>1 DEF Resolved, Row
    <3>3. Save([Sweep(rows) EXCEPT ![b] = r])
      BY <1>2, <1>6, <2>1, <3>1 DEF Resolve
    <3>4. [Sweep(rows) EXCEPT ![b] = r] \in [Actions -> Row]
          /\ Stays([Sweep(rows) EXCEPT ![b] = r])
      BY <1>2, <3>2
    <3> QED BY <1>1, <3>3, <3>4
  <2> QED BY <1>3, <1>6, <2>1 DEF Resolve
<1>7. ASSUME NEW b \in Actions, NEW who \in Callers, Deny(b, who)
      PROVE  Stays(rows')
  BY <1>6, <1>7 DEF Deny, Resolved
<1>8. ASSUME NEW t \in Tasks, Settle(t)
      PROVE  Stays(rows')
  <2>1. CASE t \in Calls
    <3>1. target[t] \in Actions /\ FinalStatus(outcome[t]) \in Resolved
      BY <1>8, <2>1 DEF Settle, IInv, ClaimHeld, AtWork, FinalStatus, Resolved
    <3> QED BY <1>6, <1>8, <2>1, <3>1 DEF Settle
  <2> QED BY <1>8, <2>1 DEF Settle
<1>9. CASE Boot
  <2>1. ASSUME NEW a \in Actions
        PROVE  Interrupt(rows)[a] \in Row /\ Interrupt(rows)[a].file = rows[a].file
    BY <1>0 DEF Interrupt, Row
  <2>2. Interrupt(rows) \in [Actions -> Row] /\ Stays(Interrupt(rows))
    BY <2>1 DEF Interrupt
  <2> QED BY <1>0, <1>1, <1>9, <2>2 DEF Boot, Fault
<1>10. CASE Look \/ \E b \in Actions : NoteDigest(b)
  BY <1>0, <1>1, <1>2, <1>10 DEF Look, NoteDigest
<1>11. \/ Tick \/ Crash \/ UNCHANGED vars
       \/ \E t \in Tasks : Submit(t) \/ Act(t) \/ Return(t) \/ WriteFails(t)
       => rows' = rows
  BY DEF Tick, Crash, vars, Submit, Act, Return, WriteFails
<1> QED BY <1>4, <1>5, <1>7, <1>8, <1>9, <1>10, <1>11 DEF Next, Step

\* A row only moves forward, and no row past its deadline starts to run.
THEOREM OnlyForward == Spec => RowsMoveForward
<1>1. ASSUME IInv, [Next]_vars
      PROVE  \A a \in Actions :
               /\ Forward(rows[a], rows'[a])
               /\ rows[a].status = "pending" /\ rows'[a].status = "running"
                    => now < rows[a].expires
  <2>1. ASSUME NEW a \in Actions
        PROVE  /\ Forward(rows[a], rows'[a])
               /\ rows[a].status = "pending" /\ rows'[a].status = "running"
                    => now < rows[a].expires
    <3>1. rows[a] \in Row /\ RowStep(rows[a], rows'[a])
      BY <1>1, RowSteps DEF IInv, TypeOK
    <3>4. faults' > faults \/ rows[a].status = "absent" \/ rows'[a].file = rows[a].file
      BY <1>1, FilesStay
    <3> DEFINE Passed == /\ rows[a].status # "absent"
                         /\ \E f \in {"gone", "skipped"} : rows'[a] = [rows[a] EXCEPT !.file = f]
    <3>5. CASE Passed
      <4>1. PICK f \in {"gone", "skipped"} : rows'[a] = [rows[a] EXCEPT !.file = f]
        BY <3>5
      <4>2. rows'[a].file = f /\ rows'[a].status = rows[a].status
        BY <3>1, <4>1 DEF Row
      <4>3. rows[a].file = f => rows'[a] = rows[a]
        BY <3>1, <4>1 DEF Row
      <4> QED BY <3>4, <3>5, <4>1, <4>2, <4>3 DEF Forward
    <3>2. CASE Drift(rows[a], rows'[a]) /\ ~ Passed
      BY <3>1, <3>2 DEF Drift, Forward, Row, Resolved
    <3>3. CASE ~Drift(rows[a], rows'[a]) /\ ~ Passed
      BY <3>1, <3>3 DEF RowStep, Forward, Resolved
    <3> QED BY <3>2, <3>3, <3>5
  <2> QED BY <2>1
<1>2. IInv /\ [Next]_vars
        => [\A a \in Actions :
              /\ Forward(rows[a], rows'[a])
              /\ rows[a].status = "pending" /\ rows'[a].status = "running"
                   => now < rows[a].expires]_vars
  BY <1>1
<1> QED BY <1>2, Invariance, PTL DEF Spec, RowsMoveForward

StageOf(r) == CASE r.status = "absent" -> "unasked"
                [] r.status = "pending" -> "waiting"
                [] r.status = "running" -> "allowed"
                [] OTHER -> "closed"

LEMMA StageMoves ==
  ASSUME NEW r \in Row, NEW s, RowStep(r, s)
  PROVE  /\ StageOf(s) \in Gate!Stages
         /\ StageOf(s) = StageOf(r) \/ <<StageOf(r), StageOf(s)>> \in Gate!Moves
<1>1. CASE Drift(r, s)
  BY <1>1 DEF Drift, StageOf, Gate!Stages, Gate!Moves, Row, Resolved
<1>2. CASE ~Drift(r, s)
  <2>1. CASE s = [r EXCEPT !.file = "skipped"]
    BY <2>1 DEF StageOf, Gate!Stages, Row
  <2> QED BY <1>2, <2>1 DEF RowStep, StageOf, Gate!Stages, Gate!Moves, Resolved
<1> QED BY <1>1, <1>2

\* Only a call's own step into the adapter is an attempt.
LEMMA Attempts ==
  ASSUME IInv, [Next]_vars
  PROVE  \/ ran' = ran
         \/ \E t \in Tasks : Act(t)
  BY DEF Next, Step, RunTask, Approve, Deny, NoteDigest, Look, Tick, Crash, Boot, Submit,
         Return, Settle, WriteFails, vars, history

LEMMA ActAttempts ==
  ASSUME IInv, NEW t \in Tasks, Act(t)
  PROVE  Gate!GateNext \/ UNCHANGED Gate!gateVars
<1> DEFINE b == target[t]
<1> USE DEF IInv
<1>1. UNCHANGED rows /\ ran' = [ran EXCEPT ![b] = @ \cup {t}] /\ pc[t] = "queued"
      /\ ran \in [Actions -> SUBSET Tasks]
  BY DEF Act, TypeOK
<1>2. CASE t \notin Calls
  <2>1. \A a \in Actions : ran'[a] \cap Calls = ran[a] \cap Calls
    BY <1>1, <1>2
  <2> QED BY <1>1, <2>1 DEF Gate!gateVars
<1>3. CASE t \in Calls
  <2>1. b \in Actions /\ rows[b].status = "running" /\ rows[b].task = t
    BY <1>1, <1>3 DEF ClaimHeld, AtWork
  <2>2. ran[b] \cap Calls = {}
    BY <1>1, <2>1 DEF RanByItsTask
  <2>3. {a \in Actions : ran'[a] \cap Calls # {}}
          = {a \in Actions : ran[a] \cap Calls # {}} \cup {b}
    BY <1>1, <1>3, <2>1
  <2>4. b \notin {a \in Actions : ran[a] \cap Calls # {}}
    BY <2>2
  <2>5. [a \in Actions |-> StageOf(rows[a])][b] = "allowed"
    BY <2>1 DEF StageOf
  <2> QED BY <1>1, <2>1, <2>3, <2>4, <2>5 DEF Gate!GateNext, Gate!Attempt, StageOf
<1> QED BY <1>2, <1>3

\* The queue, the handlers and the workers implement the gate: one answer, and at
\* most one attempt, which needs a yes.
THEOREM GateImplemented == Spec => ImplementsOwnerGate
<1>1. Init => Gate!GateInit
  <2> SUFFICES ASSUME Init PROVE Gate!GateInit
    OBVIOUS
  <2>1. \A a \in Actions : rows[a].status = "absent" /\ ran[a] = {}
    BY DEF Init, NoRow
  <2> QED BY <2>1 DEF Gate!GateInit
<1>2. ASSUME IInv, [Next]_vars
      PROVE  Gate!GateNext \/ UNCHANGED Gate!gateVars
  <2>1. CASE ran' = ran
    <3>1. \A a \in Actions : rows[a] \in Row /\ RowStep(rows[a], rows'[a])
      BY <1>2, RowSteps DEF IInv, TypeOK
    <3>2. \A a \in Actions :
            /\ StageOf(rows'[a]) \in Gate!Stages
            /\ \/ StageOf(rows'[a]) = StageOf(rows[a])
               \/ <<StageOf(rows[a]), StageOf(rows'[a])>> \in Gate!Moves
      BY <3>1, StageMoves
    <3> QED BY <2>1, <3>2 DEF Gate!GateNext, Gate!Answer, StageOf
  <2> QED BY <1>2, <2>1, Attempts, ActAttempts
<1>3. IInv /\ [Next]_vars => [Gate!GateNext]_Gate!gateVars
  BY <1>2
<1> QED BY <1>1, <1>3, Invariance, PTL DEF Spec, ImplementsOwnerGate, Gate!GateSpec
=============================================================================
