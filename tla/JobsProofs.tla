----------------------------- MODULE JobsProofs -----------------------------
(***************************************************************************)
(* Proofs about the job records, for any jobs, pollers and room in the     *)
(* directory and any number of crashes and failing files.                  *)
(***************************************************************************)
EXTENDS Jobs, FiniteSetTheorems, TLAPS

-----------------------------------------------------------------------------
(* The inductive invariant. *)

\* A job that nobody has begun has no file; one that is under way had one.
Unbegun ==
  \A j \in Ids :
    /\ work[j] = "none" => files[j] = NoFile
    /\ work[j] \in {"running", "recording"} => files[j].state # "absent"

\* A file says how its job ended only once it has: its work returned, or was cut off.
FileIsEarned ==
  \A j \in Ids : files[j].state = "finished" =>
    \/ files[j].says = "work" /\ work[j] = "ended"
    \/ /\ files[j].says = "interrupted" /\ work[j] \in {"dead", "lost", "unread"}
       /\ waits[j] = "told"

\* Work that ended left its result, or its file had been pruned.
EndIsFiled == \A j \in Ids : work[j] = "ended" => files[j].state \in {"finished", "pruned"}

\* Events are set at the end of a job's work, and neither they nor the threads and
\* handlers outlive the process.
EventsAreEnds ==
  /\ \A j \in set : work[j] = "ended"
  /\ phase = "down" =>
       \A j \in Ids : /\ work[j] \notin {"running", "recording"}
                      /\ work[j] # "none" => waits[j] = "told"

\* A waiter has heard nothing before wait() came back, and an end only of a job that
\* ended so, or whose end could not be recorded.
HeardIsEarned ==
  \A w \in Waiters :
    /\ waits[w] # "told" => heard[w] = "nothing"
    /\ waits[w] = "holding" => on[w] \in Ids
    /\ heard[w] = "work" => on[w] \in Ids /\ work[on[w]] \in {"ended", "unread"}
    /\ heard[w] = "interrupted" =>
         /\ on[w] \in Ids /\ work[on[w]] \in {"dead", "lost", "unread"}
         /\ files[on[w]].state \in {"finished", "pruned"}

IInv ==
  /\ TypeOK
  /\ Unbegun
  /\ FileIsEarned
  /\ EndIsFiled
  /\ EventsAreEnds
  /\ HeardIsEarned

LEMMA InitIInv == Init => IInv
<1> SUFFICES ASSUME Init PROVE IInv
  OBVIOUS
<1>1. TypeOK
  BY DEF Init, TypeOK, File, NoFile
<1>2. Unbegun /\ FileIsEarned /\ EndIsFiled /\ EventsAreEnds /\ HeardIsEarned
  BY WaitersApart DEF Init, Unbegun, FileIsEarned, EndIsFiled, EventsAreEnds, HeardIsEarned, NoFile,
     Waiters
<1> QED BY <1>1, <1>2 DEF IInv

-----------------------------------------------------------------------------
(* The directory. *)

LEMMA GoneIsPruned == Gone \in File /\ Gone.state = "pruned" /\ Gone # NoFile
  BY DEF Gone, NoFile, File

\* Pruning keeps a directory a directory, and leaves each file alone or drops it.
LEMMA PruneKeeps ==
  ASSUME NEW fs \in [Ids -> File], NEW S \in SUBSET On(fs)
  PROVE  /\ Unlinked(fs, S) \in [Ids -> File]
         /\ \A j \in Ids :
              Unlinked(fs, S)[j] = fs[j] \/ (Present(fs[j]) /\ Unlinked(fs, S)[j] = Gone)
<1> QED BY GoneIsPruned DEF Unlinked, On

\* A restart rewrites the files it found running, but for those it could not, and no
\* other.
LEMMA RecoveredKeeps ==
  ASSUME TypeOK, NEW skip \in SUBSET Orphans, NEW when \in InTurn(skip)
  PROVE  /\ Recovered(skip, when) \in [Ids -> File]
         /\ \A j \in Ids :
              \/ Recovered(skip, when)[j] = files[j]
              \/ /\ j \in Orphans \ skip
                 /\ Recovered(skip, when)[j].state = "finished"
                 /\ Recovered(skip, when)[j].says = "interrupted"
<1>1. \A j \in Orphans \ skip : when[j] \in Nat
  BY BoundsTyped DEF InTurn, Times, TypeOK
<1> QED BY <1>1 DEF Recovered, Written, File, TypeOK

-----------------------------------------------------------------------------
(* Every step keeps it. *)

\* What a creation does to the directory.
LEMMA CreateDoes ==
  ASSUME TypeOK, NEW j \in Ids, Create(j)
  PROVE  \E time \in Nat, S, s \in SUBSET Ids :
           LET written == [files EXCEPT ![j] = Written("running", "nothing", time)]
           IN /\ written \in [Ids -> File] /\ S \in Stale(written) /\ s \subseteq S
              /\ files' = Unlinked(written, S \ s) /\ clock' = time /\ stuck' = s
<1>1. PICK time \in Times :
        LET written == [files EXCEPT ![j] = Written("running", "nothing", time)]
        IN \E S \in Stale(written), s \in SUBSET Ids :
             /\ s \subseteq S
             /\ files' = Unlinked(written, S \ s) /\ clock' = time /\ stuck' = s
  BY DEF Create
<1>2. time \in Nat
  BY BoundsTyped DEF Times, TypeOK
<1>3. [files EXCEPT ![j] = Written("running", "nothing", time)] \in [Ids -> File]
  BY <1>2 DEF Written, File, TypeOK
<1>4. \A fs : Stale(fs) \subseteq SUBSET Ids
  BY DEF Stale, On
<1> DEFINE written == [files EXCEPT ![j] = Written("running", "nothing", time)]
<1>5. PICK S \in Stale(written), s \in SUBSET Ids :
        s \subseteq S /\ files' = Unlinked(written, S \ s) /\ clock' = time /\ stuck' = s
  BY <1>1
<1>6. S \in SUBSET Ids
  BY <1>4, <1>5
<1> QED BY <1>2, <1>3, <1>5, <1>6

LEMMA CreateKeeps ==
  ASSUME IInv, NEW j \in Ids, Create(j)
  PROVE  IInv'
<1> USE DEF IInv
<1>1. PICK time \in Nat, S \in SUBSET Ids, s \in SUBSET Ids :
        LET w == [files EXCEPT ![j] = Written("running", "nothing", time)]
        IN /\ w \in [Ids -> File] /\ S \in Stale(w) /\ s \subseteq S
           /\ files' = Unlinked(w, S \ s) /\ clock' = time /\ stuck' = s
  BY CreateDoes
<1> DEFINE written == [files EXCEPT ![j] = Written("running", "nothing", time)]
<1>2. /\ written \in [Ids -> File] /\ S \ s \in SUBSET On(written)
      /\ files' = Unlinked(written, S \ s)
  BY <1>1 DEF Stale
<1>3. written[j].state = "running" /\ \A i \in Ids \ {j} : written[i] = files[i]
  BY DEF Written, TypeOK
<1>4. /\ files' \in [Ids -> File]
      /\ \A i \in Ids : files'[i] = written[i] \/ (Present(written[i]) /\ files'[i] = Gone)
  <2> HIDE DEF written
  <2> QED BY <1>2, PruneKeeps
<1>5. /\ files'[j].state \in {"running", "pruned"}
      /\ \A i \in Ids \ {j} : files'[i] = files[i] \/ (Present(files[i]) /\ files'[i] = Gone)
  <2> HIDE DEF written
  <2> QED BY <1>3, <1>4, GoneIsPruned
<1>6. /\ work[j] = "none" /\ work'[j] \in {"running", "recording"}
      /\ \A i \in Ids \ {j} : work'[i] = work[i]
      /\ work' \in [Ids -> {"none", "running", "recording", "ended", "dead", "lost", "unread"}]
  BY DEF Create, TypeOK
<1>7. /\ phase = "up" /\ armed' = armed \cup {j} /\ clock' \in Nat /\ stuck' \subseteq Ids
      /\ UNCHANGED <<phase, set, waits, on, heard, crashes>>
  BY <1>1 DEF Create, waiting
<1>8. faults' \in Nat
  <2>1. PICK t \in SUBSET Ids : faults' = faults + Cardinality(t)
    BY DEF Create
  <2>2. Cardinality(t) \in Nat
    BY BoundsTyped, FS_Subset, FS_CardinalityType
  <2> QED BY <2>1, <2>2 DEF TypeOK
<1>9. TypeOK'
  BY <1>4, <1>6, <1>7, <1>8 DEF TypeOK
<1> HIDE DEF written
<1>10. Unbegun' /\ FileIsEarned' /\ EndIsFiled'
  BY <1>5, <1>6, <1>7, GoneIsPruned DEF Unbegun, FileIsEarned, EndIsFiled, Present, NoFile
<1>11. EventsAreEnds'
  BY <1>6, <1>7 DEF EventsAreEnds, TypeOK
<1>12. HeardIsEarned'
  BY <1>5, <1>6, <1>7, GoneIsPruned DEF HeardIsEarned
<1> QED BY <1>9, <1>10, <1>11, <1>12

\* A write that raised leaves a job that nobody will end, and everything else.
LEMMA LostKeeps ==
  ASSUME IInv, NEW j \in Ids, work[j] \in {"none", "running", "recording"},
         work[j] = "none" => phase = "up",
         work' = [work EXCEPT ![j] = "lost"], armed' \subseteq Ids, faults' \in Nat,
         waits' \in {waits, [waits EXCEPT ![j] = "told"]},
         UNCHANGED <<phase, files, clock, stuck, set, on, heard, crashes>>
  PROVE  IInv'
<1> USE DEF IInv
<1>1. Ids \subseteq Waiters
  BY DEF Waiters
<1>2. /\ waits' \in [Waiters -> {"away", "holding", "told"}]
      /\ \A w \in Waiters : waits'[w] = waits[w] \/ waits'[w] = "told"
  BY <1>1 DEF TypeOK
<1>3. TypeOK'
  BY <1>2 DEF TypeOK
<1>4. Unbegun' /\ EndIsFiled' /\ EventsAreEnds'
  BY <1>1, <1>2 DEF Unbegun, EndIsFiled, EventsAreEnds, TypeOK
<1>5. FileIsEarned'
  BY <1>1, <1>2 DEF Unbegun, FileIsEarned, TypeOK, NoFile
<1>6. HeardIsEarned'
  BY <1>2 DEF HeardIsEarned, TypeOK
<1> QED BY <1>3, <1>4, <1>5, <1>6

\* A record that finish() could not read: nobody will end it but a restart, and only a
\* recording handler tells of its result.
LEMMA UnreadKeeps ==
  ASSUME IInv, NEW j \in Ids, EndUnread(j)
  PROVE  IInv'
<1> USE DEF IInv
<1>1. /\ phase = "up" /\ work[j] \in {"running", "recording"} /\ Present(files[j])
      /\ work' = [work EXCEPT ![j] = "unread"] /\ faults' = faults + 1
      /\ UNCHANGED <<phase, files, clock, stuck, armed, set, crashes>>
  BY DEF EndUnread, disk
<1>2. j \in Waiters
  BY DEF Waiters
<1>3. /\ waits' \in [Waiters -> {"away", "holding", "told"}]
      /\ on' \in [Waiters -> Ids \cup {"none"}]
      /\ heard' \in [Waiters -> {"nothing", "running", "work", "interrupted", "unknown"}]
      /\ \A w \in Waiters : \/ waits'[w] = waits[w] /\ on'[w] = on[w] /\ heard'[w] = heard[w]
                            \/ waits'[w] = "told" /\ on'[w] = j /\ heard'[w] = "work"
  BY <1>2 DEF EndUnread, TypeOK, waiting
<1>4. /\ work'[j] = "unread" /\ \A i \in Ids \ {j} : work'[i] = work[i]
      /\ work' \in [Ids -> {"none", "running", "recording", "ended", "dead", "lost", "unread"}]
  BY <1>1 DEF TypeOK
<1>5. TypeOK'
  BY <1>1, <1>3, <1>4 DEF TypeOK
<1>6. Ids \subseteq Waiters
  BY DEF Waiters
<1>7. Unbegun' /\ EndIsFiled' /\ EventsAreEnds'
  BY <1>1, <1>4 DEF Unbegun, EndIsFiled, EventsAreEnds, TypeOK
<1>8. FileIsEarned'
  BY <1>1, <1>3, <1>4, <1>6 DEF FileIsEarned
<1>9. HeardIsEarned'
  BY <1>1, <1>3, <1>4 DEF HeardIsEarned
<1> QED BY <1>5, <1>7, <1>8, <1>9

\* The end of a job's work, whoever waits: what becomes of its file and event.
LEMMA FinishDoes ==
  ASSUME IInv, NEW j \in Ids, Finish(j), work[j] \in {"running", "recording"}
  PROVE  /\ files' \in [Ids -> File] /\ clock' \in Nat /\ stuck' = stuck
         /\ armed' \subseteq Ids /\ set' \subseteq set \cup {j}
         /\ \A i \in Ids \ {j} : files'[i] = files[i]
         /\ \/ files'[j].state = "finished" /\ files'[j].says = "work" /\ Present(files[j])
            \/ files'[j] = files[j] /\ ~ Present(files[j])
<1> USE DEF IInv
<1>1. \A time \in Times : /\ Written("finished", "work", time) \in File /\ time \in Nat
                          /\ Written("finished", "work", time).state = "finished"
                          /\ Written("finished", "work", time).says = "work"
  BY BoundsTyped DEF Written, File, Times, TypeOK
<1>2. CASE Present(files[j])
  <2>1. PICK time \in Times :
          /\ files' = [files EXCEPT ![j] = Written("finished", "work", time)]
          /\ clock' = time /\ UNCHANGED stuck
          /\ set' = set \cup {j} /\ armed' = armed \ {j}
    BY <1>2 DEF Finish, Filed
  <2> QED BY <1>1, <1>2, <2>1 DEF TypeOK
<1>3. CASE ~ Present(files[j])
  BY <1>3 DEF Finish, TypeOK, disk
<1> QED BY <1>2, <1>3

\* A running job's file that is not there was pruned.
LEMMA EndedKeeps ==
  ASSUME IInv, NEW j \in Ids, Finish(j), work[j] \in {"running", "recording"},
         work' = [work EXCEPT ![j] = "ended"], phase = "up",
         \A i \in Ids : waits[i] = "told" => waits'[i] = "told",
         UNCHANGED <<phase, crashes, faults>>
  PROVE  /\ Unbegun' /\ FileIsEarned' /\ EndIsFiled' /\ EventsAreEnds'
         /\ UNCHANGED <<waits, on, heard>> => TypeOK' /\ HeardIsEarned'
<1> USE DEF IInv
<1>1. /\ files' \in [Ids -> File] /\ clock' \in Nat /\ stuck' = stuck
      /\ armed' \subseteq Ids /\ set' \subseteq set \cup {j}
      /\ \A i \in Ids \ {j} : files'[i] = files[i]
      /\ \/ files'[j].state = "finished" /\ files'[j].says = "work"
         \/ files'[j] = files[j] /\ ~ Present(files[j])
  BY FinishDoes
<1>2. files[j].state \in {"absent", "running", "finished", "pruned"}
      /\ files[j].state # "absent"
  BY DEF TypeOK, File, Unbegun
<1>3. /\ work'[j] = "ended" /\ \A i \in Ids \ {j} : work'[i] = work[i]
      /\ work' \in [Ids -> {"none", "running", "recording", "ended", "dead", "lost", "unread"}]
  BY DEF TypeOK
<1>4. /\ files'[j].state \in {"finished", "pruned"}
      /\ files'[j].state = "finished" => files'[j].says = "work"
  BY <1>1, <1>2 DEF Present
<1>5. Unbegun' /\ FileIsEarned' /\ EndIsFiled'
  BY <1>1, <1>3, <1>4 DEF Unbegun, FileIsEarned, EndIsFiled
<1>6. EventsAreEnds'
  BY <1>1, <1>3 DEF EventsAreEnds, TypeOK
<1>7. ASSUME UNCHANGED <<waits, on, heard>>
      PROVE  TypeOK' /\ HeardIsEarned'
  <2>1. TypeOK'
    BY <1>1, <1>3, <1>7 DEF TypeOK
  <2>2. HeardIsEarned'
    BY <1>1, <1>3, <1>4, <1>7 DEF HeardIsEarned
  <2> QED BY <2>1, <2>2
<1> QED BY <1>5, <1>6, <1>7

LEMMA EndKeeps ==
  ASSUME IInv, NEW j \in Ids, End(j)
  PROVE  IInv'
<1>1. /\ Finish(j) /\ work[j] \in {"running", "recording"} /\ phase = "up"
      /\ work' = [work EXCEPT ![j] = "ended"]
      /\ UNCHANGED <<phase, crashes, faults>> /\ UNCHANGED <<waits, on, heard>>
      /\ \A i \in Ids : waits[i] = "told" => waits'[i] = "told"
  BY DEF End, waiting, bounds
<1> QED BY <1>1, EndedKeeps DEF IInv

\* The recording handler is the waiter of its own job, and tells what it recorded.
LEMMA RecordKeeps ==
  ASSUME IInv, NEW j \in Ids, Record(j)
  PROVE  IInv'
<1> USE DEF IInv
<1>1. /\ Finish(j) /\ work[j] \in {"running", "recording"} /\ phase = "up"
      /\ work' = [work EXCEPT ![j] = "ended"]
      /\ UNCHANGED <<phase, crashes, faults>>
      /\ waits' = [waits EXCEPT ![j] = "told"]
      /\ on' = [on EXCEPT ![j] = j]
      /\ heard' = [heard EXCEPT ![j] = "work"]
  BY DEF Record, bounds
<1>2. Unbegun' /\ FileIsEarned' /\ EndIsFiled' /\ EventsAreEnds'
  <2>1. \A i \in Ids : waits[i] = "told" => waits'[i] = "told"
    BY <1>1 DEF TypeOK, Waiters
  <2> QED BY <1>1, <2>1, EndedKeeps
<1>3. /\ files' \in [Ids -> File] /\ clock' \in Nat /\ stuck' = stuck
      /\ armed' \subseteq Ids /\ set' \subseteq set \cup {j}
      /\ \A i \in Ids \ {j} : files'[i] = files[i]
  BY <1>1, FinishDoes
<1>4. Ids \subseteq Waiters
  BY DEF Waiters
<1>5. /\ work'[j] = "ended" /\ \A i \in Ids \ {j} : work'[i] = work[i]
      /\ work' \in [Ids -> {"none", "running", "recording", "ended", "dead", "lost", "unread"}]
  BY <1>1 DEF TypeOK
<1>6. TypeOK'
  BY <1>1, <1>3, <1>4, <1>5 DEF TypeOK
<1>7. HeardIsEarned'
  <2> SUFFICES ASSUME NEW w \in Waiters
               PROVE  /\ waits'[w] # "told" => heard'[w] = "nothing"
                      /\ waits'[w] = "holding" => on'[w] \in Ids
                      /\ heard'[w] = "work" =>
                           on'[w] \in Ids /\ work'[on'[w]] \in {"ended", "unread"}
                      /\ heard'[w] = "interrupted" =>
                           /\ on'[w] \in Ids /\ work'[on'[w]] \in {"dead", "lost", "unread"}
                           /\ files'[on'[w]].state \in {"finished", "pruned"}
    BY DEF HeardIsEarned
  <2>1. CASE w = j
    BY <1>1, <1>4, <1>5, <2>1 DEF TypeOK
  <2>2. CASE w # j
    <3>1. /\ waits'[w] = waits[w] /\ on'[w] = on[w] /\ heard'[w] = heard[w]
      BY <1>1, <1>4, <2>2 DEF TypeOK
    <3> QED BY <1>1, <1>3, <1>5, <3>1 DEF HeardIsEarned
  <2> QED BY <2>1, <2>2
<1> QED BY <1>2, <1>6, <1>7

\* An answer of wait(): whoever is told an end is told the one there was.
LEMMA AnsweredKeeps ==
  ASSUME IInv, NEW w \in Waiters, NEW j \in Ids, NEW ended \in BOOLEAN,
         Answered(w, j, ended),
         ended /\ w \in Ids => work[j] = "ended",
         UNCHANGED <<phase, files, clock, stuck, work, armed, set, crashes>>
  PROVE  IInv'
<1> USE DEF IInv
<1>1. FileSays(j) \in {"running", "work", "interrupted", "unknown"}
  BY DEF FileSays, Present, TypeOK, File, FileIsEarned
<1>2. /\ FileSays(j) = "work" => work[j] = "ended"
      /\ FileSays(j) = "interrupted" =>
           work[j] \in {"dead", "lost", "unread"} /\ files[j].state = "finished"
  BY DEF FileSays, Present, FileIsEarned
<1>3. /\ Told(w, j, ended) \in {"running", "work", "interrupted", "unknown"}
      /\ Told(w, j, ended) = "work" => work[j] = "ended"
      /\ Told(w, j, ended) = "interrupted" =>
           work[j] \in {"dead", "lost", "unread"} /\ files[j].state = "finished"
  BY <1>1, <1>2 DEF Told
<1>10. PICK what \in {Told(w, j, ended), "unknown"} : heard' = [heard EXCEPT ![w] = what]
  BY DEF Answered
<1>11. /\ waits' = [waits EXCEPT ![w] = "told"] /\ on' = [on EXCEPT ![w] = j]
       /\ faults' \in Nat
  BY DEF Answered, TypeOK
<1>4. TypeOK'
  BY <1>3, <1>10, <1>11 DEF TypeOK
<1>5. Unbegun' /\ FileIsEarned' /\ EndIsFiled' /\ EventsAreEnds'
  BY <1>11 DEF Unbegun, FileIsEarned, EndIsFiled, EventsAreEnds, TypeOK
<1>6. HeardIsEarned'
  <2> SUFFICES ASSUME NEW v \in Waiters
               PROVE  /\ waits'[v] # "told" => heard'[v] = "nothing"
                      /\ waits'[v] = "holding" => on'[v] \in Ids
                      /\ heard'[v] = "work" =>
                           on'[v] \in Ids /\ work'[on'[v]] \in {"ended", "unread"}
                      /\ heard'[v] = "interrupted" =>
                           /\ on'[v] \in Ids /\ work'[on'[v]] \in {"dead", "lost", "unread"}
                           /\ files'[on'[v]].state \in {"finished", "pruned"}
    BY DEF HeardIsEarned
  <2>1. CASE v = w
    <3>1. waits'[v] = "told" /\ on'[v] = j /\ heard'[v] = what
      BY <1>10, <1>11, <2>1 DEF TypeOK
    <3> QED BY <1>3, <1>10, <3>1
  <2>2. CASE v # w
    <3>1. waits'[v] = waits[v] /\ on'[v] = on[v] /\ heard'[v] = heard[v]
      BY <1>10, <1>11, <2>2 DEF TypeOK
    <3> QED BY <3>1 DEF HeardIsEarned
  <2> QED BY <2>1, <2>2
<1> QED BY <1>4, <1>5, <1>6

LEMMA WaitKeeps ==
  ASSUME IInv, NEW w \in Waiters, NEW j \in Ids, Wait(w, j)
  PROVE  IInv'
<1> USE DEF IInv
<1>1. /\ waits[w] = "away" /\ Asks(w, j)
      /\ UNCHANGED <<phase, files, clock, stuck, work, armed, set, crashes>>
  BY DEF Wait, disk
<1>2. CASE j \in armed
  <2>1. /\ waits' = [waits EXCEPT ![w] = "holding"] /\ on' = [on EXCEPT ![w] = j]
        /\ UNCHANGED <<heard, faults>>
    BY <1>2 DEF Wait
  <2>2. TypeOK'
    BY <1>1, <2>1 DEF TypeOK
  <2>3. Unbegun' /\ FileIsEarned' /\ EndIsFiled' /\ EventsAreEnds'
    BY <1>1, <2>1 DEF Unbegun, FileIsEarned, EndIsFiled, EventsAreEnds, TypeOK
  <2>4. HeardIsEarned'
    BY <1>1, <2>1 DEF HeardIsEarned, TypeOK
  <2> QED BY <2>2, <2>3, <2>4
<1>3. CASE j \notin armed
  <2>1. Answered(w, j, Finished(j))
    BY <1>3 DEF Wait
  <2>2. w \in Ids => w = j
    BY <1>1 DEF Asks
  <2>3. Finished(j) /\ w \in Ids => work[j] = "ended"
    BY <1>1, <2>2 DEF Finished, FileIsEarned
  <2>4. Finished(j) \in BOOLEAN
    BY DEF Finished
  <2> QED BY <1>1, <2>1, <2>2, <2>3, <2>4, AnsweredKeeps
<1> QED BY <1>2, <1>3

\* Somebody who waits is told when the event is set, or when his time is up.
LEMMA WokenKeeps ==
  ASSUME IInv, NEW w \in Waiters, Wake(w) \/ GiveUp(w)
  PROVE  IInv'
<1>1. CASE Wake(w)
  <2>1. on[w] \in set /\ on[w] \in Ids /\ work[on[w]] = "ended"
    BY <1>1 DEF Wake, IInv, TypeOK, EventsAreEnds
  <2>2. /\ Answered(w, on[w], TRUE)
        /\ UNCHANGED <<phase, files, clock, stuck, work, armed, set, crashes>>
    BY <1>1 DEF Wake, disk
  <2> QED BY <2>1, <2>2, AnsweredKeeps
<1>2. CASE GiveUp(w)
  <2>1. on[w] \in Ids
    BY <1>2 DEF GiveUp, IInv, HeardIsEarned
  <2>2. /\ Answered(w, on[w], FALSE)
        /\ UNCHANGED <<phase, files, clock, stuck, work, armed, set, crashes>>
    BY <1>2 DEF GiveUp, disk
  <2> QED BY <2>1, <2>2, AnsweredKeeps
<1> QED BY <1>1, <1>2

LEMMA CrashKeeps ==
  ASSUME IInv, Crash
  PROVE  IInv'
<1> USE DEF IInv
<1>1. /\ phase = "up" /\ phase' = "down" /\ crashes' = crashes + 1
      /\ armed' = {} /\ set' = {}
      /\ UNCHANGED <<files, clock, stuck, on, heard, faults>>
  BY DEF Crash, disk
<1>2. /\ work' \in [Ids -> {"none", "running", "recording", "ended", "dead", "lost", "unread"}]
      /\ \A j \in Ids :
           \/ work[j] \notin {"running", "recording"} /\ work'[j] = work[j]
           \/ work[j] \in {"running", "recording"} /\ work'[j] = "dead"
  BY DEF Crash, TypeOK
<1>3. /\ waits' \in [Waiters -> {"away", "holding", "told"}]
      /\ \A w \in Waiters : /\ waits'[w] # "holding" /\ (waits'[w] # "told" => waits'[w] = waits[w])
                            /\ waits[w] = "told" => waits'[w] = "told"
      /\ \A j \in Ids : work[j] # "none" => waits'[j] = "told"
      /\ Ids \subseteq Waiters
  BY DEF Crash, TypeOK, Waiters
<1>4. TypeOK'
  BY <1>1, <1>2, <1>3 DEF TypeOK
<1>5. Unbegun' /\ FileIsEarned' /\ EndIsFiled' /\ EventsAreEnds'
  BY <1>1, <1>2, <1>3 DEF Unbegun, FileIsEarned, EndIsFiled, EventsAreEnds
<1>6. HeardIsEarned'
  BY <1>1, <1>2, <1>3 DEF HeardIsEarned
<1> QED BY <1>4, <1>5, <1>6

LEMMA BootKeeps ==
  ASSUME IInv, Boot
  PROVE  IInv'
<1> USE DEF IInv
<1>0. PICK skip \in SUBSET Orphans : \E when \in InTurn(skip) :
        /\ faults' = faults + Cardinality(skip)
        /\ files' = Recovered(skip, when)
        /\ clock' \in Times
        /\ work' = [j \in Ids |-> IF j \in skip /\ work[j] # "unread" THEN "lost" ELSE work[j]]
  BY DEF Boot
<1>1. PICK when \in InTurn(skip) :
        /\ faults' = faults + Cardinality(skip)
        /\ files' = Recovered(skip, when)
        /\ clock' \in Times
        /\ work' = [j \in Ids |-> IF j \in skip /\ work[j] # "unread" THEN "lost" ELSE work[j]]
  BY <1>0
<1>2. /\ phase = "down" /\ phase' = "up"
      /\ UNCHANGED <<stuck, armed, set, waits, on, heard, crashes>>
  BY DEF Boot, waiting
<1>3. skip \subseteq Ids /\ \A j \in Orphans : files[j].state = "running"
  BY DEF Orphans
<1>4. Cardinality(skip) \in Nat /\ clock' \in Nat
  <2>1. IsFiniteSet(skip)
    BY BoundsTyped, FS_Subset DEF Orphans
  <2> QED BY <1>1, <2>1, BoundsTyped, FS_CardinalityType DEF Times, TypeOK
<1>5. /\ files' \in [Ids -> File]
      /\ \A j \in Ids :
           \/ files'[j] = files[j]
           \/ /\ j \in Orphans \ skip
              /\ files'[j].state = "finished" /\ files'[j].says = "interrupted"
  BY <1>1, RecoveredKeeps
<1>6. /\ work' \in [Ids -> {"none", "running", "recording", "ended", "dead", "lost", "unread"}]
      /\ \A j \in Ids : work'[j] = work[j] \/ (j \in skip /\ work'[j] = "lost")
      /\ \A j \in Ids : work[j] = "unread" => work'[j] = "unread"
  BY <1>1 DEF TypeOK
<1>7. \A j \in Orphans : work[j] \in {"dead", "lost", "unread"} /\ j \in Ids /\ waits[j] = "told"
  BY <1>2 DEF Orphans, Unbegun, EndIsFiled, EventsAreEnds, TypeOK, NoFile
<1>8. TypeOK'
  BY <1>1, <1>2, <1>4, <1>5, <1>6 DEF TypeOK
<1>9. Unbegun' /\ FileIsEarned'
  BY <1>2, <1>3, <1>5, <1>6, <1>7 DEF Unbegun, FileIsEarned
<1>10. EndIsFiled' /\ EventsAreEnds'
  BY <1>2, <1>3, <1>5, <1>6, <1>7 DEF EndIsFiled, EventsAreEnds, TypeOK
<1>11. HeardIsEarned'
  BY <1>2, <1>3, <1>5, <1>6, <1>7 DEF HeardIsEarned
<1> QED BY <1>8, <1>9, <1>10, <1>11

LEMMA StutterKeeps ==
  ASSUME IInv, UNCHANGED vars
  PROVE  IInv'
<1>1. UNCHANGED <<phase, files, clock, stuck, work, armed, set, waits, on, heard, crashes, faults>>
  BY DEF vars, disk, waiting, bounds
<1> QED BY <1>1 DEF IInv, TypeOK, Unbegun, FileIsEarned, EndIsFiled, EventsAreEnds, HeardIsEarned

LEMMA NextKeeps == IInv /\ [Next]_vars => IInv'
<1> SUFFICES ASSUME IInv, [Next]_vars PROVE IInv'
  OBVIOUS
<1>1. CASE \E j \in Ids : CreateFails(j) \/ EndFails(j)
  <2>1. PICK j \in Ids : CreateFails(j) \/ EndFails(j)
    BY <1>1
  <2>2. /\ work[j] \in {"none", "running", "recording"} /\ (work[j] = "none" => phase = "up")
        /\ work' = [work EXCEPT ![j] = "lost"] /\ armed' \subseteq Ids /\ faults' \in Nat
        /\ waits' \in {waits, [waits EXCEPT ![j] = "told"]}
        /\ UNCHANGED <<phase, files, clock, stuck, set, on, heard, crashes>>
    BY <2>1 DEF CreateFails, EndFails, disk, IInv, TypeOK
  <2> QED BY <2>2, LostKeeps
<1>2. CASE \E j \in Ids : Create(j) \/ End(j) \/ Record(j) \/ EndUnread(j)
  BY <1>2, CreateKeeps, EndKeeps, RecordKeeps, UnreadKeeps
<1>3. CASE \E w \in Waiters : Wake(w) \/ GiveUp(w) \/ \E j \in Ids : Wait(w, j)
  BY <1>3, WaitKeeps, WokenKeeps
<1>4. CASE Crash \/ Boot
  BY <1>4, CrashKeeps, BootKeeps
<1>5. CASE UNCHANGED vars
  BY <1>5, StutterKeeps
<1> QED BY <1>1, <1>2, <1>3, <1>4, <1>5 DEF Next

-----------------------------------------------------------------------------
(* The directory's bound. *)

LEMMA OnIsFinite ==
  ASSUME NEW fs, NEW S \in SUBSET On(fs)
  PROVE  IsFiniteSet(S) /\ Cardinality(S) \in Nat
<1>1. S \in SUBSET Ids
  BY DEF On
<1>2. IsFiniteSet(S)
  BY <1>1, BoundsTyped, FS_Subset
<1> QED BY <1>2, FS_CardinalityType

\* What a pruning leaves, but for what it could not unlink, is within the limit.
LEMMA CreateBounds ==
  ASSUME TypeOK, NEW j \in Ids, Create(j)
  PROVE  DirectoryBounded'
<1>1. PICK time \in Nat, S \in SUBSET Ids, s \in SUBSET Ids :
        LET w == [files EXCEPT ![j] = Written("running", "nothing", time)]
        IN /\ w \in [Ids -> File] /\ S \in Stale(w) /\ s \subseteq S
           /\ files' = Unlinked(w, S \ s) /\ clock' = time /\ stuck' = s
  BY CreateDoes
<1> DEFINE written == [files EXCEPT ![j] = Written("running", "nothing", time)]
<1>2. S \in Stale(written) /\ files' = Unlinked(written, S \ s) /\ stuck' = s
  BY <1>1
<1> HIDE DEF written
<1>3. Cardinality(On(written) \ S) <= Keep
  <2>1. CASE S = {}
    <3>1. On(written) \ S = On(written)
      BY <2>1
    <3> QED BY <1>2, <2>1, <3>1 DEF Stale
  <2>2. CASE S # {}
    BY <1>2, <2>2, BoundsTyped DEF Stale
  <2> QED BY <2>1, <2>2
<1>4. On(files') \ stuck' \subseteq On(written) \ S
  BY <1>2, GoneIsPruned DEF On, Unlinked, Present
<1>5. On(written) \ S \in SUBSET On(written) /\ On(files)' = On(files')
  BY DEF On, Present
<1>6. IsFiniteSet(On(written) \ S) /\ Cardinality(On(written) \ S) \in Nat
  BY <1>5, OnIsFinite
<1>7. /\ Cardinality(On(files') \ stuck') <= Cardinality(On(written) \ S)
      /\ Cardinality(On(files') \ stuck') \in Nat
  BY <1>4, <1>6, FS_Subset, FS_CardinalityType
<1> QED BY <1>3, <1>5, <1>6, <1>7, BoundsTyped DEF DirectoryBounded

\* No other step adds a file.
LEMMA RestBounds ==
  ASSUME DirectoryBounded, \A j \in Ids : Present(files'[j]) => Present(files[j]),
         stuck' = stuck
  PROVE  DirectoryBounded'
<1>1. On(files') \ stuck' \subseteq On(files) \ stuck /\ On(files)' = On(files')
  BY DEF On, Present
<1>2. On(files) \ stuck \in SUBSET On(files)
  OBVIOUS
<1>3. IsFiniteSet(On(files) \ stuck) /\ Cardinality(On(files) \ stuck) \in Nat
  BY <1>2, OnIsFinite
<1>4. /\ Cardinality(On(files') \ stuck') <= Cardinality(On(files) \ stuck)
      /\ Cardinality(On(files') \ stuck') \in Nat
  BY <1>1, <1>3, FS_Subset, FS_CardinalityType
<1> QED BY <1>1, <1>3, <1>4, BoundsTyped DEF DirectoryBounded

LEMMA NextBounds == IInv /\ DirectoryBounded /\ [Next]_vars => DirectoryBounded'
<1> SUFFICES ASSUME IInv, DirectoryBounded, [Next]_vars PROVE DirectoryBounded'
  OBVIOUS
<1>1. CASE \E j \in Ids : Create(j)
  BY <1>1, CreateBounds DEF IInv
<1>2. CASE \E j \in Ids : End(j) \/ Record(j)
  <2>1. PICK j \in Ids : Finish(j) /\ work[j] \in {"running", "recording"}
    BY <1>2 DEF End, Record
  <2>2. /\ stuck' = stuck /\ \A i \in Ids \ {j} : files'[i] = files[i]
        /\ Present(files[j]) \/ files'[j] = files[j]
    BY <2>1, FinishDoes
  <2> QED BY <2>2, RestBounds DEF Present
<1>3. CASE Boot
  <2>0. PICK skip \in SUBSET Orphans : \E when \in InTurn(skip) : files' = Recovered(skip, when)
    BY <1>3 DEF Boot
  <2>1. PICK when \in InTurn(skip) : files' = Recovered(skip, when)
    BY <2>0
  <2>2. \A j \in Ids : files'[j] = files[j] \/ j \in Orphans
    BY <2>1, RecoveredKeeps DEF IInv
  <2>3. \A j \in Orphans : Present(files[j])
    BY DEF Orphans, Present
  <2>4. stuck' = stuck
    BY <1>3 DEF Boot
  <2> QED BY <2>2, <2>3, <2>4, RestBounds
<1>4. CASE UNCHANGED disk
  BY <1>4, RestBounds DEF disk
<1>5. CASE \/ \E j \in Ids : CreateFails(j) \/ EndFails(j) \/ EndUnread(j)
           \/ \E w \in Waiters : Wake(w) \/ GiveUp(w) \/ \E j \in Ids : Wait(w, j)
           \/ UNCHANGED vars
  <2>1. UNCHANGED disk
    BY <1>5 DEF CreateFails, EndFails, EndUnread, Wake, GiveUp, Wait, vars
  <2> QED BY <1>4, <2>1
<1>6. CASE Crash
  <2>1. UNCHANGED disk
    BY <1>6 DEF Crash
  <2> QED BY <1>4, <2>1
<1> QED BY <1>1, <1>2, <1>3, <1>5, <1>6 DEF Next

-----------------------------------------------------------------------------
(* The theorems. *)

\* The invariant holds always.
THEOREM Invariant == Spec => []IInv
  BY InitIInv, NextKeeps, PTL DEF Spec

\* The directory, the threads, the events and the waiters keep their types for any
\* number of jobs, clients, crashes and faults.
THEOREM TypeCorrect == Spec => []TypeOK
<1>1. IInv => TypeOK
  BY DEF IInv
<1> QED BY <1>1, Invariant, PTL

\* Nobody hears two ends of one job, nor one the file denies, whatever was pruned,
\* restarted or given up on between (finish, wait, _recover_interrupted).
THEOREM OneEndHolds == Spec => []OneEnd
<1>1. ASSUME IInv PROVE OneEnd
  <2> SUFFICES ASSUME NEW w \in Waiters, heard[w] \in Ends, work[on[w]] # "unread"
               PROVE  /\ \A v \in Waiters : on[v] = on[w] /\ heard[v] \in Ends
                                              => heard[v] = heard[w]
                      /\ Present(files[on[w]]) => FileSays(on[w]) = heard[w]
    BY DEF OneEnd
  <2>1. \A v \in Waiters : on[v] = on[w] /\ heard[v] \in Ends => heard[v] = heard[w]
    BY <1>1 DEF IInv, HeardIsEarned, Ends
  <2>2. ASSUME Present(files[on[w]]) PROVE FileSays(on[w]) = heard[w]
    <3>1. on[w] \in Ids /\ files[on[w]].state = "finished"
      BY <1>1, <2>2 DEF IInv, HeardIsEarned, EndIsFiled, Ends, Present
    <3>2. heard[w] = files[on[w]].says
      BY <1>1, <3>1 DEF IInv, HeardIsEarned, FileIsEarned, Ends
    <3> QED BY <2>2, <3>1, <3>2 DEF FileSays
  <2> QED BY <2>1, <2>2
<1> QED BY <1>1, Invariant, PTL

\* The directory never holds more than Keep files but for those the last pruning could
\* not unlink, whenever finish() and create() meet and whatever a restart rewrites
\* (_prune, finish, _recover_interrupted).
THEOREM DirectoryStaysBounded == Spec => []DirectoryBounded
<1>1. Init => DirectoryBounded
  <2> SUFFICES ASSUME Init PROVE DirectoryBounded
    OBVIOUS
  <2>1. On(files) \ stuck = {}
    BY DEF Init, On, NoFile, Present
  <2> QED BY <2>1, FS_EmptySet, BoundsTyped DEF DirectoryBounded
<1> QED BY <1>1, NextBounds, Invariant, PTL DEF Spec

\* An end on file is never rewritten, and a pruned job's file never returns
\* (create, finish, _prune, _recover_interrupted).
THEOREM EndsStay == Spec => EndsAreFinal
<1> DEFINE Final ==
      \A j \in Ids :
        /\ files[j].state = "finished" => files'[j] \in {files[j], Gone}
        /\ files[j].state = "pruned" => files'[j] = files[j]
<1>1. ASSUME IInv, [Next]_vars PROVE Final
  <2>1. CASE \E j \in Ids : Create(j)
    <3>1. PICK j \in Ids : Create(j)
      BY <2>1
    <3>2. work[j] = "none" /\ files[j] = NoFile
      BY <1>1, <3>1 DEF Create, IInv, Unbegun
    <3>3. PICK time \in Nat, S \in SUBSET Ids, s \in SUBSET Ids :
            LET w == [files EXCEPT ![j] = Written("running", "nothing", time)]
            IN w \in [Ids -> File] /\ S \in Stale(w) /\ files' = Unlinked(w, S \ s)
      BY <1>1, <3>1, CreateDoes DEF IInv
    <3> DEFINE written == [files EXCEPT ![j] = Written("running", "nothing", time)]
    <3>4. /\ written \in [Ids -> File] /\ S \ s \in SUBSET On(written)
          /\ files' = Unlinked(written, S \ s)
          /\ \A i \in Ids \ {j} : written[i] = files[i]
      BY <1>1, <3>3 DEF Stale, IInv, TypeOK
    <3>5. \A i \in Ids \ {j} : files'[i] = files[i] \/ (Present(files[i]) /\ files'[i] = Gone)
      <4> HIDE DEF written
      <4> QED BY <3>4, PruneKeeps
    <3>6. \A i \in Ids \ {j} : files[i].state = "pruned" => ~Present(files[i])
      BY DEF Present
    <3>7. files[j].state = "absent"
      BY <3>2 DEF NoFile
    <3> QED BY <3>5, <3>6, <3>7
  <2>2. CASE \E j \in Ids : End(j) \/ Record(j)
    <3>1. PICK j \in Ids : End(j) \/ Record(j)
      BY <2>2
    <3>2. Finish(j) /\ work[j] \in {"running", "recording"}
      BY <3>1 DEF End, Record
    <3>3. files[j].state # "finished"
      BY <1>1, <3>2 DEF IInv, FileIsEarned
    <3>4. /\ \A i \in Ids \ {j} : files'[i] = files[i]
          /\ files'[j] = files[j] \/ Present(files[j])
      BY <1>1, <3>2, FinishDoes
    <3> QED BY <3>3, <3>4 DEF Present
  <2>3. CASE Boot
    <3>0. PICK skip \in SUBSET Orphans : \E when \in InTurn(skip) : files' = Recovered(skip, when)
      BY <2>3 DEF Boot
    <3>1. PICK when \in InTurn(skip) : files' = Recovered(skip, when)
      BY <3>0
    <3> QED BY <1>1, <3>1, RecoveredKeeps DEF IInv, Orphans
  <2>4. CASE UNCHANGED files
    BY <2>4
  <2>5. CASE \/ \E j \in Ids : CreateFails(j) \/ EndFails(j) \/ EndUnread(j)
             \/ \E w \in Waiters : Wake(w) \/ GiveUp(w) \/ \E j \in Ids : Wait(w, j)
             \/ Crash \/ UNCHANGED vars
    <3>1. UNCHANGED files
      BY <2>5 DEF CreateFails, EndFails, EndUnread, Wake, GiveUp, Wait, Crash, disk, vars
    <3> QED BY <2>4, <3>1
  <2> QED BY <1>1, <2>1, <2>2, <2>3, <2>5 DEF Next
<1> QED BY <1>1, Invariant, PTL DEF Spec, EndsAreFinal

=============================================================================
