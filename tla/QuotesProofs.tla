---------------------------- MODULE QuotesProofs ----------------------------
(***************************************************************************)
(* Proofs about the owner's replies to a quote card, for any number of     *)
(* replies, tries, broken passes and crashes.                              *)
(***************************************************************************)
EXTENDS Quotes, FiniteSetTheorems, TLAPS

-----------------------------------------------------------------------------
(* The inductive invariant. *)

Acting == at \in {"handling", "giving_up", "closing", "submitting", "parked", "superseding",
                  "marking", "answering"}
Replacing == at \in {"superseding", "marking"}

\* Acting on a reply, the thread knows which one and where to go back to.
KnowsItsReply ==
  /\ Acting => cur \in Replies /\ from \in {"page", "retry", "desk"}
  /\ at = "page" => from = "page"
  /\ at = "retry" => from = "retry"

\* Until its verdict a reply is claimed, and its quote is parked once.
VerdictIsOpen ==
  /\ at \in {"handling", "giving_up", "submitting", "parked"} => state[cur] = "claimed"
  /\ at = "submitting" => parked[cur] = 0
  /\ at = "parked" => parked[cur] > 0

\* What is to be tried again is claimed still, and not the reply in hand.
RetriesAreClaimed ==
  from = "retry" /\ at # "idle" =>
    \A r \in page : state[r] = "claimed" /\ (Acting => r # cur)

\* While others are replaced, the one that replaces them stands.
ReplacementStands ==
  /\ \A r \in Replies : state[r] = "submitted" => parked[r] > 0
  /\ Replacing =>
       /\ state[cur] = "submitted"
       /\ \A o \in todo : o # cur /\ state[o] = "submitted"
  /\ at \in {"parked", "superseding", "marking"} => latest = cur
  /\ \A r \in withdrawn : state[r] \in {"submitted", "superseded"}
  /\ Replacing => cur \notin withdrawn
  /\ at = "marking" =>
       /\ victim \in Replies /\ victim # cur /\ victim \notin todo
       /\ state[victim] = "submitted" /\ queue[victim] # "pending"

\* The cursor, and where the page ends, stay behind what was written.
BehindTheOwner ==
  /\ channel \subseteq 1 .. written
  /\ cursor <= written /\ upto <= written

\* The page still holds what was not claimed up to where it ends.
PageHolds ==
  open /\ from = "page" /\ at # "idle" =>
    \A r \in channel : r <= upto => state[r] # "none" \/ r \in page

\* While nothing broke: but for the quote just parked, at most one waits, and it is
\* recorded; all others are being replaced.
OneWaits ==
  faults = 0 /\ crashes = 0 =>
    IF Replacing THEN Live \subseteq todo \cup {cur}
    ELSE LET Older == IF at = "parked" THEN Live \ {cur} ELSE Live
         IN /\ \A r \in Older : state[r] = "submitted"
            /\ \A r, q \in Older : r = q

\* A reply without a verdict has tries left, but for the one that is being given up.
TriesLeft ==
  \A r \in Replies : state[r] \in {"none", "claimed"} =>
    tries[r] < OrderTries + faults + crashes \/ (at = "giving_up" /\ r = cur)

\* All that does not count tries.
Settled ==
  /\ Typed
  /\ KnowsItsReply /\ VerdictIsOpen /\ RetriesAreClaimed /\ ReplacementStands
  /\ BehindTheOwner /\ PageHolds /\ OneWaits
  /\ OneReplyOneQuote /\ ReplacedForGood /\ NothingSkipped

IInv == Settled /\ TriesBounded /\ TriesLeft

LEMMA InitSettled == Init => Settled
<1> SUFFICES ASSUME Init PROVE Settled
  OBVIOUS
<1> USE DEF Init
<1>0. N \in Nat /\ OrderTries \in Nat /\ OrderTries > 0 /\ 0 \in 0 .. N
  BY BoundsTyped
<1>1. Typed
  BY <1>0 DEF Typed, NoReply
<1>2. KnowsItsReply /\ VerdictIsOpen /\ RetriesAreClaimed /\ ReplacementStands
  BY <1>0 DEF KnowsItsReply, VerdictIsOpen, RetriesAreClaimed, ReplacementStands, Acting,
              Replacing
<1>3. BehindTheOwner /\ PageHolds
  BY <1>0 DEF BehindTheOwner, PageHolds, NoReply
<1>4. OneWaits
  BY DEF OneWaits, Live, Replacing
<1>5. OneReplyOneQuote /\ ReplacedForGood /\ NothingSkipped
  BY <1>0 DEF NoReply, OneReplyOneQuote, ReplacedForGood, NothingSkipped
<1> QED BY <1>1, <1>2, <1>3, <1>4, <1>5 DEF Settled

-----------------------------------------------------------------------------
(* The outside. *)

\* The owner, Scrooge and the queue: no approval starts to wait, no reply is unclaimed,
\* and what is written now is newer than all that was read.
LEMMA OutsideKeeps ==
  ASSUME Settled, Typed',
         UNCHANGED <<at, from, cur, page, upto, todo, victim, cursor, state, tries, parked,
                     latest, withdrawn, faults, crashes>>,
         open' => open, written <= written', channel' \subseteq 1 .. written',
         \A r \in channel' : r \in channel \/ r > written,
         \A r \in Replies : queue'[r] = "pending" => queue[r] = "pending"
  PROVE  Settled'
<1> USE DEF Settled
<1>1. KnowsItsReply' /\ VerdictIsOpen' /\ RetriesAreClaimed'
  BY DEF KnowsItsReply, VerdictIsOpen, RetriesAreClaimed, Acting
<1>2. ReplacementStands'
  BY DEF ReplacementStands, Replacing
<1>3. cursor \in Nat /\ upto \in Nat /\ written \in Nat /\ written' \in Nat
  BY BoundsTyped DEF Typed
<1>4. BehindTheOwner'
  BY <1>3 DEF BehindTheOwner
<1>5. \A r \in channel' : (r <= cursor \/ r <= upto) => r \in channel
  <2> SUFFICES ASSUME NEW r \in channel', r <= cursor \/ r <= upto, r > written PROVE FALSE
    OBVIOUS
  <2>1. r \in Nat
    BY <1>3
  <2> QED BY <1>3, <2>1 DEF BehindTheOwner
<1>6. PageHolds' /\ NothingSkipped'
  BY <1>5 DEF PageHolds, NothingSkipped
<1>7. OneWaits'
  <2>1. Live' \subseteq Live
    BY DEF Live
  <2> QED BY <2>1 DEF OneWaits, Replacing
<1>8. OneReplyOneQuote' /\ ReplacedForGood'
  BY DEF OneReplyOneQuote, ReplacedForGood
<1> QED BY <1>1, <1>2, <1>4, <1>6, <1>7, <1>8

LEMMA WriteKeeps ==
  ASSUME Settled, NEW says \in {"price", "other"}, NEW onDesk \in BOOLEAN, Write(says, onDesk)
  PROVE  Settled'
<1>1. /\ written \in Nat /\ written < N /\ written' = written + 1 /\ N \in Nat
      /\ text' = [text EXCEPT ![written + 1] = says]
      /\ channel' \in {channel, channel \cup {written + 1}}
      /\ desk' \in {desk, desk \cup {written + 1}}
      /\ UNCHANGED <<order, open, cursor, state, tries, queue, parked, latest, withdrawn, at,
                     from, cur, page, upto, todo, victim, faults, crashes>>
  BY BoundsTyped DEF Write, record, approvals, history, locals, bounds, Settled, Typed
<1>2. written' \in 0 .. N /\ written + 1 \in Replies
  BY <1>1 DEF Replies
<1>3. Typed'
  BY <1>1, <1>2 DEF Settled, Typed
<1>4. channel \subseteq 1 .. written
  BY DEF Settled, BehindTheOwner
<1>5. /\ channel' \subseteq 1 .. written' /\ written <= written'
      /\ \A r \in channel' : r \in channel \/ r > written
  BY <1>1, <1>4
<1> QED BY <1>1, <1>3, <1>5, OutsideKeeps

LEMMA OrderKeeps ==
  ASSUME Settled, OrderMoves \/ Reconcile \/ \E r \in Replies : DeskBusy(r)
  PROVE  Settled'
<1>1. UNCHANGED <<written, text, channel, cursor, state, tries, queue, parked, latest,
                  withdrawn, at, from, cur, page, upto, todo, victim, faults, crashes>>
  BY DEF OrderMoves, Reconcile, DeskBusy, world, record, approvals, history, locals, bounds
<1>2. order' \in {"quotable", "other", "closed"}
  <2>1. order \in {"quotable", "other", "closed"}
    BY DEF Settled, Typed
  <2> QED BY <2>1 DEF OrderMoves, Reconcile, DeskBusy, world
<1>3. open' \in BOOLEAN /\ (open' => open)
  <2>1. open \in BOOLEAN
    BY DEF Settled, Typed
  <2>2. open' = open \/ open' = FALSE
    BY DEF OrderMoves, Reconcile, DeskBusy, record
  <2>3. CASE open' = open
    BY <2>1, <2>3
  <2>4. CASE open' = FALSE
    BY <2>4, Zenon
  <2> QED BY <2>2, <2>3, <2>4
<1>4. desk' \subseteq desk
  BY DEF OrderMoves, Reconcile, DeskBusy
<1>5. Typed'
  BY <1>1, <1>2, <1>3, <1>4 DEF Settled, Typed
<1>6. written \in Nat /\ written <= written' /\ channel' \subseteq 1 .. written'
  BY <1>1, BoundsTyped DEF Settled, Typed, BehindTheOwner
<1> QED BY <1>1, <1>3, <1>5, <1>6, OutsideKeeps

LEMMA ApprovalKeeps ==
  ASSUME Settled, NEW r \in Replies, Approve(r) \/ Deny(r) \/ Run(r)
  PROVE  Settled'
<1>1. /\ queue[r] \in {"pending", "running"}
      /\ \E s \in {"running", "denied", "sent", "failed"} : queue' = [queue EXCEPT ![r] = s]
      /\ UNCHANGED <<order, written, text, channel, desk, open, cursor, state, tries, parked,
                     latest, withdrawn, at, from, cur, page, upto, todo, victim, faults,
                     crashes>>
  BY DEF Approve, Deny, Denied, Run, world, record, history, locals, bounds, Settled, Typed
<1>2. Typed' /\ \A q \in Replies : queue'[q] = "pending" => queue[q] = "pending"
  BY <1>1 DEF Settled, Typed
<1>3. written \in Nat /\ written <= written' /\ channel' \subseteq 1 .. written'
  BY <1>1, BoundsTyped DEF Settled, Typed, BehindTheOwner
<1> QED BY <1>1, <1>2, <1>3, OutsideKeeps

LEMMA StutterKeeps ==
  ASSUME Settled, UNCHANGED vars
  PROVE  Settled'
<1>1. UNCHANGED <<order, written, text, channel, desk, open, cursor, state, tries, queue,
                  parked, latest, withdrawn, at, from, cur, page, upto, todo, victim, faults,
                  crashes>>
  BY DEF vars, world, record, approvals, history, locals, bounds
<1>2. Typed'
  BY <1>1 DEF Settled, Typed
<1>3. written \in Nat /\ written <= written' /\ channel' \subseteq 1 .. written'
  BY <1>1, BoundsTyped DEF Settled, Typed, BehindTheOwner
<1> QED BY <1>1, <1>2, <1>3, OutsideKeeps

-----------------------------------------------------------------------------
(* Passes that end. *)

\* A pass ends, well or not: the record stays as it is.
LEMMA RestKeeps ==
  ASSUME Settled, Typed', AtRest,
         UNCHANGED <<written, channel, open, cursor, state, tries, parked, latest, withdrawn>>,
         \A r \in Replies : queue'[r] = "pending" => queue[r] = "pending",
         OneWaits'
  PROVE  Settled'
<1> USE DEF Settled
<1>1. /\ at' = "idle" /\ from' = "none" /\ cur' = 0 /\ page' = {} /\ upto' = 0 /\ todo' = {}
      /\ victim' = 0
  BY DEF AtRest, NoReply
<1>2. KnowsItsReply' /\ VerdictIsOpen' /\ RetriesAreClaimed' /\ ReplacementStands'
  BY <1>1 DEF KnowsItsReply, VerdictIsOpen, RetriesAreClaimed, ReplacementStands, Acting,
              Replacing
<1>3. BehindTheOwner' /\ PageHolds'
  BY <1>1, BoundsTyped DEF BehindTheOwner, PageHolds, Typed
<1>4. OneReplyOneQuote' /\ ReplacedForGood' /\ NothingSkipped'
  BY DEF OneReplyOneQuote, ReplacedForGood, NothingSkipped
<1> QED BY <1>2, <1>3, <1>4

LEMMA BreaksKeeps ==
  ASSUME Settled, Breaks \/ Crash
  PROVE  Settled'
<1>1. /\ AtRest /\ desk' \subseteq desk
      /\ faults' \in Nat /\ crashes' \in Nat /\ (faults' # 0 \/ crashes' # 0)
      /\ UNCHANGED <<order, written, text, channel, open, cursor, state, tries, parked, latest,
                     withdrawn>>
  BY DEF Breaks, Crash, world, record, approvals, history, Settled, Typed
<1>2. /\ queue' \in [Replies -> {"none", "pending", "running", "denied", "sent", "failed"}]
      /\ \A r \in Replies : queue'[r] = "pending" => queue[r] = "pending"
  BY DEF Breaks, Crash, approvals, history, Settled, Typed
<1>3. 0 \in 0 .. N
  BY BoundsTyped
<1>4. Typed'
  BY <1>1, <1>2, <1>3 DEF Settled, Typed, AtRest, NoReply
<1>5. OneWaits'
  BY <1>1 DEF OneWaits
<1> QED BY <1>1, <1>2, <1>4, <1>5, RestKeeps

LEMMA PollDoneKeeps ==
  ASSUME Settled, PollDone
  PROVE  Settled'
<1>1. /\ at = "retry" /\ AtRest
      /\ UNCHANGED <<order, written, text, channel, desk, open, cursor, state, tries, queue,
                     parked, latest, withdrawn, faults, crashes>>
  BY DEF PollDone, world, record, approvals, history, bounds
<1>2. 0 \in 0 .. N
  BY BoundsTyped
<1>3. Typed'
  BY <1>1, <1>2 DEF Settled, Typed, AtRest, NoReply
<1>4. OneWaits'
  BY <1>1 DEF OneWaits, Live, Replacing, AtRest, Settled
<1> QED BY <1>1, <1>3, <1>4, RestKeeps

-----------------------------------------------------------------------------
(* Reading replies. *)

LEMMA PollKeeps ==
  ASSUME Settled, Poll
  PROVE  Settled'
<1> USE DEF Settled
<1>1. /\ at = "idle" /\ open /\ at' = "page" /\ from' = "page" /\ page' = Unread
      /\ UNCHANGED <<order, written, text, channel, desk, open, cursor, state, tries, queue,
                     parked, latest, withdrawn, cur, todo, victim, faults, crashes>>
  BY DEF Poll, world, record, approvals, history, bounds
<1>2. N \in Nat /\ written \in 0 .. N /\ cursor \in 0 .. N /\ Unread \subseteq channel
  BY BoundsTyped DEF Typed, Unread
<1>3. upto' = cursor \/ upto' \in Unread
  BY DEF Poll
<1>4. upto' \in 0 .. N /\ upto' <= written
  <2>1. CASE upto' = cursor
    BY <2>1, <1>2 DEF BehindTheOwner
  <2>2. CASE upto' \in Unread
    <3>1. upto' \in 1 .. written
      BY <2>2, <1>2 DEF BehindTheOwner
    <3> QED BY <3>1, <1>2
  <2> QED BY <1>3, <2>1, <2>2
<1>5. Typed'
  BY <1>1, <1>2, <1>4 DEF Typed
<1>6. KnowsItsReply' /\ VerdictIsOpen' /\ RetriesAreClaimed' /\ ReplacementStands'
  BY <1>1 DEF KnowsItsReply, VerdictIsOpen, RetriesAreClaimed, ReplacementStands, Acting,
              Replacing
<1>7. BehindTheOwner'
  BY <1>1, <1>4 DEF BehindTheOwner
<1>8. PageHolds'
  <2>1. ASSUME NEW r \in channel PROVE r <= cursor \/ r \in Unread
    <3>1. r \in Nat
      BY <1>2 DEF BehindTheOwner
    <3> QED BY <3>1, <1>2 DEF Unread
  <2>2. ASSUME NEW r \in channel PROVE state[r] # "none" \/ r \in Unread
    BY <2>1, <1>1 DEF NothingSkipped
  <2> QED BY <1>1, <2>2 DEF PageHolds
<1>9. OneWaits' /\ OneReplyOneQuote' /\ ReplacedForGood' /\ NothingSkipped'
  BY <1>1 DEF OneWaits, Live, Replacing, OneReplyOneQuote, ReplacedForGood, NothingSkipped
<1> QED BY <1>5, <1>6, <1>7, <1>8, <1>9

LEMMA SaveCursorKeeps ==
  ASSUME Settled, SaveCursor
  PROVE  Settled'
<1> USE DEF Settled
<1>1. /\ at = "page" /\ page = {} /\ at' = "retry" /\ from' = "retry" /\ page' = Claimed
      /\ cursor' = upto
      /\ UNCHANGED <<order, written, text, channel, desk, open, state, tries, queue, parked,
                     latest, withdrawn, cur, upto, todo, victim, faults, crashes>>
  BY DEF SaveCursor, CursorAfter, world, approvals, history, bounds
<1>2. Typed'
  BY <1>1 DEF Typed, Claimed
<1>3. KnowsItsReply' /\ VerdictIsOpen' /\ ReplacementStands'
  BY <1>1 DEF KnowsItsReply, VerdictIsOpen, ReplacementStands, Acting, Replacing
<1>4. RetriesAreClaimed'
  BY <1>1 DEF RetriesAreClaimed, Acting, Claimed
<1>5. BehindTheOwner' /\ PageHolds'
  BY <1>1 DEF BehindTheOwner, PageHolds
<1>6. NothingSkipped'
  BY <1>1 DEF NothingSkipped, PageHolds, KnowsItsReply
<1>7. OneWaits' /\ OneReplyOneQuote' /\ ReplacedForGood'
  BY <1>1 DEF OneWaits, Live, Replacing, OneReplyOneQuote, ReplacedForGood
<1> QED BY <1>2, <1>3, <1>4, <1>5, <1>6, <1>7

LEMMA RetryNextKeeps ==
  ASSUME Settled, RetryNext
  PROVE  Settled'
<1> USE DEF Settled
<1>1. PICK r \in page : page' = page \ {r} /\ cur' = r
  BY DEF RetryNext
<1>2. /\ at = "retry" /\ at' = "handling"
      /\ UNCHANGED <<order, written, text, channel, desk, open, cursor, state, tries, queue,
                     parked, latest, withdrawn, from, upto, todo, victim, faults, crashes>>
  BY DEF RetryNext, world, record, approvals, history, bounds
<1>3. r \in Replies /\ r \in 0 .. N /\ from = "retry" /\ state[r] = "claimed"
  BY <1>2, BoundsTyped DEF Typed, KnowsItsReply, RetriesAreClaimed, Replies
<1>4. Typed'
  BY <1>1, <1>2, <1>3 DEF Typed
<1>5. KnowsItsReply' /\ VerdictIsOpen' /\ ReplacementStands'
  BY <1>1, <1>2, <1>3 DEF KnowsItsReply, VerdictIsOpen, ReplacementStands, Acting, Replacing
<1>6. RetriesAreClaimed'
  BY <1>1, <1>2, <1>3 DEF RetriesAreClaimed, Acting
<1>7. BehindTheOwner' /\ PageHolds' /\ NothingSkipped'
  BY <1>2, <1>3 DEF BehindTheOwner, PageHolds, NothingSkipped
<1>8. OneWaits' /\ OneReplyOneQuote' /\ ReplacedForGood'
  BY <1>2 DEF OneWaits, Live, Replacing, OneReplyOneQuote, ReplacedForGood
<1> QED BY <1>4, <1>5, <1>6, <1>7, <1>8

\* A reply that nobody claimed is taken, from the page or from the desk.
LEMMA ClaimKeeps ==
  ASSUME Settled, Typed', NEW r \in Replies, open, state[r] = "none",
         at \in {"idle", "page"}, at' = "handling", cur' = r,
         state' = [state EXCEPT ![r] = "claimed"],
         from' \in {"page", "desk"}, from' = "page" => from = "page" /\ at = "page",
         \A q \in page : q \in page' \/ q = r,
         UNCHANGED <<written, channel, open, cursor, tries, queue, parked, latest, withdrawn,
                     upto, todo, victim, faults, crashes>>
  PROVE  Settled'
<1> USE DEF Settled
<1>1. /\ state'[r] = "claimed"
      /\ \A q \in Replies : q # r => state'[q] = state[q]
      /\ \A q \in Replies : state'[q] \in {"submitted", "superseded"} => state'[q] = state[q]
      /\ \A q \in Replies : state[q] \in {"submitted", "superseded"} => state'[q] = state[q]
  BY DEF Typed
<1>2. KnowsItsReply' /\ RetriesAreClaimed'
  BY DEF KnowsItsReply, RetriesAreClaimed
<1>3. VerdictIsOpen'
  BY <1>1 DEF VerdictIsOpen
<1>4. ReplacementStands'
  BY <1>1 DEF ReplacementStands, Replacing
<1>5. BehindTheOwner'
  BY DEF BehindTheOwner
<1>6. PageHolds' /\ NothingSkipped'
  <2>1. channel \subseteq Replies
    BY DEF Typed
  <2>2. \A q \in channel : state'[q] # "none" \/ (state'[q] = state[q] /\ q # r)
    <3> SUFFICES ASSUME NEW q \in channel, q = r PROVE state'[q] # "none"
      BY <1>1, <2>1, Zenon
    <3> QED BY <1>1
  <2> QED BY <2>2 DEF PageHolds, NothingSkipped
<1>7. OneWaits'
  BY <1>1 DEF OneWaits, Live, Replacing
<1>8. OneReplyOneQuote' /\ ReplacedForGood'
  BY <1>1 DEF OneReplyOneQuote, ReplacedForGood
<1> QED BY <1>2, <1>3, <1>4, <1>5, <1>6, <1>7, <1>8

LEMMA ConsiderNextKeeps ==
  ASSUME Settled, ConsiderNext
  PROVE  Settled'
<1>0. PICK r \in page : page' = page \ {r} /\ Claim(r)
  BY DEF ConsiderNext
<1>1. /\ at = "page" /\ from = "page" /\ page' = page \ {r} /\ Claim(r)
      /\ UNCHANGED <<order, written, text, channel, desk, open, cursor, tries, queue, parked,
                     latest, withdrawn, from, upto, todo, victim, faults, crashes>>
  BY <1>0 DEF ConsiderNext, world, approvals, history, bounds, Settled, KnowsItsReply
<1>2. r \in Replies /\ r \in 0 .. N
  <2>1. N \in Nat /\ page \in SUBSET (1 .. N)
    BY BoundsTyped DEF Settled, Typed, Replies
  <2> QED BY <1>0, <2>1 DEF Replies
<1>3. CASE state[r] = "none" /\ open
  <2>1. state' = [state EXCEPT ![r] = "claimed"] /\ cur' = r /\ at' = "handling"
    BY <1>1, <1>3 DEF Claim
  <2>2. Typed'
    BY <1>1, <1>2, <2>1 DEF Settled, Typed
  <2> QED BY <1>1, <1>2, <1>3, <2>1, <2>2, ClaimKeeps
<1>4. CASE ~(state[r] = "none" /\ open)
  <2> USE DEF Settled
  <2>1. UNCHANGED <<state, cur, at>>
    BY <1>1, <1>4 DEF Claim
  <2>2. Typed'
    BY <1>1, <2>1 DEF Typed
  <2>3. KnowsItsReply' /\ VerdictIsOpen' /\ RetriesAreClaimed' /\ ReplacementStands'
    BY <1>1, <2>1 DEF KnowsItsReply, VerdictIsOpen, RetriesAreClaimed, ReplacementStands,
                      Acting, Replacing
  <2>4. BehindTheOwner' /\ PageHolds' /\ NothingSkipped'
    BY <1>1, <1>4, <2>1 DEF BehindTheOwner, PageHolds, NothingSkipped
  <2>5. OneWaits' /\ OneReplyOneQuote' /\ ReplacedForGood'
    BY <1>1, <2>1 DEF OneWaits, Live, Replacing, OneReplyOneQuote, ReplacedForGood
  <2> QED BY <2>2, <2>3, <2>4, <2>5
<1> QED BY <1>3, <1>4

LEMMA DeskReplyKeeps ==
  ASSUME Settled, NEW r \in Replies, DeskReply(r)
  PROVE  Settled'
<1>1. /\ at = "idle" /\ desk' = desk \ {r} /\ Claim(r)
      /\ from' = IF open THEN "desk" ELSE from
      /\ UNCHANGED <<order, written, text, channel, open, cursor, tries, queue, parked, latest,
                     withdrawn, page, upto, todo, victim, faults, crashes>>
  BY DEF DeskReply, world, approvals, history, bounds
<1>2. r \in 0 .. N /\ from' \in {"none", "page", "retry", "desk"}
  BY <1>1, BoundsTyped DEF Replies, Settled, Typed
<1>3. CASE state[r] = "none" /\ open
  <2>1. state' = [state EXCEPT ![r] = "claimed"] /\ cur' = r /\ at' = "handling"
    BY <1>1, <1>3 DEF Claim
  <2>2. Typed'
    BY <1>1, <1>2, <2>1 DEF Settled, Typed
  <2>3. from' = "desk"
    BY <1>1, <1>3
  <2> QED BY <1>1, <1>3, <2>1, <2>2, <2>3, ClaimKeeps
<1>4. CASE ~(state[r] = "none" /\ open)
  <2> USE DEF Settled
  <2>1. UNCHANGED <<state, cur, at>>
    BY <1>1, <1>4 DEF Claim
  <2>2. Typed'
    BY <1>1, <1>2, <2>1 DEF Typed
  <2>3. KnowsItsReply' /\ VerdictIsOpen' /\ RetriesAreClaimed' /\ ReplacementStands'
    BY <1>1, <2>1 DEF KnowsItsReply, VerdictIsOpen, RetriesAreClaimed, ReplacementStands,
                      Acting, Replacing
  <2>4. BehindTheOwner' /\ PageHolds' /\ NothingSkipped'
    BY <1>1, <2>1 DEF BehindTheOwner, PageHolds, NothingSkipped
  <2>5. OneWaits' /\ OneReplyOneQuote' /\ ReplacedForGood'
    BY <1>1, <2>1 DEF OneWaits, Live, Replacing, OneReplyOneQuote, ReplacedForGood
  <2> QED BY <2>2, <2>3, <2>4, <2>5
<1> QED BY <1>3, <1>4

-----------------------------------------------------------------------------
(* Acting on a reply. *)

\* What Return leaves of the locals.
LEMMA Returned ==
  ASSUME Settled, Acting, Return
  PROVE  /\ at' \in {"idle", "page", "retry"} /\ cur' = 0
         /\ at' = "page" => from' = "page" /\ from = "page"
         /\ at' = "retry" => from' = "retry" /\ from = "retry"
         /\ at' # "idle" => UNCHANGED <<page, upto>>
         /\ from' \in {"none", "page", "retry"}
         /\ page' \subseteq page /\ todo' \subseteq todo
         /\ upto' \in {0, upto} /\ victim' \in {0, victim}
<1>1. from \in {"page", "retry", "desk"}
  BY DEF Settled, KnowsItsReply
<1>2. CASE from = "desk"
  BY <1>2 DEF Return, AtRest, NoReply
<1>3. CASE from # "desk"
  BY <1>1, <1>3 DEF Return, NoReply
<1> QED BY <1>2, <1>3

\* A reply is done with, or left for a later try.
LEMMA ReturnKeeps ==
  ASSUME Settled, Acting, Return,
         at \notin {"giving_up", "parked", "marking"}, at = "superseding" => todo = {},
         state' \in {state, [state EXCEPT ![cur] = "submitted"]},
         state' # state => state[cur] = "claimed" /\ parked[cur] > 0,
         tries' \in [Replies -> Nat],
         UNCHANGED <<order, written, text, channel, desk, open, cursor, queue, parked, latest,
                     withdrawn, faults, crashes>>
  PROVE  Settled'
<1> USE DEF Settled
<1>1. /\ at' \in {"idle", "page", "retry"} /\ cur' = 0
      /\ at' = "page" => from' = "page" /\ from = "page"
      /\ at' = "retry" => from' = "retry" /\ from = "retry"
      /\ at' # "idle" => UNCHANGED <<page, upto>>
      /\ from' \in {"none", "page", "retry"}
      /\ page' \subseteq page /\ todo' \subseteq todo
      /\ upto' \in {0, upto} /\ victim' \in {0, victim}
  BY Returned
<1>2. cur \in Replies /\ 0 \in 0 .. N /\ at # "idle"
  BY BoundsTyped DEF KnowsItsReply, Acting
<1>3. /\ \A r \in Replies : r # cur => state'[r] = state[r]
      /\ \A r \in Replies : state'[r] # state[r] =>
           r = cur /\ state[r] = "claimed" /\ state'[r] = "submitted" /\ parked[r] > 0
      /\ state' \in [Replies -> {"none", "claimed", "submitted", "unparsed", "refused",
                                 "failed", "superseded"}]
  BY <1>2 DEF Typed
<1>4. Typed'
  BY <1>1, <1>2, <1>3 DEF Typed
<1>5. KnowsItsReply'
  BY <1>1 DEF KnowsItsReply, Acting
<1>6. VerdictIsOpen'
  BY <1>1, <1>2, <1>3 DEF VerdictIsOpen
<1>7. RetriesAreClaimed'
  <2>1. at' # "idle" /\ from' = "retry" => from = "retry" /\ at # "idle" /\ page' = page
    BY <1>1, <1>2
  <2>2. ~Acting'
    BY <1>1 DEF Acting
  <2> QED BY <2>1, <2>2, <1>3 DEF RetriesAreClaimed, Typed
<1>8. ReplacementStands'
  BY <1>1, <1>3 DEF ReplacementStands, Replacing, Typed
<1>9. BehindTheOwner'
  BY <1>1, BoundsTyped DEF BehindTheOwner, Typed
<1>10. \A r \in channel : state[r] # "none" => state'[r] # "none"
  BY <1>3 DEF Typed
<1>11. PageHolds' /\ NothingSkipped'
  <2>1. at' # "idle" /\ from' = "page" =>
          from = "page" /\ at # "idle" /\ page' = page /\ upto' = upto
    BY <1>1, <1>2
  <2> QED BY <2>1, <1>10 DEF PageHolds, NothingSkipped
<1>12. OneWaits'
  <2> SUFFICES ASSUME faults = 0, crashes = 0
               PROVE  /\ \A r \in Live : state'[r] = "submitted"
                      /\ \A r, q \in Live : r = q
    BY <1>1 DEF OneWaits, Live, Replacing
  <2>1. CASE at = "superseding"
    <3>1. Live \subseteq {cur} /\ state[cur] = "submitted"
      BY <2>1 DEF OneWaits, Replacing, ReplacementStands
    <3> QED BY <3>1, <1>3, <1>2
  <2>2. CASE at # "superseding"
    <3>1. /\ \A r \in Live : state[r] = "submitted"
          /\ \A r, q \in Live : r = q
      BY <2>2 DEF OneWaits, Replacing
    <3> QED BY <3>1, <1>3 DEF Live
  <2> QED BY <2>1, <2>2
<1>13. OneReplyOneQuote' /\ ReplacedForGood'
  BY <1>3 DEF OneReplyOneQuote, ReplacedForGood
<1> QED BY <1>4, <1>5, <1>6, <1>7, <1>8, <1>9, <1>11, <1>12, <1>13

LEMMA RecogniseKeeps ==
  ASSUME Settled, Recognise
  PROVE  Settled'
<1> USE DEF Settled
<1>1. /\ at = "handling" /\ parked[cur] > 0 /\ Return
      /\ state' = [state EXCEPT ![cur] = "submitted"]
      /\ UNCHANGED <<order, written, text, channel, desk, open, cursor, tries, queue, parked,
                     latest, withdrawn, faults, crashes>>
  BY DEF Recognise, Found, Verdict, world, approvals, history, bounds
<1>2. Acting /\ cur \in Replies /\ state[cur] = "claimed"
  BY <1>1 DEF Acting, KnowsItsReply, VerdictIsOpen
<1>3. state'[cur] = "submitted" /\ tries \in [Replies -> Nat]
  BY <1>1, <1>2 DEF Typed
<1> QED BY <1>1, <1>2, <1>3, ReturnKeeps

LEMMA AnswerKeeps ==
  ASSUME Settled, Answer
  PROVE  Settled'
<1> USE DEF Settled
<1>1. /\ at = "answering" \/ (at = "superseding" /\ todo = {})
      /\ Return
      /\ UNCHANGED <<order, written, text, channel, desk, open, cursor, state, tries, queue,
                     parked, latest, withdrawn, faults, crashes>>
  BY DEF Answer, world, record, approvals, history, bounds
<1>2. Acting /\ cur \in Replies
  BY <1>1 DEF Acting, KnowsItsReply
<1>3. tries \in [Replies -> Nat]
  BY <1>1, <1>2 DEF Typed
<1> QED BY <1>1, <1>2, <1>3, ReturnKeeps

\* A verdict that parks nothing.
LEMMA VerdictKeeps ==
  ASSUME Settled, at \in {"handling", "giving_up", "submitting"}, at' \in {"answering", "closing"},
         NEW v \in {"unparsed", "refused", "failed"}, state' = [state EXCEPT ![cur] = v],
         tries' \in [Replies -> Nat],
         UNCHANGED <<order, written, text, channel, desk, open, cursor, queue, parked, latest,
                     withdrawn, from, cur, page, upto, todo, victim, faults, crashes>>
  PROVE  Settled'
<1> USE DEF Settled
<1>1. cur \in Replies /\ state[cur] = "claimed" /\ Acting
  BY DEF Acting, KnowsItsReply, VerdictIsOpen
<1>2. /\ state'[cur] = v
      /\ \A r \in Replies : r # cur => state'[r] = state[r]
      /\ \A r \in Replies : (state'[r] = state[r] /\ r # cur) \/
           (r = cur /\ state[r] = "claimed"
              /\ state'[r] \notin {"none", "claimed", "submitted", "superseded"})
  BY <1>1 DEF Typed
<1>3. Typed'
  BY <1>1 DEF Typed
<1>4. KnowsItsReply'
  BY <1>1 DEF KnowsItsReply, Acting
<1>5. VerdictIsOpen'
  BY <1>2 DEF VerdictIsOpen
<1>6. RetriesAreClaimed'
  BY <1>1, <1>2 DEF RetriesAreClaimed, Acting, Typed
<1>7. ReplacementStands'
  BY <1>2 DEF ReplacementStands, Replacing, Typed
<1>8. BehindTheOwner'
  BY DEF BehindTheOwner
<1>9. PageHolds' /\ NothingSkipped'
  <2>1. \A r \in channel : state[r] # "none" => state'[r] # "none"
    BY <1>2 DEF Typed
  <2> QED BY <2>1 DEF PageHolds, NothingSkipped
<1>10. OneWaits'
  BY <1>2 DEF OneWaits, Live, Replacing
<1>11. OneReplyOneQuote' /\ ReplacedForGood'
  BY <1>2 DEF OneReplyOneQuote, ReplacedForGood
<1> QED BY <1>3, <1>4, <1>5, <1>6, <1>7, <1>8, <1>9, <1>10, <1>11

LEMMA UnreadableKeeps ==
  ASSUME Settled, Unreadable \/ NotQuotable \/ GiveUp
  PROVE  Settled'
<1>1. /\ at \in {"handling", "giving_up"} /\ at' \in {"answering", "closing"}
      /\ \E v \in {"unparsed", "refused", "failed"} : state' = [state EXCEPT ![cur] = v]
      /\ UNCHANGED <<order, written, text, channel, desk, open, cursor, tries, queue, parked,
                     latest, withdrawn, from, cur, page, upto, todo, victim, faults, crashes>>
  BY DEF Unreadable, NotQuotable, GiveUp, Verdict, world, approvals, history, locals, bounds
<1>2. tries \in [Replies -> Nat]
  BY DEF Settled, Typed
<1> QED BY <1>1, <1>2, VerdictKeeps

LEMMA NoOrderKeeps ==
  ASSUME Settled, NoOrder
  PROVE  Settled'
<1>1. /\ at = "handling" /\ tries' = [tries EXCEPT ![cur] = @ + 1]
      /\ UNCHANGED <<order, written, text, channel, desk, open, cursor, state, queue, parked,
                     latest, withdrawn, faults, crashes>>
  BY DEF NoOrder, CountTry, world, approvals, history, bounds
<1>2. Acting /\ cur \in Replies /\ state[cur] = "claimed"
  BY <1>1 DEF Settled, Acting, KnowsItsReply, VerdictIsOpen
<1>3. tries' \in [Replies -> Nat]
  BY <1>1, <1>2 DEF Settled, Typed
<1>4. CASE TriesUsed
  <2> USE DEF Settled
  <2>1. at' = "giving_up" /\ UNCHANGED <<from, cur, page, upto, todo, victim>>
    BY <1>4 DEF NoOrder, locals
  <2>2. Typed'
    BY <1>1, <1>3, <2>1 DEF Typed
  <2>3. KnowsItsReply' /\ VerdictIsOpen' /\ RetriesAreClaimed' /\ ReplacementStands'
    BY <1>1, <1>2, <2>1 DEF KnowsItsReply, VerdictIsOpen, RetriesAreClaimed, ReplacementStands,
                            Acting, Replacing
  <2>4. BehindTheOwner' /\ PageHolds' /\ NothingSkipped'
    BY <1>1, <2>1 DEF BehindTheOwner, PageHolds, NothingSkipped
  <2>5. OneWaits' /\ OneReplyOneQuote' /\ ReplacedForGood'
    BY <1>1, <2>1 DEF OneWaits, Live, Replacing, OneReplyOneQuote, ReplacedForGood
  <2> QED BY <2>2, <2>3, <2>4, <2>5
<1>5. CASE ~TriesUsed
  <2>1. state' = state /\ Return
    BY <1>1, <1>5 DEF NoOrder
  <2> QED BY <1>1, <1>2, <1>3, <2>1, ReturnKeeps
<1> QED BY <1>4, <1>5

\* The next call of one that is being acted on: the card is closed, or the quote built.
LEMMA GoesOnKeeps ==
  ASSUME Settled, CloseCard \/ Build
  PROVE  Settled'
<1> USE DEF Settled
<1>1. /\ \/ at = "closing" /\ at' = "answering"
         \/ at = "handling" /\ at' = "submitting"
      /\ UNCHANGED <<order, written, text, channel, desk, cursor, state, tries, queue, parked,
                     latest, withdrawn, from, cur, page, upto, todo, victim, faults, crashes>>
  <2>1. CASE CloseCard
    BY <2>1 DEF CloseCard, world, approvals, history, locals, bounds
  <2>2. CASE Build
    BY <2>2 DEF Build, world, record, approvals, history, locals, bounds
  <2> QED BY <2>1, <2>2
<1>2. at' = "submitting" => ~Found(cur)
  BY DEF CloseCard, Build
<1>3. cur \in Replies /\ (at' = "submitting" => parked[cur] = 0)
  BY <1>1, <1>2 DEF Found, KnowsItsReply, Acting, Typed
<1>4. open' \in BOOLEAN /\ (open' => open)
  <2>1. CASE CloseCard
    BY <2>1, Zenon DEF CloseCard
  <2>2. CASE Build
    <3>1. open' = open /\ open \in BOOLEAN
      BY <2>2 DEF Build, record, Typed
    <3> QED BY <3>1
  <2> QED BY <2>1, <2>2
<1>5. Typed'
  BY <1>1, <1>4 DEF Typed
<1>6. KnowsItsReply' /\ VerdictIsOpen' /\ RetriesAreClaimed' /\ ReplacementStands'
  BY <1>1, <1>3 DEF KnowsItsReply, VerdictIsOpen, RetriesAreClaimed, ReplacementStands,
                    Acting, Replacing
<1>7. BehindTheOwner' /\ PageHolds' /\ NothingSkipped'
  BY <1>1, <1>4 DEF BehindTheOwner, PageHolds, NothingSkipped
<1>8. OneWaits' /\ OneReplyOneQuote' /\ ReplacedForGood'
  BY <1>1 DEF OneWaits, Live, Replacing, OneReplyOneQuote, ReplacedForGood
<1> QED BY <1>5, <1>6, <1>7, <1>8

LEMMA SubmitKeeps ==
  ASSUME Settled, Submit
  PROVE  Settled'
<1>1. /\ at = "submitting"
      /\ UNCHANGED <<order, written, text, channel, desk, open, cursor, tries, from, cur, page,
                     upto, todo, victim, faults, crashes>>
  BY DEF Submit, world, locals, bounds
<1>2. Acting /\ cur \in Replies /\ state[cur] = "claimed" /\ parked[cur] = 0
  BY <1>1 DEF Settled, Acting, KnowsItsReply, VerdictIsOpen
<1>3. CASE /\ queue' = [queue EXCEPT ![cur] = "pending"]
           /\ parked' = [parked EXCEPT ![cur] = @ + 1]
           /\ at' = "parked" /\ latest' = cur /\ UNCHANGED <<state, withdrawn>>
  <2> USE DEF Settled
  <2>1. /\ \A r \in Replies : r # cur => queue'[r] = queue[r] /\ parked'[r] = parked[r]
        /\ parked'[cur] = 1
    BY <1>2, <1>3 DEF Typed
  <2>2. Typed'
    BY <1>1, <1>2, <1>3 DEF Typed
  <2>3. KnowsItsReply' /\ RetriesAreClaimed'
    BY <1>1, <1>2, <1>3 DEF KnowsItsReply, RetriesAreClaimed, Acting
  <2>4. VerdictIsOpen'
    BY <1>1, <1>2, <1>3, <2>1 DEF VerdictIsOpen
  <2>5. ReplacementStands'
    BY <1>1, <1>3, <2>1 DEF ReplacementStands, Replacing
  <2>6. BehindTheOwner' /\ PageHolds' /\ NothingSkipped'
    BY <1>1, <1>3 DEF BehindTheOwner, PageHolds, NothingSkipped
  <2>7. OneWaits'
    <3>1. Live' \ {cur} \subseteq Live
      BY <2>1 DEF Live
    <3>2. faults = 0 /\ crashes = 0 =>
            (\A r \in Live : state[r] = "submitted") /\ \A r, q \in Live : r = q
      BY <1>1 DEF OneWaits, Replacing
    <3>3. faults' = 0 /\ crashes' = 0 =>
            /\ \A r \in Live' \ {cur} : state[r] = "submitted"
            /\ \A r, q \in Live' \ {cur} : r = q
      BY <1>1, <3>1, <3>2
    <3> HIDE DEF Settled
    <3> QED BY <1>1, <1>3, <3>3 DEF OneWaits, Replacing
  <2>8. OneReplyOneQuote'
    BY <2>1 DEF OneReplyOneQuote
  <2>9. ReplacedForGood'
    <3>1. cur \notin withdrawn
      BY <1>2 DEF ReplacementStands
    <3> QED BY <1>2, <1>3, <2>1, <3>1 DEF ReplacedForGood
  <2> QED BY <2>2, <2>3, <2>4, <2>5, <2>6, <2>7, <2>8, <2>9
<1>4. CASE Verdict("refused") /\ at' = "answering" /\ UNCHANGED approvals
  <2>1. UNCHANGED <<queue, parked, latest, withdrawn>> /\ tries \in [Replies -> Nat]
    BY <1>4 DEF approvals, history, Settled, Typed
  <2> QED BY <1>1, <1>4, <2>1, VerdictKeeps DEF Verdict
<1> QED BY <1>3, <1>4 DEF Submit

-----------------------------------------------------------------------------
(* Replacing the others. *)

LEMMA RecordSubmittedKeeps ==
  ASSUME Settled, RecordSubmitted
  PROVE  Settled'
<1> USE DEF Settled
<1>1. /\ at = "parked" /\ at' = "superseding"
      /\ state' = [state EXCEPT ![cur] = "submitted"] /\ todo' = Replaced
      /\ UNCHANGED <<order, written, text, channel, desk, open, cursor, tries, queue, parked,
                     latest, withdrawn, from, cur, page, upto, victim, faults, crashes>>
  BY DEF RecordSubmitted, Verdict, world, approvals, history, bounds
<1>2. Acting /\ Acting' /\ cur \in Replies /\ state[cur] = "claimed" /\ parked[cur] > 0
  BY <1>1 DEF Acting, KnowsItsReply, VerdictIsOpen
<1>3. /\ state'[cur] = "submitted"
      /\ \A r \in Replies : r # cur => state'[r] = state[r]
      /\ Replaced \subseteq Replies /\ cur \notin Replaced
  BY <1>1, <1>2 DEF Typed, Replaced
<1>4. Typed'
  BY <1>1, <1>2, <1>3 DEF Typed
<1>5. KnowsItsReply' /\ VerdictIsOpen'
  BY <1>1, <1>2, <1>3 DEF KnowsItsReply, VerdictIsOpen
<1>6. RetriesAreClaimed'
  BY <1>1, <1>2, <1>3 DEF RetriesAreClaimed, Typed
<1>7. ReplacementStands'
  BY <1>1, <1>2, <1>3 DEF ReplacementStands, Replacing, Replaced
<1>8. BehindTheOwner' /\ PageHolds' /\ NothingSkipped'
  <2>1. \A r \in channel : state[r] # "none" => state'[r] # "none"
    BY <1>3 DEF Typed
  <2> QED BY <1>1, <2>1 DEF BehindTheOwner, PageHolds, NothingSkipped
<1>9. OneWaits'
  <2>1. faults = 0 /\ crashes = 0 => \A r \in Live \ {cur} : state[r] = "submitted"
    BY <1>1 DEF OneWaits, Replacing
  <2>2. faults = 0 /\ crashes = 0 => Live \subseteq Replaced \cup {cur}
    BY <2>1 DEF Live, Replaced
  <2> QED BY <1>1, <2>2 DEF OneWaits, Replacing, Live
<1>10. OneReplyOneQuote' /\ ReplacedForGood'
  BY <1>1, <1>2, <1>3 DEF OneReplyOneQuote, ReplacedForGood
<1> QED BY <1>4, <1>5, <1>6, <1>7, <1>8, <1>9, <1>10

LEMMA WithdrawKeeps ==
  ASSUME Settled, Withdraw
  PROVE  Settled'
<1> USE DEF Settled
<1>1. PICK o \in todo : /\ queue' = Denied(o) /\ todo' = todo \ {o} /\ victim' = o
                        /\ withdrawn' \in {withdrawn, withdrawn \cup {o}}
  BY DEF Withdraw
<1>2. /\ at = "superseding" /\ at' = "marking"
      /\ UNCHANGED <<order, written, text, channel, desk, open, cursor, state, tries, parked,
                     latest, from, cur, page, upto, faults, crashes>>
  BY DEF Withdraw, world, record, bounds
<1>3. o \in Replies /\ o \in 0 .. N /\ o # cur /\ state[o] = "submitted"
  BY <1>2, BoundsTyped DEF Typed, Replies, ReplacementStands, Replacing
<1>4. /\ queue' \in [Replies -> {"none", "pending", "running", "denied", "sent", "failed"}]
      /\ queue'[o] # "pending"
      /\ \A r \in Replies : queue'[r] = "pending" => queue[r] = "pending"
  BY <1>1, <1>3 DEF Denied, Typed
<1>5. Typed'
  BY <1>1, <1>2, <1>3, <1>4 DEF Typed
<1>6. KnowsItsReply' /\ VerdictIsOpen' /\ RetriesAreClaimed'
  BY <1>2 DEF KnowsItsReply, VerdictIsOpen, RetriesAreClaimed, Acting
<1>7. ReplacementStands'
  BY <1>1, <1>2, <1>3, <1>4 DEF ReplacementStands, Replacing
<1>8. BehindTheOwner' /\ PageHolds' /\ NothingSkipped'
  BY <1>2 DEF BehindTheOwner, PageHolds, NothingSkipped
<1>9. OneWaits'
  <2>1. Live' \subseteq Live \ {o}
    BY <1>4 DEF Live
  <2>2. faults = 0 /\ crashes = 0 => Live \subseteq todo \cup {cur}
    BY <1>2 DEF OneWaits, Replacing
  <2> QED BY <1>1, <1>2, <2>1, <2>2 DEF OneWaits, Replacing
<1>10. OneReplyOneQuote'
  BY <1>2 DEF OneReplyOneQuote
<1>11. ReplacedForGood'
  <2>1. cur \in Replies \ withdrawn' /\ state'[cur] = "submitted" /\ latest' = cur
    BY <1>1, <1>2, <1>3 DEF ReplacementStands, Replacing, KnowsItsReply, Acting
  <2> QED BY <1>2, <1>4, <2>1 DEF ReplacedForGood
<1> QED BY <1>5, <1>6, <1>7, <1>8, <1>9, <1>10, <1>11

LEMMA MarkKeeps ==
  ASSUME Settled, Mark
  PROVE  Settled'
<1> USE DEF Settled
<1>1. /\ at = "marking" /\ at' = "superseding" /\ victim' = 0
      /\ state' = [state EXCEPT ![victim] = "superseded"]
      /\ UNCHANGED <<order, written, text, channel, desk, open, cursor, tries, queue, parked,
                     latest, withdrawn, from, cur, page, upto, todo, faults, crashes>>
  BY DEF Mark, NoReply, world, approvals, history, bounds
<1>2. /\ victim \in Replies /\ victim # cur /\ victim \notin todo /\ 0 \in 0 .. N
      /\ state[victim] = "submitted" /\ queue[victim] # "pending" /\ Acting /\ Acting'
      /\ state[cur] = "submitted" /\ cur \in Replies
  BY <1>1, BoundsTyped DEF ReplacementStands, Replacing, Acting, KnowsItsReply
<1>3. /\ state'[victim] = "superseded"
      /\ \A r \in Replies : r # victim => state'[r] = state[r]
  BY <1>1, <1>2 DEF Typed
<1>4. Typed'
  BY <1>1, <1>2 DEF Typed
<1>5. KnowsItsReply' /\ VerdictIsOpen'
  BY <1>1, <1>2, <1>3 DEF KnowsItsReply, VerdictIsOpen
<1>6. RetriesAreClaimed'
  BY <1>1, <1>2, <1>3 DEF RetriesAreClaimed, Typed
<1>7. ReplacementStands'
  BY <1>1, <1>2, <1>3 DEF ReplacementStands, Replacing, Typed
<1>8. BehindTheOwner' /\ PageHolds' /\ NothingSkipped'
  <2>1. \A r \in channel : state[r] # "none" => state'[r] # "none"
    BY <1>3 DEF Typed
  <2> QED BY <1>1, <2>1 DEF BehindTheOwner, PageHolds, NothingSkipped
<1>9. OneWaits'
  BY <1>1 DEF OneWaits, Replacing, Live
<1>10. OneReplyOneQuote'
  BY <1>1 DEF OneReplyOneQuote
<1>11. ReplacedForGood'
  <2>1. cur \in Replies \ withdrawn' /\ state'[cur] = "submitted" /\ latest' = cur
    BY <1>1, <1>2, <1>3 DEF ReplacementStands, Replacing
  <2>2. \A o \in Replies : state'[o] = "superseded" => queue'[o] # "pending" /\ o # cur
    BY <1>1, <1>2, <1>3 DEF ReplacedForGood
  <2> QED BY <1>2, <2>1, <2>2 DEF ReplacedForGood
<1> QED BY <1>4, <1>5, <1>6, <1>7, <1>8, <1>9, <1>10, <1>11

-----------------------------------------------------------------------------
(* The theorems. *)

LEMMA NextSettles ==
  ASSUME Settled, [Next]_vars
  PROVE  Settled'
<1>1. CASE \E says \in {"price", "other"}, onDesk \in BOOLEAN : Write(says, onDesk)
  BY <1>1, WriteKeeps
<1>2. CASE \E r \in Replies : Approve(r) \/ Deny(r) \/ Run(r)
  BY <1>2, ApprovalKeeps
<1>3. CASE \E r \in Replies : DeskReply(r)
  BY <1>3, DeskReplyKeeps
<1>4. CASE OrderMoves \/ Reconcile \/ \E r \in Replies : DeskBusy(r)
  BY <1>4, OrderKeeps
<1>5. CASE GateStep
  <2>1. CASE Poll \/ ConsiderNext \/ SaveCursor \/ RetryNext \/ PollDone
    BY <2>1, PollKeeps, ConsiderNextKeeps, SaveCursorKeeps, RetryNextKeeps, PollDoneKeeps
  <2>2. CASE Recognise \/ Unreadable \/ NoOrder \/ GiveUp \/ NotQuotable \/ CloseCard \/ Build
    BY <2>2, RecogniseKeeps, UnreadableKeeps, NoOrderKeeps, GoesOnKeeps
  <2>3. CASE Submit \/ RecordSubmitted \/ Withdraw \/ Mark \/ Answer
    BY <2>3, SubmitKeeps, RecordSubmittedKeeps, WithdrawKeeps, MarkKeeps, AnswerKeeps
  <2> QED BY <1>5, <2>1, <2>2, <2>3 DEF GateStep
<1>6. CASE Breaks \/ Crash
  BY <1>6, BreaksKeeps
<1>7. CASE UNCHANGED vars
  BY <1>7, StutterKeeps
<1> QED BY <1>1, <1>2, <1>3, <1>4, <1>5, <1>6, <1>7 DEF Next

\* A try is counted by NoOrder only, which leaves the reply with tries or about to be given
\* up; a pass that ends before it is allows one try more.
LEMMA TriesKeep ==
  ASSUME IInv, Settled', [Next]_vars
  PROVE  TriesBounded' /\ TriesLeft'
<1>1. /\ OrderTries \in Nat /\ OrderTries > 0
      /\ faults \in Nat /\ crashes \in Nat /\ faults' \in Nat /\ crashes' \in Nat
      /\ tries \in [Replies -> Nat]
      /\ \A r \in Replies : tries[r] <= OrderTries + faults + crashes
  BY BoundsTyped DEF IInv, Settled, Typed, TriesBounded
<1>2. CASE Breaks \/ Crash
  <2>1. /\ UNCHANGED <<state, tries>>
        /\ \/ faults' = faults + 1 /\ crashes' = crashes
           \/ faults' = faults /\ crashes' = crashes + 1
    BY <1>2 DEF Breaks, Crash, record, world
  <2>0. faults \in Nat /\ crashes \in Nat /\ OrderTries \in Nat
    BY <1>1
  <2>2. OrderTries + faults' + crashes' = OrderTries + faults + crashes + 1
    <3>1. CASE faults' = faults + 1 /\ crashes' = crashes
      BY <2>0, <3>1
    <3>2. CASE faults' = faults /\ crashes' = crashes + 1
      BY <2>0, <3>2
    <3> QED BY <2>1, <3>1, <3>2
  <2>3. ASSUME NEW r \in Replies PROVE tries'[r] < OrderTries + faults' + crashes'
    <3>1. tries'[r] = tries[r] /\ tries[r] \in Nat /\ tries[r] <= OrderTries + faults + crashes
      BY <1>1, <2>1
    <3> QED BY <2>0, <2>2, <3>1
  <2> QED BY <1>1, <2>1, <2>3 DEF TriesBounded, TriesLeft
<1>3. CASE NoOrder
  <2>1. /\ tries' = [tries EXCEPT ![cur] = @ + 1] /\ at = "handling"
        /\ UNCHANGED <<state, faults, crashes>>
        /\ IF TriesUsed THEN at' = "giving_up" /\ cur' = cur ELSE TRUE
    BY <1>3 DEF NoOrder, CountTry, locals, bounds
  <2>2. cur \in Replies /\ state[cur] = "claimed"
    BY <2>1 DEF IInv, Settled, KnowsItsReply, VerdictIsOpen, Acting
  <2>3. \A r \in Replies :
          IF r = cur THEN tries'[r] = tries[r] + 1 ELSE tries'[r] = tries[r]
    BY <1>1, <2>1, <2>2
  <2>4. tries[cur] < OrderTries + faults + crashes
    BY <2>1, <2>2 DEF IInv, TriesLeft
  <2>5. TriesBounded'
    BY <1>1, <2>1, <2>3, <2>4 DEF TriesBounded
  <2>6. tries[cur] + 1 < OrderTries + faults + crashes \/ (at' = "giving_up" /\ cur' = cur)
    BY <1>1, <2>1, <2>2 DEF TriesUsed
  <2>7. TriesLeft'
    BY <2>1, <2>3, <2>6 DEF IInv, TriesLeft
  <2> QED BY <2>5, <2>7
<1>4. CASE GiveUp
  <2>1. at = "giving_up" /\ state' = [state EXCEPT ![cur] = "failed"]
        /\ UNCHANGED <<tries, faults, crashes>>
    BY <1>4 DEF GiveUp, Verdict, bounds
  <2>2. \A r \in Replies : state'[r] \in {"none", "claimed"} =>
          r # cur /\ state[r] \in {"none", "claimed"}
    BY <2>1 DEF IInv, Settled, Typed
  <2> QED BY <2>1, <2>2 DEF IInv, TriesBounded, TriesLeft
<1>5. CASE /\ UNCHANGED <<tries, faults, crashes>>
           /\ at # "giving_up" \/ UNCHANGED <<at, cur>>
           /\ \A r \in Replies : state'[r] \in {"none", "claimed"} =>
                state[r] \in {"none", "claimed"}
  BY <1>5 DEF IInv, TriesBounded, TriesLeft
<1>6. state \in [Replies -> {"none", "claimed", "submitted", "unparsed", "refused", "failed",
                             "superseded"}]
  BY DEF IInv, Settled, Typed
<1>7. CASE \/ \E says \in {"price", "other"}, onDesk \in BOOLEAN : Write(says, onDesk)
           \/ \E r \in Replies : Approve(r) \/ Deny(r) \/ Run(r) \/ DeskBusy(r)
           \/ OrderMoves \/ Reconcile \/ UNCHANGED vars
  <2>1. UNCHANGED <<tries, state, at, cur, faults, crashes>>
    BY <1>7 DEF Write, Approve, Deny, Run, DeskBusy, OrderMoves, Reconcile, vars, record,
                locals, bounds
  <2> QED BY <1>5, <2>1
<1>8. CASE \E r \in Replies : DeskReply(r)
  <2>1. PICK r \in Replies : at = "idle" /\ Claim(r) /\ UNCHANGED <<tries, bounds>>
    BY <1>8 DEF DeskReply
  <2> QED BY <1>5, <1>6, <2>1 DEF Claim, bounds
<1>9. CASE Poll \/ SaveCursor \/ RetryNext \/ PollDone \/ CloseCard \/ Build \/ Answer
  <2>1. at # "giving_up" /\ UNCHANGED <<tries, state, faults, crashes>>
    BY <1>9 DEF Poll, SaveCursor, RetryNext, PollDone, CloseCard, Build, Answer, record, bounds
  <2> QED BY <1>5, <2>1
<1>10. CASE ConsiderNext
  <2>1. PICK r \in page : at = "page" /\ Claim(r) /\ UNCHANGED <<tries, bounds>>
    BY <1>10 DEF ConsiderNext
  <2> QED BY <1>5, <1>6, <2>1 DEF Claim, bounds
<1>11. CASE \/ Recognise \/ Unreadable \/ NotQuotable \/ Submit \/ RecordSubmitted
            \/ Withdraw \/ Mark
  <2>1. /\ at # "giving_up" /\ UNCHANGED <<tries, faults, crashes>>
        /\ \/ UNCHANGED state
           \/ \E x \in {cur, victim}, v \in {"submitted", "unparsed", "refused", "superseded"} :
                state' = [state EXCEPT ![x] = v]
    BY <1>11 DEF Recognise, Unreadable, NotQuotable, Submit, RecordSubmitted, Withdraw, Mark,
                 Verdict, record, bounds
  <2> QED BY <1>5, <1>6, <2>1
<1> QED BY <1>2, <1>3, <1>4, <1>7, <1>8, <1>9, <1>10, <1>11 DEF Next, GateStep

\* What every step of the gate, the owner, Scrooge and the queue keeps true.
THEOREM QuoteInvariance == Spec => []IInv
<1>1. Init => IInv
  <2> SUFFICES ASSUME Init PROVE TriesBounded /\ TriesLeft
    BY InitSettled DEF IInv
  <2>1. \A r \in Replies : tries[r] = 0 /\ tries[r] < OrderTries + faults + crashes
    BY BoundsTyped DEF Init
  <2> QED BY <2>1, BoundsTyped DEF Init, TriesBounded, TriesLeft
<1>2. IInv /\ [Next]_vars => IInv'
  BY NextSettles, TriesKeep DEF IInv
<1> QED BY <1>1, <1>2, PTL DEF Spec

\* Every variable keeps its type; a reply is tried ORDER_TRIES times, or once more for every
\* pass that ended between the save of its last try and that of its verdict (_handle).
THEOREM TypeCorrect == Spec => []TypeOK
BY QuoteInvariance, PTL DEF IInv, Settled, TypeOK

\* However often passes break and the process dies, a reply's quote is parked once
\* (_handle asks the queue by quote_ref before it parks).
THEOREM OneQuotePerReply == Spec => []OneReplyOneQuote
BY QuoteInvariance, PTL DEF IInv, Settled

\* A replaced quote can no longer be approved, and another stands in its place that was
\* parked later and that the gate has not withdrawn (_supersede denies before it marks, and
\* never the reply it keeps).
THEOREM ReplacedIsReplaced == Spec => []ReplacedForGood
BY QuoteInvariance, PTL DEF IInv, Settled

\* The cursor passes no reply that was not claimed (tick saves it after its page).
THEOREM CursorSkipsNothing == Spec => []NothingSkipped
BY QuoteInvariance, PTL DEF IInv, Settled

\* While nothing broke, the gate at rest leaves at most one quote of the order waiting.
THEOREM OneQuoteWaits == Spec => []OneLiveUnlessBroken
<1>1. IInv => OneLiveUnlessBroken
  <2> SUFFICES ASSUME IInv, at = "idle", faults = 0, crashes = 0
               PROVE  Cardinality(Live) <= 1
    BY DEF OneLiveUnlessBroken
  <2>1. \A r, q \in Live : r = q
    BY DEF IInv, Settled, OneWaits, Replacing
  <2>2. CASE Live = {}
    BY <2>2, FS_EmptySet
  <2>3. CASE Live # {}
    <3>1. PICK r \in Live : TRUE
      BY <2>3
    <3>2. Live = {r}
      BY <2>1
    <3>3. Cardinality(Live) = 1
      <4> HIDE DEF Live
      <4> QED BY <3>2, FS_Singleton, Zenon
    <3> QED BY <3>3
  <2> QED BY <2>2, <2>3
<1> QED BY QuoteInvariance, <1>1, PTL

=============================================================================
