------------------------------- MODULE Quotes -------------------------------
(***************************************************************************)
(* From the owner's reply to a parked quote: QuoteReplies of               *)
(* src/pionir/quotes.py for one order's card, driven by the Discord gate's *)
(* poll and by PionirApp.desk_reply under the gate's _tick_lock.           *)
(*                                                                         *)
(* The card record (open, state, tries, cursor) is a file, saved by every  *)
(* update; at, from, cur, page, upto, todo and victim are the locals of    *)
(* the thread that holds _tick_lock.  A crash, or an exception out of any  *)
(* call, ends that thread between two of its steps.                        *)
(* Definitions introduced by "Mistake:" model no code (see Approvals).     *)
(***************************************************************************)
EXTENDS Naturals, FiniteSets, FiniteSetsExt

CONSTANTS
  N,          \* bound: the owner's replies, numbered as their Discord ids grow
  OrderTries, \* ORDER_TRIES
  MaxFaults,  \* bound: calls that raise under the gate's lock
  MaxCrashes  \* bound: crashes of the process

Replies == 1 .. N

ASSUME BoundsTyped ==
  N \in Nat /\ OrderTries \in Nat \ {0} /\ MaxFaults \in Nat /\ MaxCrashes \in Nat

VARIABLES
  order,      \* the order's status at Scrooge, as far as quoting goes
  written,    \* how many replies the owner has written
  text,       \* what each says: a price, or something that is none
  channel,    \* the replies written in the Discord channel
  desk,       \* the replies typed on the desk that wait for _tick_lock
  open, cursor, state, tries,  \* the card record
  queue,      \* the approval of each reply's quote
  parked,     \* history: how many approvals were parked for each reply
  latest,     \* history: the reply whose quote was parked last
  withdrawn,  \* history: the replies whose waiting approval _supersede denied
  at, from, cur, page, upto, todo, victim,
  faults, crashes

world == <<order, written, text, channel>>
record == <<open, cursor, state, tries>>
history == <<parked, latest, withdrawn>>
approvals == <<queue, history>>
locals == <<from, cur, page, upto, todo, victim>>
bounds == <<faults, crashes>>
vars == <<world, desk, record, approvals, at, locals, bounds>>

NoReply == 0

-----------------------------------------------------------------------------
(* The outside: the owner, Scrooge, the queue. *)

Init ==
  /\ order = "quotable" /\ written = 0
  /\ text = [r \in Replies |-> "none"]
  /\ channel = {} /\ desk = {}
  /\ open = TRUE /\ cursor = NoReply
  /\ state = [r \in Replies |-> "none"]
  /\ tries = [r \in Replies |-> 0]
  /\ queue = [r \in Replies |-> "none"]
  /\ parked = [r \in Replies |-> 0]
  /\ latest = NoReply /\ withdrawn = {}
  /\ at = "idle" /\ from = "none" /\ cur = NoReply
  /\ page = {} /\ upto = NoReply /\ todo = {} /\ victim = NoReply
  /\ faults = 0 /\ crashes = 0

\* The owner replies to the card: in the channel, or on the desk, which turns him away
\* once the card is closed.
Write(says, onDesk) ==
  /\ written < N
  /\ onDesk => open
  /\ written' = written + 1
  /\ text' = [text EXCEPT ![written + 1] = says]
  /\ IF onDesk THEN desk' = desk \cup {written + 1} /\ UNCHANGED channel
               ELSE channel' = channel \cup {written + 1} /\ UNCHANGED desk
  /\ UNCHANGED <<order, record, approvals, at, locals, bounds>>

\* Scrooge: "other" is neither in QUOTABLE nor in CLOSED.
OrderMoves ==
  /\ order # "closed"
  /\ order' \in {"quotable", "other", "closed"} \ {order}
  /\ UNCHANGED <<written, text, channel, desk, record, approvals, at, locals, bounds>>

\* ApprovalQueue.claim, on the owner's yes to the quote's own card.
Approve(r) ==
  /\ queue[r] = "pending"
  /\ queue' = [queue EXCEPT ![r] = "running"]
  /\ UNCHANGED <<world, desk, record, history, at, locals, bounds>>

\* PionirApp.deny: by the owner, for an older reply, or the queue's own expiry.
Denied(r) == [queue EXCEPT ![r] = IF @ = "pending" THEN "denied" ELSE @]

Deny(r) ==
  /\ queue[r] = "pending"
  /\ queue' = Denied(r)
  /\ UNCHANGED <<world, desk, record, history, at, locals, bounds>>

\* The approved run: check_provenance wants a standing reply, Scrooge a quotable order.
Run(r) ==
  /\ queue[r] = "running"
  /\ queue' = [queue EXCEPT ![r] =
       IF state[r] \in {"claimed", "submitted"} /\ order = "quotable" THEN "sent" ELSE "failed"]
  /\ UNCHANGED <<world, desk, record, history, at, locals, bounds>>

-----------------------------------------------------------------------------
(* Reading replies. *)

Unread == {r \in channel : r > cursor}

\* _retry's snapshot: claimed and not answered, while the card is open.
Claimed == {r \in Replies : state[r] = "claimed" /\ open}

\* tick reads the channel; its pages of a hundred are one page here.
Poll ==
  /\ at = "idle" /\ open
  /\ at' = "page" /\ from' = "page"
  /\ page' = Unread
  /\ \E last \in Unread \cup {cursor} : (\A r \in Unread : r <= last) /\ upto' = last
  /\ UNCHANGED <<world, desk, record, approvals, cur, todo, victim, bounds>>

\* RECONCILE_SECONDS came round and the order is closed: so is the card.
Reconcile ==
  /\ at = "idle" /\ open /\ order = "closed"
  /\ open' = FALSE
  /\ UNCHANGED <<world, desk, cursor, state, tries, approvals, at, locals, bounds>>

\* consider: a new reply to an open card is claimed before anything else is done.
Claim(r) ==
  IF state[r] = "none" /\ open
  THEN state' = [state EXCEPT ![r] = "claimed"] /\ cur' = r /\ at' = "handling"
  ELSE UNCHANGED <<state, cur, at>>

ConsiderNext ==
  /\ at = "page"
  /\ \E r \in page :
       /\ \A later \in page : r <= later
       /\ page' = page \ {r}
       /\ Claim(r)
  /\ UNCHANGED <<world, desk, open, cursor, tries, approvals, from, upto, todo, victim, bounds>>

\* Mistake: the cursor moves to the newest message there is.
CursorNewest == Max({cursor} \cup channel)

\* The cursor follows the page that was considered.
CursorAfter == upto

\* The page is done; what is claimed and not answered is tried again.
SaveCursor ==
  /\ at = "page" /\ page = {}
  /\ cursor' = CursorAfter
  /\ page' = Claimed
  /\ at' = "retry" /\ from' = "retry"
  /\ UNCHANGED <<world, desk, open, state, tries, approvals, cur, upto, todo, victim, bounds>>

RetryNext ==
  /\ at = "retry" /\ page # {}
  /\ \E r \in page :
       /\ page' = page \ {r}
       /\ cur' = r /\ at' = "handling"
  /\ UNCHANGED <<world, desk, record, approvals, from, upto, todo, victim, bounds>>

AtRest ==
  /\ at' = "idle" /\ from' = "none" /\ cur' = NoReply
  /\ page' = {} /\ upto' = NoReply /\ todo' = {} /\ victim' = NoReply

PollDone ==
  /\ at = "retry" /\ page = {}
  /\ AtRest
  /\ UNCHANGED <<world, desk, record, approvals, bounds>>

\* desk_reply holds _tick_lock: the typed reply is considered at once, whatever older
\* reply still waits in the channel.
DeskReply(r) ==
  /\ at = "idle" /\ r \in desk
  /\ desk' = desk \ {r}
  /\ Claim(r)
  /\ from' = IF open THEN "desk" ELSE from
  /\ UNCHANGED <<world, open, cursor, tries, approvals, page, upto, todo, victim, bounds>>

\* The lock could not be had in time: the desk answers Busy and the reply is not taken.
DeskBusy(r) ==
  /\ at # "idle" /\ r \in desk
  /\ desk' = desk \ {r}
  /\ UNCHANGED <<world, record, approvals, at, locals, bounds>>

-----------------------------------------------------------------------------
(* Acting on a claimed reply (_handle). *)

\* Back to whoever called _handle.
Return ==
  IF from = "desk" THEN AtRest
  ELSE at' = from /\ cur' = NoReply /\ UNCHANGED <<from, page, upto, todo, victim>>

\* Mistake: the queue is not asked first.
FoundNothing(r) == FALSE

\* ApprovalQueue.find by quote_ref: was this reply's quote parked before?
Found(r) == parked[r] > 0

Verdict(v) == state' = [state EXCEPT ![cur] = v]

\* It was: recorded, never parked again.
Recognise ==
  /\ at = "handling" /\ Found(cur)
  /\ Verdict("submitted")
  /\ Return
  /\ UNCHANGED <<world, desk, open, cursor, tries, approvals, bounds>>

\* The reply has no text, or no price in it.
Unreadable ==
  /\ at = "handling" /\ ~Found(cur) /\ text[cur] = "other"
  /\ Verdict("unparsed")
  /\ at' = "answering"
  /\ UNCHANGED <<world, desk, open, cursor, tries, approvals, locals, bounds>>

\* Mistake: a try that failed is not counted.
CountTryNot == UNCHANGED tries

CountTry == tries' = [tries EXCEPT ![cur] = @ + 1]

\* Mistake: it is tried once more than it is allowed.
TriesUsedLate == tries[cur] >= OrderTries

TriesUsed == tries[cur] + 1 >= OrderTries

\* Scrooge does not answer: the try is counted, and saved; the reply stays claimed until
\* its tries are used up.
NoOrder ==
  /\ at = "handling" /\ ~Found(cur) /\ text[cur] = "price"
  /\ CountTry
  /\ IF TriesUsed THEN at' = "giving_up" /\ UNCHANGED locals ELSE Return
  /\ UNCHANGED <<world, desk, open, cursor, state, approvals, bounds>>

\* They are: the verdict is a save of its own, after the last try's.
GiveUp ==
  /\ at = "giving_up"
  /\ Verdict("failed")
  /\ at' = "answering"
  /\ UNCHANGED <<world, desk, open, cursor, tries, approvals, locals, bounds>>

\* The order cannot be quoted; one that never can be again closes its card next.
NotQuotable ==
  /\ at = "handling" /\ ~Found(cur) /\ text[cur] = "price" /\ order # "quotable"
  /\ Verdict("refused")
  /\ at' = IF order = "closed" THEN "closing" ELSE "answering"
  /\ UNCHANGED <<world, desk, open, cursor, tries, approvals, locals, bounds>>

CloseCard ==
  /\ at = "closing"
  /\ open' = FALSE
  /\ at' = "answering"
  /\ UNCHANGED <<world, desk, cursor, state, tries, approvals, locals, bounds>>

\* The order was read and is quotable: the quote is built, to be submitted next.
Build ==
  /\ at = "handling" /\ ~Found(cur) /\ text[cur] = "price" /\ order = "quotable"
  /\ at' = "submitting"
  /\ UNCHANGED <<world, desk, record, approvals, locals, bounds>>

\* run_task parks client.quote, or would not take it (the adapter's validation).
Submit ==
  /\ at = "submitting"
  /\ \/ /\ queue' = [queue EXCEPT ![cur] = "pending"]
        /\ parked' = [parked EXCEPT ![cur] = @ + 1] /\ latest' = cur
        /\ at' = "parked"
        /\ UNCHANGED <<state, withdrawn>>
     \/ /\ Verdict("refused")
        /\ at' = "answering"
        /\ UNCHANGED approvals
  /\ UNCHANGED <<world, desk, open, cursor, tries, locals, bounds>>

\* Mistake: the reply just recorded is among those it replaces.
ReplacedAll == {o \in Replies : state[o] = "submitted"} \cup {cur}

\* Mistake: only older replies are replaced.
ReplacedOlder == {o \in Replies : o < cur /\ state[o] = "submitted"}

\* _supersede(keep): every other reply recorded as submitted.
Replaced == {o \in Replies \ {cur} : state[o] = "submitted"}

RecordSubmitted ==
  /\ at = "parked"
  /\ Verdict("submitted")
  /\ todo' = Replaced
  /\ at' = "superseding"
  /\ UNCHANGED <<world, desk, open, cursor, tries, approvals, from, cur, page, upto, victim,
                 bounds>>

\* _supersede: the other's approval is denied, then its reply is marked.
Withdraw ==
  /\ at = "superseding"
  /\ \E o \in todo :
       /\ queue' = Denied(o)
       /\ withdrawn' = IF queue[o] = "pending" THEN withdrawn \cup {o} ELSE withdrawn
       /\ todo' = todo \ {o} /\ victim' = o
  /\ at' = "marking"
  /\ UNCHANGED <<world, desk, record, parked, latest, from, cur, page, upto, bounds>>

Mark ==
  /\ at = "marking"
  /\ state' = [state EXCEPT ![victim] = "superseded"]
  /\ at' = "superseding" /\ victim' = NoReply
  /\ UNCHANGED <<world, desk, open, cursor, tries, approvals, from, cur, page, upto, todo, bounds>>

\* The owner is answered under his reply.
Answer ==
  /\ at = "answering" \/ (at = "superseding" /\ todo = {})
  /\ Return
  /\ UNCHANGED <<world, desk, record, approvals, bounds>>

-----------------------------------------------------------------------------
(* What goes wrong. *)

\* A call raises (Discord, a file, run_task after it parked): the pass is over.
Breaks ==
  /\ at # "idle" /\ faults < MaxFaults
  /\ AtRest
  /\ faults' = faults + 1
  /\ UNCHANGED <<world, desk, record, approvals, crashes>>

\* The process dies and is started again: a running approval is denied, the desk's
\* callers are gone.
Crash ==
  /\ crashes < MaxCrashes
  /\ AtRest
  /\ queue' = [r \in Replies |-> IF queue[r] = "running" THEN "denied" ELSE queue[r]]
  /\ desk' = {}
  /\ crashes' = crashes + 1
  /\ UNCHANGED <<world, record, history, faults>>

GateStep ==
  \/ Poll \/ ConsiderNext \/ SaveCursor \/ RetryNext \/ PollDone
  \/ Recognise \/ Unreadable \/ NoOrder \/ GiveUp \/ NotQuotable \/ CloseCard
  \/ Build \/ Submit \/ RecordSubmitted \/ Withdraw \/ Mark \/ Answer

Next ==
  \/ \E says \in {"price", "other"}, onDesk \in BOOLEAN : Write(says, onDesk)
  \/ \E r \in Replies : \/ Approve(r) \/ Deny(r) \/ Run(r)
                        \/ DeskReply(r) \/ DeskBusy(r)
  \/ OrderMoves \/ Reconcile \/ GateStep \/ Breaks \/ Crash

Spec == Init /\ [][Next]_vars

\* The gate polls on, and its calls end: Discord and Scrooge are asked with time-outs.
FairSpec == Spec /\ WF_vars(GateStep)

-----------------------------------------------------------------------------
(* What must hold. *)

Typed ==
  /\ order \in {"quotable", "other", "closed"} /\ written \in 0 .. N
  /\ text \in [Replies -> {"none", "price", "other"}]
  /\ channel \subseteq Replies /\ desk \subseteq Replies
  /\ open \in BOOLEAN /\ cursor \in 0 .. N
  /\ state \in [Replies -> {"none", "claimed", "submitted", "unparsed", "refused",
                            "failed", "superseded"}]
  /\ tries \in [Replies -> Nat]
  /\ queue \in [Replies -> {"none", "pending", "running", "denied", "sent", "failed"}]
  /\ parked \in [Replies -> Nat] /\ latest \in 0 .. N /\ withdrawn \subseteq Replies
  /\ at \in {"idle", "page", "retry", "handling", "giving_up", "closing", "submitting", "parked",
             "superseding", "marking", "answering"}
  /\ from \in {"none", "page", "retry", "desk"}
  /\ cur \in 0 .. N /\ page \subseteq Replies /\ upto \in 0 .. N
  /\ todo \subseteq Replies /\ victim \in 0 .. N
  /\ faults \in Nat /\ crashes \in Nat

TriesBounded == \A r \in Replies : tries[r] <= OrderTries + faults + crashes

\* Every variable has its type, and a reply is tried ORDER_TRIES times, or once more for
\* every pass that ended between counting its last try and giving it up (_handle).
TypeOK == Typed /\ TriesBounded

\* "One reply, one quote": however often a pass breaks or the process dies between the
\* claim, the parking and the record of it, a reply's quote is parked once (_handle, find).
OneReplyOneQuote == \A r \in Replies : parked[r] <= 1

\* The quote of a replaced reply can no longer be approved.  The gate withdraws no quote
\* but for one it parked later, which may well be an older reply's, tried again: so it
\* never takes the last one itself, and of those it recorded there is always one that only
\* the owner, his queue or a restart may have ended (_supersede).
ReplacedForGood ==
  /\ \A o \in Replies : state[o] = "superseded" => queue[o] # "pending" /\ o # latest
  /\ latest \notin withdrawn
  /\ withdrawn # {} => \E r \in Replies \ withdrawn : state[r] = "submitted"

\* No reply is lost to the cursor: what lies behind it was claimed, unless the card was
\* closed by then; a page read again after a crash is read from where it began (tick).
NothingSkipped ==
  open => \A r \in channel : r <= cursor => state[r] # "none"

\* As long as no pass broke and no process died, the gate leaves at most one quote of the
\* order waiting, in whatever order replies were read, retried or typed (_supersede).
Live == {r \in Replies : queue[r] = "pending"}

OneLiveUnlessBroken ==
  at = "idle" /\ faults = 0 /\ crashes = 0 => Cardinality(Live) <= 1

\* The owner's replies in the channel do not go unheard: each gets its verdict, or the
\* card is closed (tick, _retry, ORDER_TRIES).
EveryReplyIsAnswered ==
  \A r \in Replies : r \in channel ~> state[r] \notin {"none", "claimed"} \/ ~open

\* What quotes.py's docstring says: "a newer reply for the same order replaces an older
\* one still waiting: the older approval is denied, so only one quote card per order is
\* ever live".
OneLiveQuote == at = "idle" /\ Claimed = {} => Cardinality(Live) <= 1
=============================================================================
