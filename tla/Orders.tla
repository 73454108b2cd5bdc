------------------------------- MODULE Orders -------------------------------
(***************************************************************************)
(* The order desk (crew/orders.py): every order a client placed answered   *)
(* by a fixed email that the owner approves.  One run reads the orders     *)
(* once, follows up the emails waiting on the owner, submits new ones,     *)
(* posts quote cards and moves the orders whose email went, all against    *)
(* that one reading, and saves its record at the end only.  Meanwhile the  *)
(* client pays, a link runs out, the owner answers or moves an order by    *)
(* hand, and Pionir may answer late, not at all or not know.               *)
(*                                                                         *)
(* Left out: the words and their check (a blocked email), the orders held  *)
(* for the owner because of their amount, seen_paid, events and figures.   *)
(* Definitions introduced by "Mistake:" model no code.                     *)
(***************************************************************************)
EXTENDS Naturals, Sequences, FiniteSets

CONSTANTS
  Age,               \* the orders, oldest first: a sequence without repetition
  Books,             \* what they may be when the desk first runs: each order
                     \* custom or sold, flagged by screen() or not, its status;
                     \* bound: and how many faults happen
  MaxEmails, MaxCards,                \* submissions and cards per run
  RetryUnreachable, RetryUndelivered, RetryStatus,
  Patience,          \* FORGOTTEN_AFTER, in runs
  None

Orders == {Age[i] : i \in DOMAIN Age}
Retryable == {"unreachable", "undelivered"}
RetryCap == [s \in Retryable |->
               IF s = "unreachable" THEN RetryUnreachable ELSE RetryUndelivered]

Statuses == {"awaiting_payment", "paid", "in_progress", "delivered", "declined", "refunded",
             "quote_requested", "quoted", "balance_due", "balance_paid"}

ASSUME OrdersTyped ==
  /\ Age \in Seq(Orders)
  /\ \A i, j \in DOMAIN Age : Age[i] = Age[j] => i = j
  /\ \A book \in Books :
       /\ book.orders \in [Orders -> [custom : BOOLEAN, flagged : BOOLEAN, status : Statuses]]
       /\ book.faults \in Nat
ASSUME CapsTyped ==
  /\ {MaxEmails, MaxCards, RetryUnreachable, RetryUndelivered, RetryStatus} \subseteq Nat \ {0}
  /\ Patience \in Nat

Acks == {"ack", "quote_ack", "quote_paid_ack"}
Answering == {"ack", "quote_paid_ack", "decline"}     \* their sending moves the order
Kinds == Acks \cup {"decline", "reminder", "recovery"}

VARIABLES
  order,     \* Scrooge's orders: status, the state of the open link, messages
  copies,    \* history: the emails each client got, by kind
  cards,     \* the orders whose quote card is up
  approvals, \* the emails parked: order, kind, status, what came of sending
             \* them, whether still listed
  disk,      \* contracts.orders.json: emails and tries at cards
  rec,       \* the record a run works on
  pc, at,    \* where the run stands: its part, and the item of that part
  count,     \* emails or cards asked for so far in this part
  seen,      \* the orders as the run read them, None between runs
  late,      \* history: orders moved by hand since the run read them
  excused,   \* history: order and kind of an email whose fate the desk lost
  faults     \* lost calls and answers, outages and deaths still to come

scrooge == <<order, copies, cards, approvals, late>>
run == <<rec, pc, at, count, seen>>
vars == <<scrooge, disk, run, excused, faults>>

\* Links: not asked about yet, open (an expired checkout with a recovery link,
\* a quote past day 10) or dead.
Init ==
  /\ \E book \in Books :
       /\ order = [o \in Orders |-> [link |-> "young", messages |-> {},
                     custom |-> book.orders[o].custom, flagged |-> book.orders[o].flagged,
                     status |-> book.orders[o].status]]
       /\ faults = book.faults
  /\ copies = [o \in Orders |-> [k \in Kinds |-> 0]]
  /\ cards = {} /\ approvals = <<>>
  /\ disk = [emails |-> <<>>, cards |-> [o \in Orders |-> [posted |-> FALSE, tries |-> 0]]]
  /\ rec = disk /\ pc = "idle" /\ at = 1 /\ count = 0 /\ seen = None
  /\ late = {} /\ excused = {}

Fault == faults > 0 /\ faults' = faults - 1
Fine == UNCHANGED faults

(***************************************************************************)
(* The client, the owner and Scrooge, none of them waiting for the desk.   *)
(***************************************************************************)
Becomes(o, s) == order' = [order EXCEPT ![o].status = s, ![o].link = "young"]

Elsewhere == UNCHANGED <<disk, run, excused>>

Pays(o) ==
  /\ order[o].link # "dead" /\ order[o].status \in {"awaiting_payment", "quoted"}
  /\ Becomes(o, "paid")
  /\ UNCHANGED <<copies, cards, approvals, late, faults>> /\ Elsewhere

Ages(o) ==
  /\ order[o].link # "dead" /\ order[o].status \in {"awaiting_payment", "quoted"}
  /\ order' = [order EXCEPT ![o].link = IF @ = "young" THEN "open" ELSE "dead"]
  /\ UNCHANGED <<copies, cards, approvals, late, faults>> /\ Elsewhere

\* The owner's reply to the quote card, once the quote email he approved went.
Quotes(o) ==
  /\ o \in cards /\ order[o].status = "quote_requested"
  /\ Becomes(o, "quoted")
  /\ UNCHANGED <<copies, cards, approvals, late, faults>> /\ Elsewhere

\* He settles the order himself: takes it on or turns it away.
MovesByHand(o) ==
  /\ order[o].status \in {"paid", "quote_requested"}
  /\ \E s \in {"in_progress", "declined"} : Becomes(o, s)
  /\ late' = IF pc = "idle" THEN late ELSE late \cup {o}
  /\ UNCHANGED <<copies, cards, approvals, faults>> /\ Elsewhere

\* SCREENS is edited: the same brief is judged otherwise from now on.
Rescreens(o) ==
  /\ order' = [order EXCEPT ![o].flagged = ~ @]
  /\ Fault
  /\ UNCHANGED <<copies, cards, approvals, late>> /\ Elsewhere

\* Scrooge sends the two link emails once, and while their link is open.
Accepts(o, k) ==
  CASE k = "recovery" ->
         order[o].status = "awaiting_payment" /\ order[o].link = "open"
           /\ k \notin order[o].messages
    [] k = "reminder" ->
         order[o].status = "quoted" /\ order[o].link = "open"
           /\ k \notin order[o].messages
    [] OTHER -> TRUE

Delivers(o, k) ==
  /\ order' = [order EXCEPT ![o].messages = @ \cup {k}]
  /\ copies' = [copies EXCEPT ![o][k] = @ + 1]

Delivered == {"approved", "lost"}

\* The owner answers a card.  A yes is executed: sent, refused by Scrooge, or
\* reported as an outage whether or not the email went ("lost" if it did).
Answers(a) ==
  LET o == approvals[a].order
      k == approvals[a].kind
      Sending(r) == approvals' = [approvals EXCEPT ![a].status = "running", ![a].result = r]
  IN /\ approvals[a].status = "pending"
     /\ \/ approvals' = [approvals EXCEPT ![a].status = "denied"]
             /\ UNCHANGED <<order, copies>> /\ Fine
        \/ Accepts(o, k) /\ Sending("approved") /\ Delivers(o, k) /\ Fine
        \/ ~ Accepts(o, k) /\ Sending("refused") /\ UNCHANGED <<order, copies>> /\ Fine
        \/ Sending("unavailable") /\ UNCHANGED <<order, copies>> /\ Fault
        \/ Accepts(o, k) /\ Sending("lost") /\ Delivers(o, k) /\ Fault
     /\ UNCHANGED <<cards, late>> /\ Elsewhere

\* Pionir writes what came of it, or restarts in the middle: an interrupted
\* approval is denied, whatever it did.
Settles(a) ==
  /\ approvals[a].status = "running"
  /\ \/ approvals' = [approvals EXCEPT ![a].status = "ended"] /\ Fine
     \/ approvals' = [approvals EXCEPT ![a].status = "denied"] /\ Fault
  /\ UNCHANGED <<order, copies, cards, late>> /\ Elsewhere

\* Only the latest decided ones are listed: the others are forgotten.
Forgets(a) ==
  /\ approvals[a].status \in {"denied", "ended"} /\ approvals[a].listed
  /\ approvals' = [approvals EXCEPT ![a].listed = FALSE]
  /\ Fault
  /\ UNCHANGED <<order, copies, cards, late>> /\ Elsewhere

(***************************************************************************)
(* A run.  Its parts come in this order, each item by item.                *)
(***************************************************************************)
Entry(o, k, s) == [order |-> o, kind |-> k, status |-> s, approval |-> 0,
                   waited |-> 0, moved |-> "", tries |-> 0]

Entries(record) == {record.emails[i] : i \in DOMAIN record.emails}

Turn(part) == pc' = part /\ at' = 1 /\ count' = 0

\* An unavailable Pionir, or a list that cannot be read, ends the run here.
ReadOrders ==
  /\ pc = "idle"
  /\ rec' = disk /\ seen' = order /\ late' = {} /\ Turn("follow")
  /\ UNCHANGED <<order, copies, cards, approvals, disk, excused, faults>>

Shown(e) == e.kind \in seen[e.order].messages

\* A run older: how long it waits counts from its submission.
Older(e) == [e EXCEPT !.waited = IF @ < Patience THEN @ + 1 ELSE @]

\* Mistake: an approval Pionir no longer lists is waited for without end.
FollowedWhileListed(e) ==
  LET a == approvals[e.approval]
      As(s) == [e EXCEPT !.status = s]
  IN CASE e.status # "pending_approval" -> e
       [] OTHER ->
            IF a.status \in {"pending", "running"} THEN Older(e)
            ELSE IF a.listed /\ a.status = "denied" THEN As("denied")
            ELSE IF (a.listed /\ a.result = "approved") \/ Shown(e) THEN As("sent")
            ELSE IF a.listed
            THEN As(IF a.result = "refused" THEN "failed" ELSE "undelivered")
            ELSE Older(e)

\* What became of an email waiting on the owner.
Followed(e) ==
  LET a == approvals[e.approval]
      As(s) == [e EXCEPT !.status = s]
  IN CASE e.status # "pending_approval" -> e
       [] OTHER ->
            IF a.status \in {"pending", "running"} THEN Older(e)
            ELSE IF a.listed /\ a.status = "denied" THEN As("denied")
            ELSE IF (a.listed /\ a.result = "approved") \/ Shown(e) THEN As("sent")
            ELSE IF a.listed
            THEN As(IF a.result = "refused" THEN "failed" ELSE "undelivered")
            ELSE IF e.waited >= Patience THEN As("unknown")
            ELSE Older(e)

Waiting == {i \in DOMAIN rec.emails : rec.emails[i].status = "pending_approval"}

\* Offered again although this very email went: after the orders were read, and
\* reported as an outage.
Misjudged(i) ==
  /\ i \in Waiting /\ Followed(rec.emails[i]).status = "undelivered"
  /\ approvals[rec.emails[i].approval].result = "lost"

\* Pionir may be out of reach for some of them, which wait on.
FollowUp ==
  /\ pc = "follow"
  /\ \E missed \in SUBSET Waiting :
       /\ IF missed = {} THEN Fine ELSE Fault
       /\ rec' = [rec EXCEPT !.emails = [i \in DOMAIN @ |->
                    IF i \in missed THEN Older(@[i]) ELSE Followed(@[i])]]
       /\ excused' = excused \cup {<<rec.emails[i].order, rec.emails[i].kind>> :
                                     i \in {j \in DOMAIN rec.emails \ missed : Misjudged(j)}}
  /\ Turn("send")
  /\ UNCHANGED <<scrooge, disk, seen>>

\* _plan: the email an order as read needs.
Plan(o) ==
  LET s == seen[o].status
      link == seen[o].link = "open"
  IN CASE s = "quoted" /\ link /\ "reminder" \notin seen[o].messages -> "reminder"
       [] s = "awaiting_payment" /\ link /\ "recovery" \notin seen[o].messages
            /\ ~ seen[o].flagged -> "recovery"
       [] s = "paid" /\ seen[o].custom -> "quote_paid_ack"
       [] s \in {"paid", "quote_requested"} /\ seen[o].flagged
            /\ ~ (s = "paid" /\ seen[o].custom) -> "decline"
       [] s = "quote_requested" /\ ~ seen[o].flagged -> "quote_ack"
       [] s = "paid" /\ ~ seen[o].flagged /\ ~ seen[o].custom -> "ack"
       [] OTHER -> None

Tries(o, k) ==
  {i \in DOMAIN rec.emails : rec.emails[i].order = o /\ rec.emails[i].kind = k}

Opposite(k) == IF k \in Acks THEN {"decline"} ELSE IF k = "decline" THEN Acks ELSE {}

SettledIn(tries) == \E i \in tries : rec.emails[i].status \notin Retryable

TriedOut(o, k) ==
  \E s \in Retryable :
    Cardinality({i \in Tries(o, k) : rec.emails[i].status = s}) >= RetryCap[s]

\* Mistake: only a sent email closes its kind.
ClosedBySent(o, k) ==
  \/ \E i \in Tries(o, k) : rec.emails[i].status = "sent"
  \/ TriedOut(o, k)

\* Mistake: the opposite answer is not looked at.
ClosedByItsKind(o, k) == SettledIn(Tries(o, k)) \/ TriedOut(o, k)

Closed(o, k) ==
  \/ SettledIn(Tries(o, k))
  \/ TriedOut(o, k)
  \/ \E other \in Opposite(k) : SettledIn(Tries(o, other))

Noted(e) == rec' = [rec EXCEPT !.emails = Append(@, e)]

Parked(o, k) ==
  approvals' = Append(approvals, [order |-> o, kind |-> k, status |-> "pending",
                                  result |-> "", listed |-> TRUE])

\* Pionir parks it; or parks it and its answer is lost (tried again next run) or
\* is "still running"; or it is never reached, or says it failed.
Submit(o, k) ==
  \/ /\ Parked(o, k) /\ Fine
     /\ Noted([Entry(o, k, "pending_approval") EXCEPT !.approval = Len(approvals) + 1])
     /\ UNCHANGED excused
  \/ /\ Parked(o, k) /\ Fault
     /\ \/ Noted(Entry(o, k, "unreachable")) /\ excused' = excused \cup {<<o, k>>}
        \/ Noted(Entry(o, k, "unknown")) /\ UNCHANGED excused
  \/ /\ UNCHANGED approvals /\ Fault
     /\ \E s \in {"unreachable", "failed"} : Noted(Entry(o, k, s))
     /\ UNCHANGED excused

\* Those left in this part of the run, and the next of them, oldest first.
Left(wanted) == {i \in DOMAIN Age : i >= at /\ Age[i] \in wanted}
First(i, items) == i \in items /\ \A j \in items : i <= j

WantsEmail(o) ==
  LET k == Plan(o)
  IN k # None /\ ~ Closed(o, k) /\ (k \in seen[o].messages \/ count < MaxEmails)

Due == {o \in Orders : WantsEmail(o)}

SendNew ==
  /\ pc = "send"
  /\ \E i \in DOMAIN Age :
       LET o == Age[i]
           k == Plan(o)
       IN /\ First(i, Left(Due)) /\ at' = i + 1
          /\ IF k \in seen[o].messages
             THEN Noted(Entry(o, k, "sent")) /\ UNCHANGED <<approvals, count, excused, faults>>
             ELSE Submit(o, k) /\ count' = count + 1
  /\ UNCHANGED <<order, copies, cards, late, disk, pc, seen>>

SentNew ==
  /\ pc = "send" /\ Left(Due) = {}
  /\ Turn("cards")
  /\ UNCHANGED <<scrooge, disk, rec, seen, excused, faults>>

ForCard(o) ==
  /\ seen[o].status \in {"quote_requested", "quoted"} /\ seen[o].custom
  /\ seen[o].flagged => \E i \in Tries(o, "decline") : rec.emails[i].status = "denied"

WantsCard(o) ==
  /\ ForCard(o) /\ count < MaxCards
  /\ ~ rec.cards[o].posted /\ rec.cards[o].tries < RetryUnreachable

CardsDue == {o \in Orders : WantsCard(o)}

PostCard ==
  /\ pc = "cards"
  /\ count' = count + 1
  /\ \E i \in DOMAIN Age, up, told \in BOOLEAN :
       LET o == Age[i]
       IN /\ First(i, Left(CardsDue)) /\ at' = i + 1
          /\ told => up
          /\ cards' = IF up THEN cards \cup {o} ELSE cards
          /\ rec' = [rec EXCEPT !.cards[o] = [posted |-> told, tries |-> @.tries + 1]]
          /\ IF told THEN Fine ELSE Fault
  /\ UNCHANGED <<order, copies, approvals, late, disk, pc, seen, excused>>

PostedCards ==
  /\ pc = "cards" /\ Left(CardsDue) = {}
  /\ Turn("statuses")
  /\ UNCHANGED <<scrooge, disk, rec, seen, excused, faults>>

\* Mistake: an acknowledgement moves the order wherever it stands.
FromAnywhere ==
  [k \in Answering |-> {"paid", "quote_requested", "quoted", "in_progress", "declined"}]

\* AFTER_SENT: where an email's sending moves the order, and from where.
Target == [k \in Answering |-> IF k = "decline" THEN "declined" ELSE "in_progress"]
From == [k \in Answering |-> IF k = "decline" THEN {"paid", "quote_requested"} ELSE {"paid"}]

Moving(e) ==
  e.status = "sent" /\ e.kind \in Answering /\ e.moved = ""

\* set_status is not approved by anyone; the run's own reading is moved along.
Move(e, i) ==
  LET Marked(m) == rec' = [rec EXCEPT !.emails[i].moved = m]
      Sets == order' = [order EXCEPT ![e.order].status = Target[e.kind], ![e.order].link = "young"]
      Again == rec' = [rec EXCEPT !.emails[i].tries = @ + 1,
                         !.emails[i].moved = IF e.tries + 1 >= RetryStatus THEN "failed" ELSE ""]
  IN CASE seen[e.order].status = Target[e.kind] ->
            Marked("done") /\ UNCHANGED <<order, seen>> /\ Fine
       [] seen[e.order].status \notin From[e.kind] \cup {Target[e.kind]} ->
            Marked("skipped") /\ UNCHANGED <<order, seen>> /\ Fine
       [] OTHER ->
            \/ /\ Marked("done") /\ Sets /\ Fine
               /\ seen' = [seen EXCEPT ![e.order].status = Target[e.kind]]
            \/ Again /\ Sets /\ UNCHANGED seen /\ Fault
            \/ Again /\ UNCHANGED <<order, seen>> /\ Fault

ToMove == {i \in DOMAIN rec.emails : i >= at /\ Moving(rec.emails[i])}

SetStatus ==
  /\ pc = "statuses"
  /\ \E i \in DOMAIN rec.emails :
       First(i, ToMove) /\ at' = i + 1 /\ Move(rec.emails[i], i)
  /\ UNCHANGED <<copies, cards, approvals, late, disk, pc, count, excused>>

Save ==
  /\ pc = "statuses" /\ ToMove = {}
  /\ disk' = rec /\ Turn("idle") /\ late' = {} /\ seen' = None
  /\ UNCHANGED <<order, copies, cards, approvals, rec, excused, faults>>

\* The process dies, or the save does: the record stays as it was, without the
\* emails this run parked.
Unsaved == {i \in (DOMAIN rec.emails) \ (DOMAIN disk.emails) :
              rec.emails[i].status \in {"pending_approval", "unknown"}}
Dies ==
  /\ pc # "idle" /\ Fault
  /\ rec' = disk /\ Turn("idle") /\ late' = {} /\ seen' = None
  /\ excused' = excused \cup {<<rec.emails[i].order, rec.emails[i].kind>> : i \in Unsaved}
  /\ UNCHANGED <<order, copies, cards, approvals, disk>>

DeskStep ==
  \/ FollowUp \/ SendNew \/ SentNew \/ PostCard \/ PostedCards
  \/ SetStatus \/ Save

Next ==
  \/ ReadOrders \/ DeskStep \/ Dies
  \/ \E o \in Orders : Pays(o) \/ Ages(o) \/ Quotes(o) \/ MovesByHand(o) \/ Rescreens(o)
  \/ \E a \in DOMAIN approvals : Answers(a) \/ Settles(a) \/ Forgets(a)

Spec == Init /\ [][Next]_vars

\* The crew runs the desk at its cadence and a run goes on to its end; the
\* owner answers the cards he is shown and Pionir settles what he approved.
\* Nobody else owes anything.
Fairness ==
  /\ WF_vars(ReadOrders) /\ WF_vars(DeskStep)
  /\ WF_vars(\E a \in DOMAIN approvals : Answers(a) \/ Settles(a))

FairSpec == Spec /\ Fairness

(***************************************************************************)
(* Properties.                                                             *)
(***************************************************************************)
Results == {"", "approved", "refused", "unavailable", "lost"}
Approval == [order : Orders, kind : Kinds, listed : BOOLEAN,
             status : {"pending", "running", "denied", "ended"},
             result : Results]
Email == [order : Orders, kind : Kinds, approval : Nat, waited : Nat, tries : Nat,
          moved : {"", "done", "skipped", "failed"},
          status : {"pending_approval", "denied", "sent", "failed", "undelivered",
                    "unknown", "unreachable"}]
Record == [emails : Seq(Email), cards : [Orders -> [posted : BOOLEAN, tries : Nat]]]
Reading == [Orders -> [link : {"young", "open", "dead"}, messages : SUBSET Kinds,
                       custom : BOOLEAN, flagged : BOOLEAN, status : Statuses]]

\* The shapes of the state, and that there is a reading just while a run goes on.
TypeOK ==
  /\ order \in Reading /\ copies \in [Orders -> [Kinds -> Nat]] /\ cards \subseteq Orders
  /\ approvals \in Seq(Approval)
  /\ disk \in Record /\ rec \in Record
  /\ pc \in {"idle", "follow", "send", "cards", "statuses"}
  /\ at \in Nat /\ count \in Nat
  /\ IF pc = "idle" THEN seen = None ELSE seen \in Reading
  /\ late \subseteq Orders /\ excused \subseteq Orders \X Kinds
  /\ faults \in Nat

\* A client gets a second copy of an email only if the desk lost sight of the
\* first: Pionir parked it but could not say so, the run died before saving it,
\* or it went after the run had read the orders and was reported as an outage
\* ("Never twice", _closed, _already_sent).
NoSecondCopy ==
  \A o \in Orders, k \in Kinds : copies[o][k] > 1 => <<o, k>> \in excused

\* The desk's own words: a second email of the same kind only after one that
\* never reached Pionir.
TwiceOnlyIfUnreached ==
  \A o \in Orders, k \in Kinds : copies[o][k] > 1 =>
    \E e \in Entries(rec) : e.order = o /\ e.kind = k /\ e.status = "unreachable"

\* No client is both thanked and declined, even when SCREENS changes between
\* the two, but by an email the desk lost sight of (the opposite kinds of _closed).
NeverBothAnswers ==
  \A o \in Orders, k \in Acks :
    copies[o][k] > 0 /\ copies[o]["decline"] > 0 =>
      <<o, k>> \in excused \/ <<o, "decline">> \in excused

\* The desk moves an order only after the client got the very email that says
\* so, and never one that was settled by hand before the run read it
\* (_set_statuses on the reading of the run's beginning).
MovesOnlyWhatItAnswered ==
  [][SetStatus => \A o \in Orders : order'[o].status # order[o].status =>
       /\ \E k \in Answering : copies[o][k] > 0 /\ order'[o].status = Target[k]
       /\ order[o].status \in {"in_progress", "declined", "delivered"} => o \in late]_vars

\* What a paid order is owed.
Owed(o) == IF order[o].custom THEN "quote_paid_ack" ELSE
           IF order[o].flagged THEN "decline" ELSE "ack"

\* The record says why the order does not move: the email, or its opposite,
\* was denied, refused or lost, was tried often enough, or the order could not
\* be moved.  For a quote the opposite is a decline he denied to quote it.
GivenUp(o) ==
  LET Of(k) == {e \in Entries(disk) : e.order = o /\ e.kind = k}
  IN \E k \in {Owed(o)} \cup Opposite(Owed(o)) :
       \/ \E e \in Of(k) : e.status \in {"denied", "failed", "unknown"}
                          \/ e.moved \in {"failed", "skipped"}
       \/ \E s \in Retryable :
            Cardinality({i \in DOMAIN disk.emails :
              disk.emails[i] \in Of(k) /\ disk.emails[i].status = s}) >= RetryCap[s]

\* Every paid order comes to its client's email and moves on, or its record
\* says why not: no email waits for ever, and the cap on emails a run only
\* delays (RETRY_UNDELIVERED, FORGOTTEN_AFTER, MAX_EMAILS_PER_RUN).
PaidOrdersMoveOn ==
  \A o \in Orders : order[o].status = "paid" ~> (order[o].status # "paid" \/ GivenUp(o))

=============================================================================
