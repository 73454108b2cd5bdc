----------------------------- MODULE OrdersProofs -----------------------------
(***************************************************************************)
(* Proofs about the order desk, for any orders, caps and number of faults. *)
(* What keeps a client from a second copy is that every email the owner    *)
(* may still approve has an entry waiting in the record, and every email   *)
(* that went an entry that closes its kind, unless the desk lost sight of  *)
(* it.  The disk is behind the record, but only in the fate of emails it   *)
(* shows as waiting, so a run that dies forgets no email but the unsaved.  *)
(***************************************************************************)
EXTENDS Orders, TLAPS

\* The record answers order o with the email of kind k: in whatever way that
\* email ended or waits, the client may have it.
Settled(record, o, k) ==
  \E i \in DOMAIN record.emails :
    LET e == record.emails[i]
    IN e.order = o /\ e.kind = k /\ e.status \notin Retryable

\* An email waiting on the owner knows its card.
KnowsItsCard(record) ==
  \A i \in DOMAIN record.emails :
    LET e == record.emails[i]
    IN e.status = "pending_approval" =>
         /\ e.approval \in DOMAIN approvals
         /\ approvals[e.approval].order = e.order /\ approvals[e.approval].kind = e.kind

\* What the record calls sent, the client got.
SentWent(record) ==
  \A i \in DOMAIN record.emails :
    record.emails[i].status = "sent" =>
      copies[record.emails[i].order][record.emails[i].kind] > 0

\* No order is both thanked and declined, nor waiting for both.
OneAnswer(record) ==
  \A o \in Orders, k \in Acks : ~ (Settled(record, o, k) /\ Settled(record, o, "decline"))

RecordHolds(record) == KnowsItsCard(record) /\ SentWent(record) /\ OneAnswer(record)

\* The record is the disk and more: new emails, and the fate of those that wait.
SavedAhead ==
  /\ pc \in {"idle", "follow"} => rec = disk
  /\ \A i \in DOMAIN disk.emails :
       LET was == disk.emails[i]
           is == rec.emails[i]
       IN /\ i \in DOMAIN rec.emails
          /\ is.order = was.order /\ is.kind = was.kind /\ is.approval = was.approval
          /\ was.status \in {is.status, "pending_approval"}

\* An email listed with its order, then or when the run read it, or that a yes
\* sent, went.
ListedWent ==
  /\ \A o \in Orders : \A k \in order[o].messages : copies[o][k] > 0
  /\ pc # "idle" => \A o \in Orders : \A k \in seen[o].messages : copies[o][k] > 0
  /\ \A a \in DOMAIN approvals :
       approvals[a].result \in Delivered => copies[approvals[a].order][approvals[a].kind] > 0

AsksFor(a, o, k) ==
  approvals[a].status = "pending" /\ approvals[a].order = o /\ approvals[a].kind = k

\* An entry that closes its kind, and whose loss would leave it out of sight.
InTheWay(i, o, k) ==
  LET e == rec.emails[i]
  IN /\ i \in DOMAIN rec.emails /\ e.order = o /\ e.kind = k /\ e.status \notin Retryable
     /\ i \in DOMAIN disk.emails \/ e.status \in {"pending_approval", "unknown"}

\* The entry of an email that went: as long as it waits, its own yes sent it.
SentBy(i, o, k) ==
  LET e == rec.emails[i]
      waits == \/ e.status = "pending_approval"
               \/ i \in DOMAIN disk.emails /\ disk.emails[i].status = "pending_approval"
  IN InTheWay(i, o, k) /\ (waits => approvals[e.approval].result \in Delivered)

\* The entry of a card still to be answered: it waits for it, or waits no more.
WaitsFor(i, a, o, k) ==
  LET e == rec.emails[i]
  IN /\ InTheWay(i, o, k)
     /\ \/ e.status = "pending_approval" /\ e.approval = a
        \/ e.status = "unknown" /\ (i \in DOMAIN disk.emails => disk.emails[i].status = "unknown")

\* A card still to be answered, and an email that went, have an entry that
\* closes their kind, unless the desk lost sight of one.
InSight ==
  \A o \in Orders, k \in Kinds : <<o, k>> \notin excused =>
    /\ copies[o][k] <= 1
    /\ copies[o][k] = 1 => \E i \in DOMAIN rec.emails : SentBy(i, o, k)
    /\ \A a \in DOMAIN approvals : AsksFor(a, o, k) =>
         /\ copies[o][k] = 0
         /\ \A b \in DOMAIN approvals : AsksFor(b, o, k) => a = b
         /\ \E i \in DOMAIN rec.emails : WaitsFor(i, a, o, k)

ByHand == {"in_progress", "declined", "delivered"}

MovedBy(o, i) ==
  LET e == rec.emails[i]
  IN e.order = o /\ e.status = "sent" /\ e.kind \in Answering /\ order[o].status = Target[e.kind]

\* An order settled since the run read it was settled by hand, or by the run
\* itself in a call whose answer was lost.
SettledSince ==
  pc # "idle" =>
    \A o \in Orders :
      order[o].status \in ByHand /\ seen[o].status \in {"paid", "quote_requested"} /\ o \notin late
        => \E i \in DOMAIN rec.emails : MovedBy(o, i)

IInv ==
  /\ TypeOK /\ SavedAhead /\ RecordHolds(rec) /\ RecordHolds(disk)
  /\ ListedWent /\ InSight /\ SettledSince

-----------------------------------------------------------------------------
(* What the operators of the model return. *)

LEMMA CapsAreNumbers ==
  MaxEmails \in Nat /\ MaxCards \in Nat /\ RetryStatus \in Nat /\ Patience \in Nat
BY CapsTyped

LEMMA OrdersOfAge ==
  ASSUME NEW i \in DOMAIN Age
  PROVE  Age[i] \in Orders /\ i \in Nat /\ i + 1 \in Nat
<1>1. Age \in Seq(Orders)
  BY OrdersTyped
<1>2. i \in Nat
  BY <1>1
<1> QED BY <1>2 DEF Orders

LEMMA PlanIsKind ==
  ASSUME NEW o \in Orders
  PROVE  Plan(o) \in Kinds \cup {None}
BY DEF Plan, Kinds, Acks

\* An entry appended is the last one, and the others stay where they are.
LEMMA EmailAppended ==
  ASSUME rec \in Record, NEW e \in Email, Noted(e)
  PROVE  /\ rec' \in Record /\ rec'.cards = rec.cards
         /\ Len(rec.emails) \in Nat
         /\ DOMAIN rec.emails = 1 .. Len(rec.emails)
         /\ DOMAIN rec'.emails = DOMAIN rec.emails \cup {Len(rec.emails) + 1}
         /\ \A i \in DOMAIN rec.emails : rec'.emails[i] = rec.emails[i]
         /\ rec'.emails[Len(rec.emails) + 1] = e
<1>1. rec.emails \in Seq(Email) /\ rec.cards \in [Orders -> [posted : BOOLEAN, tries : Nat]]
  BY DEF Record
<1>2. rec' = [rec EXCEPT !.emails = Append(rec.emails, e)]
  BY DEF Noted
<1>3. rec'.emails = Append(rec.emails, e) /\ rec'.cards = rec.cards
  BY <1>2 DEF Record
<1>4. Append(rec.emails, e) \in Seq(Email)
  BY <1>1
<1>5. rec' \in Record
  BY <1>1, <1>2, <1>3, <1>4 DEF Record
<1> QED BY <1>1, <1>3, <1>5

LEMMA EntryIsEmail ==
  ASSUME NEW o \in Orders, NEW k \in Kinds,
         NEW s \in {"pending_approval", "sent", "failed", "unknown", "unreachable"},
         NEW n \in Nat
  PROVE  /\ Entry(o, k, s) \in Email
         /\ [Entry(o, k, s) EXCEPT !.approval = n] \in Email
         /\ [Entry(o, k, s) EXCEPT !.approval = n].approval = n
         /\ \A e \in {Entry(o, k, s), [Entry(o, k, s) EXCEPT !.approval = n]} :
              e.order = o /\ e.kind = k /\ e.status = s
<1>1. Entry(o, k, s) \in Email
  BY DEF Entry, Email
<1>2. /\ Entry(o, k, s).order = o /\ Entry(o, k, s).kind = k /\ Entry(o, k, s).status = s
  BY DEF Entry
<1>3. \A e \in Email :
        LET f == [e EXCEPT !.approval = n]
        IN f \in Email /\ f.approval = n /\ f.order = e.order /\ f.kind = e.kind
             /\ f.status = e.status
  BY DEF Email
<1> QED BY <1>1, <1>2, <1>3

\* Waiting on makes an email older, and changes nothing else of it.
LEMMA OlderIsEmail ==
  ASSUME NEW e \in Email
  PROVE  /\ Older(e) \in Email
         /\ Older(e).order = e.order /\ Older(e).kind = e.kind
         /\ Older(e).approval = e.approval /\ Older(e).status = e.status
<1> DEFINE n == IF e.waited < Patience THEN e.waited + 1 ELSE e.waited
<1>1. n \in Nat
  <2>1. e.waited \in Nat
    BY DEF Email
  <2> QED BY <2>1
<1>2. Older(e) = [e EXCEPT !.waited = n]
  BY DEF Older
<1> HIDE DEF n
<1>3. [e EXCEPT !.waited = n] \in Email
  BY <1>1 DEF Email
<1> QED BY <1>2, <1>3 DEF Email

\* Following an email up changes what it is waiting for, and nothing else of it.
LEMMA FollowedIsEmail ==
  ASSUME NEW e \in Email
  PROVE  /\ Followed(e) \in Email
         /\ Followed(e).order = e.order /\ Followed(e).kind = e.kind
         /\ Followed(e).approval = e.approval
         /\ Followed(e).status \in {e.status, "denied", "sent", "failed", "undelivered", "unknown"}
         /\ e.status # "pending_approval" => Followed(e) = e
         /\ approvals[e.approval].status = "pending" => Followed(e).status = e.status
<1> DEFINE As(s) == [e EXCEPT !.status = s]
<1>1. \A s \in {"denied", "sent", "failed", "undelivered", "unknown"} :
        /\ As(s) \in Email /\ As(s).order = e.order /\ As(s).kind = e.kind
        /\ As(s).approval = e.approval /\ As(s).status = s
  BY DEF Email
<1>2. \/ Followed(e) \in {e, Older(e)}
      \/ \E s \in {"denied", "sent", "failed", "undelivered", "unknown"} : Followed(e) = As(s)
  BY DEF Followed
<1>3. /\ e.status # "pending_approval" => Followed(e) = e
      /\ approvals[e.approval].status = "pending" => Followed(e) \in {e, Older(e)}
  BY DEF Followed
<1> HIDE DEF As
<1> QED BY <1>1, <1>2, <1>3, OlderIsEmail

LEMMA SentWasApproved ==
  ASSUME NEW e \in Email, Followed(e).status = "sent"
  PROVE  \/ e.status = "sent"
         \/ e.status = "pending_approval" /\ (approvals[e.approval].result = "approved" \/ Shown(e))
<1>1. CASE e.status # "pending_approval"
  BY <1>1 DEF Followed
<1>2. CASE e.status = "pending_approval"
  <2>1. Older(e).status # "sent"
    BY <1>2, OlderIsEmail
  <2>2. \A s \in {"denied", "failed", "undelivered", "unknown"} :
          [e EXCEPT !.status = s].status # "sent"
    BY DEF Email
  <2> QED BY <1>2, <2>1, <2>2 DEF Followed
<1> QED BY <1>1, <1>2

\* An email that its yes sent is offered again only when that yes was lost.
LEMMA OfferedAgainWasLost ==
  ASSUME NEW e \in Email, e.status = "pending_approval", Followed(e).status = "undelivered",
         approvals[e.approval].result \in Delivered
  PROVE  approvals[e.approval].result = "lost"
<1>1. Older(e).status # "undelivered"
  BY OlderIsEmail
<1>2. \A s \in {"denied", "failed", "sent", "unknown"} :
        [e EXCEPT !.status = s].status # "undelivered"
  BY DEF Email
<1> QED BY <1>1, <1>2 DEF Followed, Delivered

-----------------------------------------------------------------------------
(* What a step leaves of the invariant that keeps every email's fate. *)

\* The step may mark an entry as moved, or change its tries, and nothing else.
SameFates ==
  /\ DOMAIN rec'.emails = DOMAIN rec.emails
  /\ \A i \in DOMAIN rec.emails :
       LET was == rec.emails[i]
           is == rec'.emails[i]
       IN /\ is.order = was.order /\ is.kind = was.kind
          /\ is.approval = was.approval /\ is.status = was.status

LEMMA SettledAsBefore ==
  ASSUME SameFates
  PROVE  \A o, k : Settled(rec', o, k) <=> Settled(rec, o, k)
BY DEF SameFates, Settled

\* A reading is the one the run had, or it is taken now.
StillRead ==
  \/ pc' = "idle"
  \/ \A o \in Orders : seen'[o].messages = order[o].messages
  \/ pc # "idle" /\ \A o \in Orders : seen'[o].messages = seen[o].messages

LEMMA FatesKeep ==
  ASSUME IInv, SameFates, StillRead, UNCHANGED <<disk, copies, approvals, excused>>,
         \A o \in Orders : order'[o].messages = order[o].messages,
         pc' \in {"idle", "follow"} => rec' = disk
  PROVE  /\ SavedAhead' /\ RecordHolds(rec)' /\ RecordHolds(disk)'
         /\ ListedWent' /\ InSight'
<1>1. SavedAhead'
  BY DEF IInv, SavedAhead, SameFates
<1>2. RecordHolds(rec)'
  <2>1. KnowsItsCard(rec)'
    BY DEF IInv, RecordHolds, KnowsItsCard, SameFates
  <2>2. SentWent(rec)'
    BY DEF IInv, RecordHolds, SentWent, SameFates
  <2>3. OneAnswer(rec)'
    BY SettledAsBefore DEF IInv, RecordHolds, OneAnswer
  <2> QED BY <2>1, <2>2, <2>3 DEF RecordHolds
<1>3. RecordHolds(disk)'
  BY DEF IInv, RecordHolds, KnowsItsCard, SentWent, OneAnswer, Settled
<1>4. ListedWent'
  BY DEF IInv, ListedWent, StillRead
<1>5. InSight'
  <2>1. \A i \in DOMAIN rec.emails : \A o, k :
          /\ SentBy(i, o, k) => SentBy(i, o, k)'
          /\ \A a : WaitsFor(i, a, o, k) => WaitsFor(i, a, o, k)'
    BY DEF SentBy, WaitsFor, InTheWay, SameFates
  <2>2. \A a, o, k : AsksFor(a, o, k)' <=> AsksFor(a, o, k)
    BY DEF AsksFor
  <2>3. DOMAIN rec'.emails = DOMAIN rec.emails
    BY DEF SameFates
  <2> QED BY <2>1, <2>2, <2>3 DEF IInv, InSight
<1> QED BY <1>1, <1>2, <1>3, <1>4, <1>5

\* An order is settled since only if it was, or is now, by hand.
LEMMA SettledKeeps ==
  ASSUME IInv, SameFates, UNCHANGED seen, pc # "idle", late \subseteq late',
         \A o \in Orders : \/ order'[o].status = order[o].status
                           \/ order'[o].status \notin ByHand
                           \/ o \in late'
  PROVE  SettledSince'
<1> SUFFICES ASSUME NEW o \in Orders, order'[o].status \in ByHand,
                    seen[o].status \in {"paid", "quote_requested"}, o \notin late'
             PROVE  \E i \in DOMAIN rec'.emails :
                      LET e == rec'.emails[i]
                      IN e.order = o /\ e.status = "sent" /\ e.kind \in Answering
                           /\ order'[o].status = Target[e.kind]
  BY DEF SettledSince, MovedBy
<1>1. order'[o].status = order[o].status /\ o \notin late
  OBVIOUS
<1>2. PICK i \in DOMAIN rec.emails : MovedBy(o, i)
  BY <1>1 DEF IInv, SettledSince
<1> QED BY <1>1, <1>2 DEF MovedBy, SameFates

LEMMA StandsStill ==
  ASSUME UNCHANGED rec
  PROVE  SameFates
BY DEF SameFates

-----------------------------------------------------------------------------
(* The client, the owner and Scrooge. *)

\* An order changes its status, its link or its screening: settled only by hand.
LEMMA ElsewhereKeeps ==
  ASSUME IInv, TypeOK', UNCHANGED <<disk, run, copies, approvals, excused>>,
         late \subseteq late',
         \A o \in Orders : /\ order'[o].messages = order[o].messages
                           /\ \/ order'[o].status = order[o].status
                              \/ order'[o].status \notin ByHand
                              \/ o \in late'
                              \/ pc = "idle"
  PROVE  IInv'
<1>1. UNCHANGED <<disk, rec, pc, seen, copies, approvals, excused>>
  BY DEF run
<1>2. SameFates
  BY <1>1, StandsStill
<1>3. StillRead /\ (pc' \in {"idle", "follow"} => rec' = disk)
  BY <1>1 DEF StillRead, IInv, SavedAhead
<1>4. SavedAhead' /\ RecordHolds(rec)' /\ RecordHolds(disk)' /\ ListedWent' /\ InSight'
  BY <1>1, <1>2, <1>3, FatesKeep
<1>5. SettledSince'
  <2>1. CASE pc = "idle"
    BY <1>1, <2>1 DEF SettledSince
  <2>2. CASE pc # "idle"
    BY <1>1, <1>2, <2>2, SettledKeeps
  <2> QED BY <2>1, <2>2
<1> QED BY <1>4, <1>5 DEF IInv

LEMMA BecomesReading ==
  ASSUME order \in Reading, NEW o \in Orders, NEW s \in Statuses, Becomes(o, s)
  PROVE  /\ order' \in Reading
         /\ \A p \in Orders : /\ order'[p].messages = order[p].messages
                              /\ order'[p].status \in {order[p].status, s}
                              /\ p = o \/ order'[p].status = order[p].status
BY DEF Becomes, Reading, Statuses

LEMMA PaysKeeps ==
  ASSUME IInv, NEW o \in Orders, Pays(o)
  PROVE  IInv'
<1>1. /\ Becomes(o, "paid")
      /\ UNCHANGED <<copies, cards, approvals, late, faults, disk, run, excused>>
  BY DEF Pays, Elsewhere
<1>2. order \in Reading /\ "paid" \in Statuses
  BY DEF IInv, TypeOK, Statuses
<1>3. /\ order' \in Reading
      /\ \A p \in Orders : /\ order'[p].messages = order[p].messages
                           /\ order'[p].status \in {order[p].status, "paid"}
  BY <1>1, <1>2, BecomesReading
<1>4. TypeOK'
  BY <1>1, <1>3 DEF IInv, TypeOK, run
<1> QED BY <1>1, <1>3, <1>4, ElsewhereKeeps DEF ByHand

LEMMA AgesKeeps ==
  ASSUME IInv, NEW o \in Orders, Ages(o)
  PROVE  IInv'
<1>1. UNCHANGED <<copies, cards, approvals, late, faults, disk, run, excused>>
  BY DEF Ages, Elsewhere
<1>2. order \in Reading
  BY DEF IInv, TypeOK
<1>3. /\ order' \in Reading
      /\ \A p \in Orders : /\ order'[p].messages = order[p].messages
                           /\ order'[p].status = order[p].status
  BY <1>2 DEF Ages, Reading
<1>4. TypeOK'
  BY <1>1, <1>3 DEF IInv, TypeOK, run
<1> QED BY <1>1, <1>3, <1>4, ElsewhereKeeps

LEMMA QuotesKeeps ==
  ASSUME IInv, NEW o \in Orders, Quotes(o)
  PROVE  IInv'
<1>1. /\ Becomes(o, "quoted")
      /\ UNCHANGED <<copies, cards, approvals, late, faults, disk, run, excused>>
  BY DEF Quotes, Elsewhere
<1>2. order \in Reading /\ "quoted" \in Statuses
  BY DEF IInv, TypeOK, Statuses
<1>3. /\ order' \in Reading
      /\ \A p \in Orders : /\ order'[p].messages = order[p].messages
                           /\ order'[p].status \in {order[p].status, "quoted"}
  BY <1>1, <1>2, BecomesReading
<1>4. TypeOK'
  BY <1>1, <1>3 DEF IInv, TypeOK, run
<1> QED BY <1>1, <1>3, <1>4, ElsewhereKeeps DEF ByHand

LEMMA MovesByHandKeeps ==
  ASSUME IInv, NEW o \in Orders, MovesByHand(o)
  PROVE  IInv'
<1>1. PICK s \in {"in_progress", "declined"} : Becomes(o, s)
  BY DEF MovesByHand
<1>2. /\ late' = IF pc = "idle" THEN late ELSE late \cup {o}
      /\ UNCHANGED <<copies, cards, approvals, faults, disk, run, excused>>
  BY DEF MovesByHand, Elsewhere
<1>3. order \in Reading /\ s \in Statuses
  BY DEF IInv, TypeOK, Statuses
<1>4. /\ order' \in Reading
      /\ \A p \in Orders : /\ order'[p].messages = order[p].messages
                           /\ p = o \/ order'[p].status = order[p].status
  BY <1>1, <1>3, BecomesReading
<1>5. TypeOK'
  BY <1>2, <1>4 DEF IInv, TypeOK, run
<1>6. /\ late \subseteq late'
      /\ \A p \in Orders : p = o => p \in late' \/ pc = "idle"
  BY <1>2
<1>7. \A p \in Orders : /\ order'[p].messages = order[p].messages
                        /\ \/ order'[p].status = order[p].status
                           \/ order'[p].status \notin ByHand
                           \/ p \in late'
                           \/ pc = "idle"
  <2> SUFFICES ASSUME NEW p \in Orders
               PROVE  /\ order'[p].messages = order[p].messages
                      /\ order'[p].status = order[p].status \/ p \in late' \/ pc = "idle"
    OBVIOUS
  <2>1. CASE p = o
    BY <1>4, <1>6, <2>1
  <2>2. CASE p # o
    BY <1>4, <2>2
  <2> QED BY <2>1, <2>2
<1> QED BY <1>2, <1>5, <1>6, <1>7, ElsewhereKeeps

LEMMA RescreensKeeps ==
  ASSUME IInv, NEW o \in Orders, Rescreens(o)
  PROVE  IInv'
<1>1. UNCHANGED <<copies, cards, approvals, late, disk, run, excused>>
  BY DEF Rescreens, Elsewhere
<1>2. order \in Reading /\ faults' \in Nat
  BY DEF IInv, TypeOK, Rescreens, Fault
<1>3. /\ order' \in Reading
      /\ \A p \in Orders : /\ order'[p].messages = order[p].messages
                           /\ order'[p].status = order[p].status
  BY <1>2 DEF Rescreens, Reading
<1>4. TypeOK'
  BY <1>1, <1>2, <1>3 DEF IInv, TypeOK, run
<1> QED BY <1>1, <1>3, <1>4, ElsewhereKeeps

\* A sequence with one item replaced.
LEMMA Replaced ==
  ASSUME NEW S, NEW q \in Seq(S), NEW i \in DOMAIN q, NEW x \in S
  PROVE  [q EXCEPT ![i] = x] \in Seq(S)
OBVIOUS

\* What answering a card does to the cards: this one is answered, no other changes.
LEMMA CardAnswered ==
  ASSUME TypeOK, NEW a \in DOMAIN approvals,
         NEW s \in {"running", "denied"},
         NEW r \in Results,
         \/ approvals' = [approvals EXCEPT ![a].status = s] /\ r = approvals[a].result
         \/ approvals' = [approvals EXCEPT ![a].status = s, ![a].result = r]
  PROVE  /\ approvals' \in Seq(Approval)
         /\ DOMAIN approvals' = DOMAIN approvals
         /\ approvals'[a].status = s /\ approvals'[a].result = r
         /\ \A b \in DOMAIN approvals : /\ approvals'[b].order = approvals[b].order
                                        /\ approvals'[b].kind = approvals[b].kind
                                        /\ b # a => approvals'[b] = approvals[b]
<1>0. approvals \in Seq(Approval)
  BY DEF TypeOK
<1>1. approvals \in Seq(Approval) /\ approvals[a] \in Approval
  BY <1>0
<1>2. PICK f \in Approval : /\ approvals' = [approvals EXCEPT ![a] = f]
                            /\ f.status = s /\ f.result = r
                            /\ f.order = approvals[a].order /\ f.kind = approvals[a].kind
  <2>1. CASE approvals' = [approvals EXCEPT ![a].status = s] /\ r = approvals[a].result
    <3> DEFINE f == [approvals[a] EXCEPT !.status = s]
    <3>1. /\ f \in Approval /\ f.status = s /\ f.result = r
          /\ f.order = approvals[a].order /\ f.kind = approvals[a].kind
      BY <1>1, <2>1 DEF Approval
    <3>2. approvals' = [approvals EXCEPT ![a] = f]
      BY <2>1
    <3> HIDE DEF f
    <3> QED BY <3>1, <3>2
  <2>2. CASE approvals' = [approvals EXCEPT ![a].status = s, ![a].result = r]
    <3> DEFINE f == [approvals[a] EXCEPT !.status = s, !.result = r]
    <3>1. /\ f \in Approval /\ f.status = s /\ f.result = r
          /\ f.order = approvals[a].order /\ f.kind = approvals[a].kind
      BY <1>1 DEF Approval
    <3>2. approvals' = [approvals EXCEPT ![a] = f]
      BY <2>2
    <3> HIDE DEF f
    <3> QED BY <3>1, <3>2
  <2> QED BY <2>1, <2>2
<1>3. approvals' \in Seq(Approval)
  <2> DEFINE q == approvals
  <2>1. q \in Seq(Approval) /\ a \in DOMAIN q /\ approvals' = [q EXCEPT ![a] = f]
    BY <1>1, <1>2
  <2> HIDE DEF q
  <2> QED BY <2>1, Replaced
<1>4. DOMAIN approvals' = DOMAIN approvals /\ approvals'[a] = f
      /\ \A b \in DOMAIN approvals : b # a => approvals'[b] = approvals[b]
  BY <1>2
<1> QED BY <1>2, <1>3, <1>4

\* What sending an email does: one more copy, and it is listed with the order.
LEMMA CopyDelivered ==
  ASSUME TypeOK, NEW o \in Orders, NEW k \in Kinds, Delivers(o, k)
  PROVE  /\ order' \in Reading /\ copies' \in [Orders -> [Kinds -> Nat]]
         /\ copies'[o][k] = copies[o][k] + 1
         /\ \A p \in Orders, j \in Kinds : p # o \/ j # k => copies'[p][j] = copies[p][j]
         /\ \A p \in Orders : /\ order'[p].status = order[p].status
                              /\ order'[p].messages \subseteq order[p].messages \cup {k}
                              /\ p # o => order'[p].messages = order[p].messages
<1>1. order \in Reading /\ copies \in [Orders -> [Kinds -> Nat]]
  BY DEF TypeOK
<1>2. /\ order' = [order EXCEPT ![o].messages = order[o].messages \cup {k}]
      /\ copies' = [copies EXCEPT ![o][k] = copies[o][k] + 1]
  BY DEF Delivers
<1>3. /\ order' \in Reading
      /\ \A p \in Orders : /\ order'[p].status = order[p].status
                           /\ order'[p].messages \subseteq order[p].messages \cup {k}
                           /\ p # o => order'[p].messages = order[p].messages
  <2>1. order[o].messages \cup {k} \in SUBSET Kinds
    BY <1>1 DEF Reading
  <2> DEFINE listed == order[o].messages \cup {k}
  <2>2. order' = [order EXCEPT ![o].messages = listed]
    BY <1>2
  <2>3. listed \in SUBSET Kinds /\ order[o].messages \subseteq listed
        /\ listed \subseteq order[o].messages \cup {k}
    BY <2>1
  <2> HIDE DEF listed
  <2> QED BY <1>1, <2>2, <2>3 DEF Reading
<1>4. /\ copies' \in [Orders -> [Kinds -> Nat]]
      /\ copies'[o][k] = copies[o][k] + 1
      /\ \A p \in Orders, j \in Kinds : p # o \/ j # k => copies'[p][j] = copies[p][j]
  <2> DEFINE n == copies[o][k] + 1
  <2>1. n \in Nat
    <3>1. copies[o][k] \in Nat
      BY <1>1
    <3> QED BY <3>1
  <2>2. copies' = [copies EXCEPT ![o][k] = n]
    BY <1>2
  <2>3. n = copies[o][k] + 1
    OBVIOUS
  <2> HIDE DEF n
  <2> QED BY <1>1, <2>1, <2>2, <2>3
<1> QED BY <1>3, <1>4

\* Once the only card of its order and kind is answered there is none left, and
\* the entry that knows it closes the kind.
LEMMA AnswersKeeps ==
  ASSUME IInv, NEW a \in DOMAIN approvals, Answers(a)
  PROVE  IInv'
<1> DEFINE o == approvals[a].order
<1> DEFINE k == approvals[a].kind
<1>1. o \in Orders /\ k \in Kinds /\ approvals[a] \in Approval
  <2>1. approvals[a] \in Approval
    BY DEF IInv, TypeOK
  <2> QED BY <2>1 DEF Approval
<1>2. /\ approvals[a].status = "pending"
      /\ UNCHANGED <<cards, late, disk, rec, pc, at, count, seen, excused>>
      /\ faults' \in Nat
  BY DEF Answers, Elsewhere, run, Fine, Fault, IInv, TypeOK
<1>3. PICK s \in {"running", "denied"}, r \in Results :
        /\ \/ approvals' = [approvals EXCEPT ![a].status = s] /\ r = approvals[a].result
           \/ approvals' = [approvals EXCEPT ![a].status = s, ![a].result = r]
        /\ \/ Delivers(o, k) /\ r \in Delivered
           \/ UNCHANGED <<order, copies>> /\ (r \in Delivered => r = approvals[a].result)
  <2>1. CASE /\ approvals' = [approvals EXCEPT ![a].status = "denied"]
             /\ UNCHANGED <<order, copies>>
    <3>1. approvals[a].result \in Results
      BY <1>1 DEF Approval
    <3> QED BY <2>1, <3>1
  <2>2. ASSUME NEW r \in {"approved", "lost"}, Delivers(o, k),
               approvals' = [approvals EXCEPT ![a].status = "running", ![a].result = r]
        PROVE  \E s \in {"running", "denied"},
                  t \in Results :
                 /\ \/ approvals' = [approvals EXCEPT ![a].status = s] /\ t = approvals[a].result
                    \/ approvals' = [approvals EXCEPT ![a].status = s, ![a].result = t]
                 /\ \/ Delivers(o, k) /\ t \in Delivered
                    \/ UNCHANGED <<order, copies>> /\ (t \in Delivered => t = approvals[a].result)
    BY <2>2 DEF Delivered, Results
  <2>3. ASSUME NEW r \in {"refused", "unavailable"}, UNCHANGED <<order, copies>>,
               approvals' = [approvals EXCEPT ![a].status = "running", ![a].result = r]
        PROVE  \E s \in {"running", "denied"},
                  t \in Results :
                 /\ \/ approvals' = [approvals EXCEPT ![a].status = s] /\ t = approvals[a].result
                    \/ approvals' = [approvals EXCEPT ![a].status = s, ![a].result = t]
                 /\ \/ Delivers(o, k) /\ t \in Delivered
                    \/ UNCHANGED <<order, copies>> /\ (t \in Delivered => t = approvals[a].result)
    BY <2>3 DEF Delivered, Results
  <2> QED BY <2>1, <2>2, <2>3 DEF Answers
<1>4. /\ Delivers(o, k) \/ UNCHANGED <<order, copies>>
      /\ r \in Delivered => Delivers(o, k) \/ r = approvals[a].result
      /\ Delivers(o, k) /\ copies' # copies => r \in Delivered
  BY <1>3
<1>5. /\ approvals' \in Seq(Approval)
      /\ DOMAIN approvals' = DOMAIN approvals
      /\ approvals'[a].status # "pending" /\ approvals'[a].result = r
      /\ \A b \in DOMAIN approvals : /\ approvals'[b].order = approvals[b].order
                                     /\ approvals'[b].kind = approvals[b].kind
                                     /\ b # a => approvals'[b] = approvals[b]
  BY <1>3, CardAnswered DEF IInv
<1> HIDE DEF o, k
<1>6. /\ order' \in Reading /\ copies' \in [Orders -> [Kinds -> Nat]]
      /\ copies'[o][k] \in {copies[o][k], copies[o][k] + 1}
      /\ r \in Delivered => copies'[o][k] = copies[o][k] + 1 \/ r = approvals[a].result
      /\ copies'[o][k] = copies[o][k] + 1 => r \in Delivered
      /\ \A p \in Orders, j \in Kinds : p # o \/ j # k => copies'[p][j] = copies[p][j]
      /\ \A p \in Orders :
           /\ order'[p].status = order[p].status
           /\ \A j \in order'[p].messages :
                j \in order[p].messages \/ (p = o /\ j = k /\ copies'[o][k] = copies[o][k] + 1)
  <2>1. CASE Delivers(o, k) /\ r \in Delivered
    BY <1>1, <2>1, CopyDelivered DEF IInv
  <2>2. CASE UNCHANGED <<order, copies>> /\ (r \in Delivered => r = approvals[a].result)
    <3>1. copies[o][k] \in Nat
      BY <1>1 DEF IInv, TypeOK
    <3>2. copies'[o][k] # copies[o][k] + 1
      BY <2>2, <3>1
    <3> QED BY <2>2, <3>2 DEF IInv, TypeOK
  <2> QED BY <1>3, <2>1, <2>2
<1>7. /\ \A p \in Orders, j \in Kinds : copies[p][j] \in Nat /\ copies'[p][j] >= copies[p][j]
      /\ \A p \in Orders : order[p].messages \subseteq Kinds
      /\ \A b \in DOMAIN approvals : approvals[b].order \in Orders /\ approvals[b].kind \in Kinds
  <2>1. \A p \in Orders, j \in Kinds : copies[p][j] \in Nat
    BY DEF IInv, TypeOK
  <2>2. \A b \in DOMAIN approvals : approvals[b] \in Approval
    BY DEF IInv, TypeOK
  <2>3. ASSUME NEW p \in Orders, NEW j \in Kinds
        PROVE  copies'[p][j] >= copies[p][j]
    <3>1. CASE p = o /\ j = k
      BY <1>6, <2>1, <3>1
    <3>2. CASE p # o \/ j # k
      <4>1. copies'[p][j] = copies[p][j]
        BY <1>6, <3>2
      <4> QED BY <2>1, <4>1
    <3> QED BY <3>1, <3>2
  <2>4. /\ \A p \in Orders : order[p].messages \subseteq Kinds
        /\ \A b \in DOMAIN approvals : approvals[b].order \in Orders /\ approvals[b].kind \in Kinds
    BY <2>2 DEF IInv, TypeOK, Reading, Approval
  <2> QED BY <2>1, <2>3, <2>4
<1>8. TypeOK'
  BY <1>2, <1>5, <1>6 DEF IInv, TypeOK
<1>9. SavedAhead'
  BY <1>2 DEF IInv, SavedAhead
<1>10. ASSUME NEW record \in {rec, disk}
       PROVE  /\ \A i \in DOMAIN record.emails : /\ record.emails[i].order \in Orders
                                                 /\ record.emails[i].kind \in Kinds
  <2>1. record.emails \in Seq(Email)
    BY DEF IInv, TypeOK, Record
  <2>2. \A i \in DOMAIN record.emails : record.emails[i] \in Email
    BY <2>1
  <2> QED BY <2>2 DEF Email
<1>11. RecordHolds(rec)' /\ RecordHolds(disk)'
  <2>1. KnowsItsCard(rec)' /\ KnowsItsCard(disk)'
    BY <1>2, <1>5 DEF IInv, RecordHolds, KnowsItsCard
  <2>2. SentWent(rec)' /\ SentWent(disk)'
    BY <1>2, <1>7, <1>10, <1>6 DEF IInv, RecordHolds, SentWent
  <2>3. OneAnswer(rec)' /\ OneAnswer(disk)'
    BY <1>2 DEF IInv, RecordHolds, OneAnswer, Settled
  <2> QED BY <2>1, <2>2, <2>3 DEF RecordHolds
<1>12. ListedWent'
  <2>1. \A p \in Orders, j \in Kinds : copies[p][j] > 0 => copies'[p][j] > 0
    <3> SUFFICES ASSUME NEW p \in Orders, NEW j \in Kinds, copies[p][j] > 0
                 PROVE  copies'[p][j] > 0
      OBVIOUS
    <3>1. copies[p][j] \in Nat /\ copies'[p][j] \in Nat /\ copies'[p][j] >= copies[p][j]
      BY <1>6, <1>7
    <3> QED BY <3>1
  <2>2. copies'[o][k] = copies[o][k] + 1 => copies'[o][k] > 0
    BY <1>1, <1>7
  <2>3. ASSUME NEW p \in Orders, NEW j \in order'[p].messages
        PROVE  copies'[p][j] > 0
    BY <1>6, <1>7, <2>1, <2>2, <2>3 DEF IInv, ListedWent
  <2>4. ASSUME pc # "idle", NEW p \in Orders, NEW j \in seen[p].messages
        PROVE  copies'[p][j] > 0
    <3>1. j \in Kinds /\ copies[p][j] > 0
      BY <2>4 DEF IInv, ListedWent, TypeOK, Reading
    <3> QED BY <2>1, <3>1
  <2>5. ASSUME NEW b \in DOMAIN approvals, approvals'[b].result \in Delivered
        PROVE  copies'[approvals'[b].order][approvals'[b].kind] > 0
    <3>1. CASE b = a
      <4>1. r \in Delivered /\ approvals'[b].order = o /\ approvals'[b].kind = k
        BY <1>5, <2>5, <3>1 DEF o, k
      <4>2. r = approvals[a].result => copies[o][k] > 0
        BY <4>1 DEF IInv, ListedWent, o, k
      <4> QED BY <1>1, <1>6, <2>1, <2>2, <4>1, <4>2
    <3>2. CASE b # a
      BY <1>5, <1>7, <2>1, <2>5, <3>2 DEF IInv, ListedWent
    <3> QED BY <3>1, <3>2
  <2> QED BY <1>2, <1>5, <2>3, <2>4, <2>5 DEF ListedWent
<1>13. InSight'
  <2>1. ASSUME NEW b \in DOMAIN approvals, NEW p, NEW j, AsksFor(b, p, j)'
        PROVE  b # a /\ AsksFor(b, p, j)
    BY <1>5, <2>1 DEF AsksFor
  <2>2. ASSUME NEW i \in DOMAIN rec.emails, NEW p, NEW j
        PROVE  /\ InTheWay(i, p, j)' <=> InTheWay(i, p, j)
               /\ \A b : WaitsFor(i, b, p, j)' <=> WaitsFor(i, b, p, j)
    BY <1>2 DEF InTheWay, WaitsFor
  <2> SUFFICES ASSUME NEW p \in Orders, NEW j \in Kinds, <<p, j>> \notin excused
               PROVE  /\ copies'[p][j] <= 1
                      /\ copies'[p][j] = 1 => \E i \in DOMAIN rec.emails : SentBy(i, p, j)'
                      /\ \A b \in DOMAIN approvals : AsksFor(b, p, j)' =>
                           /\ copies'[p][j] = 0
                           /\ \A c \in DOMAIN approvals : AsksFor(c, p, j)' => b = c
                           /\ \E i \in DOMAIN rec.emails : WaitsFor(i, b, p, j)'
    BY <1>2, <1>5 DEF InSight
  <2>3. CASE p = o /\ j = k
    <3>1. AsksFor(a, p, j)
      BY <1>2, <2>3 DEF AsksFor, o, k
    <3>2. /\ copies[p][j] = 0
          /\ \A b \in DOMAIN approvals : AsksFor(b, p, j) => a = b
      BY <3>1 DEF IInv, InSight
    <3>3. PICK i \in DOMAIN rec.emails : WaitsFor(i, a, p, j)
      BY <3>1 DEF IInv, InSight
    <3>4. ASSUME copies'[p][j] = 1 PROVE SentBy(i, p, j)'
      <4>1. r \in Delivered
        BY <1>6, <2>3, <3>2, <3>4
      <4>2. InTheWay(i, p, j)'
        BY <2>2, <3>3 DEF WaitsFor
      <4>3. CASE rec.emails[i].status = "pending_approval" /\ rec.emails[i].approval = a
        BY <1>2, <1>5, <4>1, <4>2, <4>3 DEF SentBy
      <4>4. CASE /\ rec.emails[i].status = "unknown"
                 /\ i \in DOMAIN disk.emails => disk.emails[i].status = "unknown"
        BY <1>2, <4>2, <4>4 DEF SentBy
      <4> QED BY <3>3, <4>3, <4>4 DEF WaitsFor
    <3>5. copies'[p][j] <= 1
      BY <1>6, <2>3, <3>2
    <3>6. \A b \in DOMAIN approvals : ~ AsksFor(b, p, j)'
      BY <2>1, <3>2
    <3> QED BY <3>4, <3>5, <3>6
  <2>4. CASE p # o \/ j # k
    <3>1. copies'[p][j] = copies[p][j]
      BY <1>6, <2>4
    <3>2. ASSUME NEW i \in DOMAIN rec.emails, SentBy(i, p, j) PROVE SentBy(i, p, j)'
      <4>1. InTheWay(i, p, j)' /\ rec.emails[i].order = p /\ rec.emails[i].kind = j
        BY <2>2, <3>2 DEF SentBy, InTheWay
      <4>2. ASSUME \/ rec.emails[i].status = "pending_approval"
                   \/ i \in DOMAIN disk.emails /\ disk.emails[i].status = "pending_approval"
            PROVE  approvals'[rec.emails[i].approval].result \in Delivered
        <5>1. approvals[rec.emails[i].approval].result \in Delivered
          BY <3>2, <4>2 DEF SentBy
        <5>2. /\ rec.emails[i].approval \in DOMAIN approvals
              /\ approvals[rec.emails[i].approval].order = p
              /\ approvals[rec.emails[i].approval].kind = j
          BY <4>1, <4>2 DEF IInv, RecordHolds, KnowsItsCard, SavedAhead
        <5>3. rec.emails[i].approval # a
          BY <2>4, <5>2 DEF o, k
        <5> QED BY <1>5, <5>1, <5>2, <5>3
      <4> QED BY <1>2, <4>1, <4>2 DEF SentBy
    <3> QED BY <2>1, <2>2, <3>1, <3>2 DEF IInv, InSight
  <2> QED BY <2>3, <2>4
<1>14. SettledSince'
  BY <1>2, <1>6 DEF IInv, SettledSince, MovedBy
<1> QED BY <1>8, <1>9, <1>11, <1>12, <1>13, <1>14 DEF IInv

\* A card the owner has answered stays answered, whatever is written of it: its
\* order, kind and what came of it stay too.
LEMMA DecidedKeeps ==
  ASSUME IInv, NEW a \in DOMAIN approvals, NEW f \in Approval,
         approvals' = [approvals EXCEPT ![a] = f],
         f.order = approvals[a].order, f.kind = approvals[a].kind,
         f.result = approvals[a].result,
         f.status # "pending", approvals[a].status # "pending",
         UNCHANGED <<order, copies, cards, late, disk, run, excused>>, faults' \in Nat
  PROVE  IInv'
<1>1. UNCHANGED <<order, copies, cards, late, disk, rec, pc, at, count, seen, excused>>
  BY DEF run
<1>2. /\ approvals' \in Seq(Approval)
      /\ DOMAIN approvals' = DOMAIN approvals
      /\ \A b \in DOMAIN approvals : /\ approvals'[b].order = approvals[b].order
                                     /\ approvals'[b].kind = approvals[b].kind
                                     /\ approvals'[b].result = approvals[b].result
                                     /\ \/ approvals'[b].status = approvals[b].status
                                        \/ /\ approvals'[b].status # "pending"
                                           /\ approvals[b].status # "pending"
  <2>1. approvals \in Seq(Approval)
    BY DEF IInv, TypeOK
  <2> QED BY <2>1
<1>3. TypeOK' /\ SavedAhead'
  <2>1. TypeOK'
    BY <1>1, <1>2 DEF IInv, TypeOK
  <2>2. SavedAhead'
    BY <1>1 DEF IInv, SavedAhead
  <2> QED BY <2>1, <2>2
<1>4. RecordHolds(rec)' /\ RecordHolds(disk)'
  <2>1. KnowsItsCard(rec)' /\ KnowsItsCard(disk)'
    BY <1>1, <1>2 DEF IInv, RecordHolds, KnowsItsCard
  <2>2. SentWent(rec)' /\ SentWent(disk)' /\ OneAnswer(rec)' /\ OneAnswer(disk)'
    BY <1>1 DEF IInv, RecordHolds, SentWent, OneAnswer, Settled
  <2> QED BY <2>1, <2>2 DEF RecordHolds
<1>5. ListedWent'
  BY <1>1, <1>2 DEF IInv, ListedWent
<1>6. InSight'
  <2>1. \A b \in DOMAIN approvals : \A p, j : AsksFor(b, p, j)' <=> AsksFor(b, p, j)
    BY <1>2 DEF AsksFor
  <2>2. ASSUME NEW i \in DOMAIN rec.emails, NEW p, NEW j
        PROVE  /\ InTheWay(i, p, j)' <=> InTheWay(i, p, j)
               /\ \A b : WaitsFor(i, b, p, j)' <=> WaitsFor(i, b, p, j)
    BY <1>1 DEF InTheWay, WaitsFor
  <2>3. ASSUME NEW i \in DOMAIN rec.emails, NEW p, NEW j, SentBy(i, p, j)
        PROVE  SentBy(i, p, j)'
    <3>1. ASSUME \/ rec.emails[i].status = "pending_approval"
                 \/ i \in DOMAIN disk.emails /\ disk.emails[i].status = "pending_approval"
          PROVE  approvals'[rec.emails[i].approval].result \in Delivered
      <4>1. rec.emails[i].approval \in DOMAIN approvals
        BY <3>1 DEF IInv, RecordHolds, KnowsItsCard, SavedAhead
      <4> QED BY <1>2, <2>3, <3>1, <4>1 DEF SentBy
    <3> QED BY <1>1, <2>2, <2>3, <3>1 DEF SentBy
  <2> SUFFICES ASSUME NEW p \in Orders, NEW j \in Kinds, <<p, j>> \notin excused
               PROVE  /\ copies[p][j] <= 1
                      /\ copies[p][j] = 1 => \E i \in DOMAIN rec.emails : SentBy(i, p, j)'
                      /\ \A b \in DOMAIN approvals : AsksFor(b, p, j)' =>
                           /\ copies[p][j] = 0
                           /\ \A c \in DOMAIN approvals : AsksFor(c, p, j)' => b = c
                           /\ \E i \in DOMAIN rec.emails : WaitsFor(i, b, p, j)'
    BY <1>1, <1>2 DEF InSight
  <2>4. /\ copies[p][j] <= 1
        /\ copies[p][j] = 1 => \E i \in DOMAIN rec.emails : SentBy(i, p, j)
        /\ \A b \in DOMAIN approvals : AsksFor(b, p, j) =>
             /\ copies[p][j] = 0
             /\ \A c \in DOMAIN approvals : AsksFor(c, p, j) => b = c
             /\ \E i \in DOMAIN rec.emails : WaitsFor(i, b, p, j)
    BY DEF IInv, InSight
  <2> QED BY <2>1, <2>2, <2>3, <2>4
<1>7. SettledSince'
  BY <1>1 DEF IInv, SettledSince, MovedBy
<1> QED BY <1>3, <1>4, <1>5, <1>6, <1>7 DEF IInv

LEMMA SettlesKeeps ==
  ASSUME IInv, NEW a \in DOMAIN approvals, Settles(a)
  PROVE  IInv'
<1>1. PICK s \in {"ended", "denied"} : approvals' = [approvals EXCEPT ![a].status = s]
  BY DEF Settles
<1>2. /\ approvals[a].status = "running" /\ faults' \in Nat
      /\ UNCHANGED <<order, copies, cards, late, disk, run, excused>>
  BY DEF Settles, Elsewhere, Fine, Fault, IInv, TypeOK
<1>3. approvals[a] \in Approval
  BY DEF IInv, TypeOK
<1> DEFINE f == [approvals[a] EXCEPT !.status = s]
<1>4. /\ f \in Approval /\ f.order = approvals[a].order /\ f.kind = approvals[a].kind
      /\ f.result = approvals[a].result /\ f.status # "pending"
  BY <1>3 DEF Approval
<1>5. approvals' = [approvals EXCEPT ![a] = f]
  BY <1>1
<1> HIDE DEF f
<1> QED BY <1>2, <1>4, <1>5, DecidedKeeps

LEMMA ForgetsKeeps ==
  ASSUME IInv, NEW a \in DOMAIN approvals, Forgets(a)
  PROVE  IInv'
<1>1. /\ approvals' = [approvals EXCEPT ![a].listed = FALSE]
      /\ approvals[a].status \in {"denied", "ended"} /\ faults' \in Nat
      /\ UNCHANGED <<order, copies, cards, late, disk, run, excused>>
  BY DEF Forgets, Elsewhere, Fault, IInv, TypeOK
<1>2. approvals[a] \in Approval
  BY DEF IInv, TypeOK
<1> DEFINE f == [approvals[a] EXCEPT !.listed = FALSE]
<1>3. /\ f \in Approval /\ f.order = approvals[a].order /\ f.kind = approvals[a].kind
      /\ f.result = approvals[a].result /\ f.status # "pending"
  BY <1>1, <1>2 DEF Approval
<1>4. approvals' = [approvals EXCEPT ![a] = f]
  BY <1>1
<1> HIDE DEF f
<1> QED BY <1>1, <1>3, <1>4, DecidedKeeps

-----------------------------------------------------------------------------
(* A run of the desk. *)

LEMMA ReadOrdersKeeps ==
  ASSUME IInv, ReadOrders
  PROVE  IInv'
<1>1. /\ pc = "idle" /\ pc' = "follow" /\ rec' = disk /\ seen' = order /\ late' = {}
      /\ at' = 1 /\ count' = 0
      /\ UNCHANGED <<order, copies, cards, approvals, disk, excused, faults>>
  BY DEF ReadOrders, Turn
<1>2. rec' = rec
  BY <1>1 DEF IInv, SavedAhead
<1>3. SameFates /\ StillRead
  BY <1>1, <1>2, StandsStill DEF StillRead
<1>4. SavedAhead' /\ RecordHolds(rec)' /\ RecordHolds(disk)' /\ ListedWent' /\ InSight'
  BY <1>1, <1>3, FatesKeep
<1>5. TypeOK'
  BY <1>1, <1>2 DEF IInv, TypeOK
<1>6. SettledSince'
  BY <1>1 DEF SettledSince, ByHand
<1> QED BY <1>4, <1>5, <1>6 DEF IInv

\* The run dies: the record is what was saved, and every email it forgets is
\* out of sight.
LEMMA DiesKeeps ==
  ASSUME IInv, Dies
  PROVE  IInv'
<1>1. /\ pc' = "idle" /\ rec' = disk /\ seen' = None /\ late' = {}
      /\ at' = 1 /\ count' = 0 /\ faults' \in Nat
      /\ excused' = excused \cup {<<rec.emails[i].order, rec.emails[i].kind>> : i \in Unsaved}
      /\ UNCHANGED <<order, copies, cards, approvals, disk>>
  BY DEF Dies, Turn, Fault, IInv, TypeOK
<1>2. /\ rec.emails \in Seq(Email)
      /\ \A i \in DOMAIN rec.emails : rec.emails[i] \in Email
  BY DEF IInv, TypeOK, Record
<1>3. {<<rec.emails[i].order, rec.emails[i].kind>> : i \in Unsaved} \subseteq Orders \X Kinds
  <2> SUFFICES ASSUME NEW i \in Unsaved
               PROVE  <<rec.emails[i].order, rec.emails[i].kind>> \in Orders \X Kinds
    OBVIOUS
  <2>1. rec.emails[i].order \in Orders /\ rec.emails[i].kind \in Kinds
    BY <1>2 DEF Email, Unsaved
  <2> QED BY <2>1
<1>4. TypeOK'
  BY <1>1, <1>3 DEF IInv, TypeOK
<1>5. SavedAhead'
  BY <1>1 DEF SavedAhead
<1>6. RecordHolds(rec)' /\ RecordHolds(disk)'
  <2>1. RecordHolds(disk)'
    BY <1>1 DEF IInv, RecordHolds, KnowsItsCard, SentWent, OneAnswer, Settled
  <2> QED BY <1>1, <2>1 DEF RecordHolds, KnowsItsCard, SentWent, OneAnswer, Settled
<1>7. ListedWent'
  BY <1>1 DEF IInv, ListedWent
<1>8. ASSUME NEW o, NEW k, <<o, k>> \notin excused',
             NEW i \in DOMAIN rec.emails, InTheWay(i, o, k)
      PROVE  /\ i \in DOMAIN disk.emails
             /\ disk.emails[i].order = o /\ disk.emails[i].kind = k
             /\ disk.emails[i].approval = rec.emails[i].approval
             /\ disk.emails[i].status \in {rec.emails[i].status, "pending_approval"}
             /\ InTheWay(i, o, k)'
  <2>1. i \in DOMAIN disk.emails
    <3>1. i \notin Unsaved
      BY <1>1, <1>8 DEF InTheWay
    <3> QED BY <1>8, <3>1 DEF InTheWay, Unsaved
  <2>2. /\ disk.emails[i].order = o /\ disk.emails[i].kind = k
        /\ disk.emails[i].approval = rec.emails[i].approval
        /\ disk.emails[i].status \in {rec.emails[i].status, "pending_approval"}
    BY <1>8, <2>1 DEF IInv, SavedAhead, InTheWay
  <2>3. InTheWay(i, o, k)'
    BY <1>1, <1>8, <2>1, <2>2 DEF InTheWay, Retryable
  <2> QED BY <2>1, <2>2, <2>3
<1>9. InSight'
  <2> SUFFICES ASSUME NEW o \in Orders, NEW k \in Kinds, <<o, k>> \notin excused'
               PROVE  /\ copies[o][k] <= 1
                      /\ copies[o][k] = 1 => \E i \in DOMAIN disk.emails : SentBy(i, o, k)'
                      /\ \A a \in DOMAIN approvals : AsksFor(a, o, k) =>
                           /\ copies[o][k] = 0
                           /\ \A b \in DOMAIN approvals : AsksFor(b, o, k) => a = b
                           /\ \E i \in DOMAIN disk.emails : WaitsFor(i, a, o, k)'
    BY <1>1 DEF InSight, AsksFor
  <2>1. <<o, k>> \notin excused
    BY <1>1
  <2>2. ASSUME copies[o][k] = 1 PROVE \E i \in DOMAIN disk.emails : SentBy(i, o, k)'
    <3>1. PICK i \in DOMAIN rec.emails : SentBy(i, o, k)
      BY <2>1, <2>2 DEF IInv, InSight
    <3>2. /\ i \in DOMAIN disk.emails /\ InTheWay(i, o, k)'
          /\ disk.emails[i].approval = rec.emails[i].approval
          /\ disk.emails[i].status \in {rec.emails[i].status, "pending_approval"}
      BY <1>8, <3>1 DEF SentBy
    <3> QED BY <1>1, <3>1, <3>2 DEF SentBy
  <2>3. ASSUME NEW a \in DOMAIN approvals, AsksFor(a, o, k)
        PROVE  \E i \in DOMAIN disk.emails : WaitsFor(i, a, o, k)'
    <3>1. PICK i \in DOMAIN rec.emails : WaitsFor(i, a, o, k)
      BY <2>1, <2>3 DEF IInv, InSight
    <3>2. /\ i \in DOMAIN disk.emails /\ InTheWay(i, o, k)'
          /\ disk.emails[i].approval = rec.emails[i].approval
          /\ disk.emails[i].status \in {rec.emails[i].status, "pending_approval"}
      BY <1>8, <3>1 DEF WaitsFor
    <3> QED BY <1>1, <3>1, <3>2 DEF WaitsFor
  <2> QED BY <2>1, <2>2, <2>3 DEF IInv, InSight
<1>10. SettledSince'
  BY <1>1 DEF SettledSince
<1> QED BY <1>4, <1>5, <1>6, <1>7, <1>9, <1>10 DEF IInv

\* Every email waiting on the owner is looked at: those he has not answered
\* wait on, and one that the client has closes its kind or is let out of sight.
LEMMA FollowUpKeeps ==
  ASSUME IInv, FollowUp
  PROVE  IInv'
<1>0. PICK missed \in SUBSET Waiting :
        /\ IF missed = {} THEN Fine ELSE Fault
        /\ rec' = [rec EXCEPT !.emails = [i \in DOMAIN rec.emails |->
                     IF i \in missed THEN Older(rec.emails[i]) ELSE Followed(rec.emails[i])]]
        /\ excused' = excused \cup {<<rec.emails[i].order, rec.emails[i].kind>> :
                                      i \in {j \in DOMAIN rec.emails \ missed : Misjudged(j)}}
  BY DEF FollowUp
<1> DEFINE Look(i) == IF i \in missed THEN Older(rec.emails[i]) ELSE Followed(rec.emails[i])
<1>1. /\ pc = "follow" /\ pc' = "send" /\ at' = 1 /\ count' = 0
      /\ rec' = [rec EXCEPT !.emails = [i \in DOMAIN rec.emails |-> Look(i)]]
      /\ excused \subseteq excused' /\ faults' \in Nat
      /\ UNCHANGED <<order, copies, cards, approvals, late, disk, seen>>
  BY <1>0 DEF FollowUp, Turn, scrooge, Fine, Fault, IInv, TypeOK
<1>2. /\ rec \in Record /\ rec.emails \in Seq(Email)
      /\ \A i \in DOMAIN rec.emails : rec.emails[i] \in Email
  BY DEF IInv, TypeOK, Record
<1>21. \A i \in DOMAIN rec.emails :
         /\ Look(i) \in Email
         /\ Look(i) \in {Older(rec.emails[i]), Followed(rec.emails[i])}
         /\ i \notin missed => Look(i) = Followed(rec.emails[i])
         /\ i \in missed => Look(i).status = "pending_approval"
  <2> SUFFICES ASSUME NEW i \in DOMAIN rec.emails
               PROVE  /\ Look(i) \in Email
                      /\ i \in missed => Look(i).status = "pending_approval"
    OBVIOUS
  <2>1. /\ Older(rec.emails[i]) \in Email /\ Followed(rec.emails[i]) \in Email
        /\ Older(rec.emails[i]).status = rec.emails[i].status
    BY <1>2, OlderIsEmail, FollowedIsEmail
  <2> QED BY <1>0, <2>1 DEF Waiting
<1> HIDE DEF Look
<1>3. /\ rec'.emails = [i \in DOMAIN rec.emails |-> Look(i)]
      /\ DOMAIN rec'.emails = DOMAIN rec.emails
      /\ \A i \in DOMAIN rec.emails : rec'.emails[i] = Look(i)
  BY <1>1, <1>2 DEF Record
<1>4. rec' \in Record
  <2>1. rec'.emails \in Seq(Email)
    <3>1. DOMAIN rec.emails = 1 .. Len(rec.emails) /\ Len(rec.emails) \in Nat
      BY <1>2
    <3>2. \A i \in 1 .. Len(rec.emails) : Look(i) \in Email
      BY <1>21, <3>1
    <3>3. [i \in 1 .. Len(rec.emails) |-> Look(i)] \in Seq(Email)
      BY <3>1, <3>2
    <3> QED BY <1>3, <3>1, <3>3
  <2> DEFINE f == [i \in DOMAIN rec.emails |-> Look(i)]
  <2>2. f \in Seq(Email)
    BY <1>3, <2>1
  <2>3. rec' = [rec EXCEPT !.emails = f]
    BY <1>1
  <2> HIDE DEF f
  <2> QED BY <1>2, <2>2, <2>3 DEF Record
<1>5. \A i \in DOMAIN rec.emails :
        LET was == rec.emails[i]
            is == rec'.emails[i]
        IN /\ is.order = was.order /\ is.kind = was.kind /\ is.approval = was.approval
           /\ is.status \in {was.status, "denied", "sent", "failed", "undelivered", "unknown"}
           /\ was.status # "pending_approval" => is.status = was.status
           /\ approvals[was.approval].status = "pending" => is.status = was.status
  <2> SUFFICES ASSUME NEW i \in DOMAIN rec.emails
               PROVE  LET was == rec.emails[i]
                          is == Look(i)
                      IN /\ is.order = was.order /\ is.kind = was.kind
                         /\ is.approval = was.approval
                         /\ is.status \in {was.status, "denied", "sent", "failed",
                                           "undelivered", "unknown"}
                         /\ was.status # "pending_approval" => is.status = was.status
                         /\ approvals[was.approval].status = "pending" => is.status = was.status
    BY <1>3
  <2>1. rec.emails[i] \in Email
    BY <1>2
  <2>2. CASE Look(i) = Older(rec.emails[i])
    BY <2>1, <2>2, OlderIsEmail
  <2>3. CASE Look(i) = Followed(rec.emails[i])
    BY <2>1, <2>3, FollowedIsEmail
  <2> QED BY <1>21, <2>2, <2>3
<1>6. excused' \subseteq Orders \X Kinds
  <2> SUFFICES ASSUME NEW x \in excused' PROVE x \in Orders \X Kinds
    OBVIOUS
  <2>1. CASE x \in excused
    BY <2>1 DEF IInv, TypeOK
  <2>2. CASE x \notin excused
    <3>1. PICK i \in DOMAIN rec.emails : x = <<rec.emails[i].order, rec.emails[i].kind>>
      BY <1>0, <2>2
    <3>2. rec.emails[i].order \in Orders /\ rec.emails[i].kind \in Kinds
      BY <1>2 DEF Email
    <3> QED BY <3>1, <3>2
  <2> QED BY <2>1, <2>2
<1>7. TypeOK'
  BY <1>1, <1>4, <1>6 DEF IInv, TypeOK
<1>8. SavedAhead'
  <2>1. pc' \notin {"idle", "follow"}
    BY <1>1
  <2> SUFFICES ASSUME NEW i \in DOMAIN disk.emails
               PROVE  LET was == disk.emails[i]
                          is == rec'.emails[i]
                      IN /\ i \in DOMAIN rec'.emails
                         /\ is.order = was.order /\ is.kind = was.kind
                         /\ is.approval = was.approval
                         /\ was.status \in {is.status, "pending_approval"}
    BY <1>1, <2>1 DEF SavedAhead
  <2>2. /\ i \in DOMAIN rec.emails
        /\ rec.emails[i].order = disk.emails[i].order
        /\ rec.emails[i].kind = disk.emails[i].kind
        /\ rec.emails[i].approval = disk.emails[i].approval
        /\ disk.emails[i].status \in {rec.emails[i].status, "pending_approval"}
    BY DEF IInv, SavedAhead
  <2> QED BY <1>3, <1>5, <2>2
<1>9. \A o, k : Settled(rec', o, k) => Settled(rec, o, k)
  <2> SUFFICES ASSUME NEW o, NEW k, Settled(rec', o, k) PROVE Settled(rec, o, k)
    OBVIOUS
  <2>1. PICK i \in DOMAIN rec.emails :
          /\ rec'.emails[i].order = o /\ rec'.emails[i].kind = k
          /\ rec'.emails[i].status \notin Retryable
    BY <1>3 DEF Settled
  <2>2. rec.emails[i].status = "pending_approval" \/ rec.emails[i].status = rec'.emails[i].status
    BY <1>5
  <2> QED BY <1>5, <2>1, <2>2 DEF Settled, Retryable
<1>10. SentWent(rec)'
  <2> SUFFICES ASSUME NEW i \in DOMAIN rec.emails, rec'.emails[i].status = "sent"
               PROVE  copies[rec.emails[i].order][rec.emails[i].kind] > 0
    BY <1>1, <1>3, <1>5 DEF SentWent
  <2>0. i \notin missed
    BY <1>21, <1>3
  <2>1. rec.emails[i] \in Email /\ Followed(rec.emails[i]).status = "sent"
    BY <1>2, <1>3, <1>21, <2>0
  <2>2. CASE rec.emails[i].status = "sent"
    BY <2>2 DEF IInv, RecordHolds, SentWent
  <2>3. CASE /\ rec.emails[i].status = "pending_approval"
             /\ approvals[rec.emails[i].approval].result = "approved"
    BY <2>3 DEF IInv, RecordHolds, KnowsItsCard, ListedWent, Delivered
  <2>4. CASE Shown(rec.emails[i])
    BY <1>1, <2>1, <2>4 DEF Shown, IInv, ListedWent, Email
  <2> QED BY <2>1, <2>2, <2>3, <2>4, SentWasApproved
<1>11. RecordHolds(rec)'
  <2>1. KnowsItsCard(rec)'
    <3> SUFFICES ASSUME NEW i \in DOMAIN rec.emails, rec'.emails[i].status = "pending_approval"
                 PROVE  /\ rec'.emails[i].approval \in DOMAIN approvals
                        /\ approvals[rec'.emails[i].approval].order = rec'.emails[i].order
                        /\ approvals[rec'.emails[i].approval].kind = rec'.emails[i].kind
      BY <1>1, <1>3 DEF KnowsItsCard
    <3>1. /\ rec.emails[i].status = "pending_approval"
          /\ rec'.emails[i].approval = rec.emails[i].approval
          /\ rec'.emails[i].order = rec.emails[i].order
          /\ rec'.emails[i].kind = rec.emails[i].kind
      BY <1>5
    <3> QED BY <3>1 DEF IInv, RecordHolds, KnowsItsCard
  <2>2. OneAnswer(rec)'
    BY <1>9 DEF IInv, RecordHolds, OneAnswer
  <2> QED BY <1>10, <2>1, <2>2 DEF RecordHolds
<1>12. RecordHolds(disk)' /\ ListedWent'
  BY <1>1 DEF IInv, RecordHolds, KnowsItsCard, SentWent, OneAnswer, Settled, ListedWent
<1>13. InSight'
  <2> SUFFICES ASSUME NEW o \in Orders, NEW k \in Kinds, <<o, k>> \notin excused'
               PROVE  /\ copies[o][k] <= 1
                      /\ copies[o][k] = 1 => \E i \in DOMAIN rec'.emails : SentBy(i, o, k)'
                      /\ \A a \in DOMAIN approvals : AsksFor(a, o, k) =>
                           /\ copies[o][k] = 0
                           /\ \A b \in DOMAIN approvals : AsksFor(b, o, k) => a = b
                           /\ \E i \in DOMAIN rec'.emails : WaitsFor(i, a, o, k)'
    BY <1>1 DEF InSight, AsksFor
  <2>1. <<o, k>> \notin excused /\ rec = disk
    BY <1>1 DEF IInv, SavedAhead
  <2>2. ASSUME copies[o][k] = 1 PROVE \E i \in DOMAIN rec'.emails : SentBy(i, o, k)'
    <3>1. PICK i \in DOMAIN rec.emails : SentBy(i, o, k)
      BY <2>1, <2>2 DEF IInv, InSight
    <3>2. /\ rec.emails[i].order = o /\ rec.emails[i].kind = k
          /\ rec.emails[i].status \notin Retryable
          /\ rec.emails[i].status = "pending_approval" =>
               approvals[rec.emails[i].approval].result \in Delivered
      BY <3>1 DEF SentBy, InTheWay
    <3>3. rec'.emails[i].status # "undelivered"
      <4> SUFFICES ASSUME rec'.emails[i].status = "undelivered" PROVE FALSE
        OBVIOUS
      <4>1. i \notin missed /\ Followed(rec.emails[i]).status = "undelivered"
        BY <1>21, <1>3
      <4>2. rec.emails[i].status = "pending_approval"
        BY <1>5, <3>2 DEF Retryable
      <4>3. approvals[rec.emails[i].approval].result = "lost"
        BY <1>2, <3>2, <4>1, <4>2, OfferedAgainWasLost
      <4>4. Misjudged(i)
        BY <4>1, <4>2, <4>3 DEF Misjudged, Waiting
      <4>5. <<rec.emails[i].order, rec.emails[i].kind>> \in excused'
        BY <1>0, <4>1, <4>4
      <4> QED BY <3>2, <4>5
    <3>4. rec'.emails[i].status \notin Retryable
      BY <1>5, <3>2, <3>3 DEF Retryable
    <3>5. /\ rec'.emails[i].order = o /\ rec'.emails[i].kind = k
          /\ rec'.emails[i].approval = rec.emails[i].approval
          /\ rec'.emails[i].status = "pending_approval" =>
               rec.emails[i].status = "pending_approval"
      BY <1>5, <3>2
    <3>6. SentBy(i, o, k)'
      BY <1>1, <1>3, <2>1, <3>2, <3>4, <3>5 DEF SentBy, InTheWay
    <3> QED BY <1>3, <3>6
  <2>3. ASSUME NEW a \in DOMAIN approvals, AsksFor(a, o, k)
        PROVE  \E i \in DOMAIN rec'.emails : WaitsFor(i, a, o, k)'
    <3>1. PICK i \in DOMAIN rec.emails : WaitsFor(i, a, o, k)
      BY <2>1, <2>3 DEF IInv, InSight
    <3>2. /\ rec'.emails[i].order = rec.emails[i].order
          /\ rec'.emails[i].kind = rec.emails[i].kind
          /\ rec'.emails[i].approval = rec.emails[i].approval
          /\ rec'.emails[i].status = rec.emails[i].status
      BY <1>5, <2>3, <3>1 DEF AsksFor, WaitsFor
    <3>3. WaitsFor(i, a, o, k)'
      BY <1>1, <1>3, <3>1, <3>2 DEF WaitsFor, InTheWay
    <3> QED BY <1>3, <3>3
  <2> QED BY <2>1, <2>2, <2>3 DEF IInv, InSight
<1>14. SettledSince'
  <2> SUFFICES ASSUME NEW o \in Orders, order[o].status \in ByHand,
                      seen[o].status \in {"paid", "quote_requested"}, o \notin late
               PROVE  \E i \in DOMAIN rec'.emails :
                        LET e == rec'.emails[i]
                        IN e.order = o /\ e.status = "sent" /\ e.kind \in Answering
                             /\ order[o].status = Target[e.kind]
    BY <1>1 DEF SettledSince, MovedBy
  <2>1. PICK i \in DOMAIN rec.emails : MovedBy(o, i)
    BY <1>1 DEF IInv, SettledSince
  <2>2. /\ rec'.emails[i].order = rec.emails[i].order
        /\ rec'.emails[i].kind = rec.emails[i].kind
        /\ rec'.emails[i].status = rec.emails[i].status
    BY <1>5, <2>1 DEF MovedBy
  <2> QED BY <1>3, <2>1, <2>2 DEF MovedBy
<1> QED BY <1>7, <1>8, <1>11, <1>12, <1>13, <1>14 DEF IInv

LEMMA SaveKeeps ==
  ASSUME IInv, Save
  PROVE  IInv'
<1>1. /\ pc' = "idle" /\ disk' = rec /\ seen' = None /\ late' = {} /\ at' = 1 /\ count' = 0
      /\ UNCHANGED <<order, copies, cards, approvals, rec, excused, faults>>
  BY DEF Save, Turn
<1>2. TypeOK' /\ SavedAhead' /\ SettledSince'
  BY <1>1 DEF IInv, TypeOK, SavedAhead, SettledSince
<1>3. RecordHolds(rec)' /\ RecordHolds(disk)'
  BY <1>1 DEF IInv, RecordHolds, KnowsItsCard, SentWent, OneAnswer, Settled
<1>4. ListedWent' /\ InSight'
  <2>1. ListedWent'
    BY <1>1 DEF IInv, ListedWent
  <2>2. \A i \in DOMAIN rec.emails : \A o, k :
          /\ SentBy(i, o, k) => SentBy(i, o, k)'
          /\ \A a : WaitsFor(i, a, o, k) => WaitsFor(i, a, o, k)'
    BY <1>1 DEF SentBy, WaitsFor, InTheWay
  <2>3. \A a, o, k : AsksFor(a, o, k)' <=> AsksFor(a, o, k)
    BY <1>1 DEF AsksFor
  <2>4. InSight'
    <3> SUFFICES ASSUME NEW p \in Orders, NEW j \in Kinds, <<p, j>> \notin excused
                 PROVE  /\ copies[p][j] <= 1
                        /\ copies[p][j] = 1 => \E i \in DOMAIN rec.emails : SentBy(i, p, j)'
                        /\ \A b \in DOMAIN approvals : AsksFor(b, p, j)' =>
                             /\ copies[p][j] = 0
                             /\ \A c \in DOMAIN approvals : AsksFor(c, p, j)' => b = c
                             /\ \E i \in DOMAIN rec.emails : WaitsFor(i, b, p, j)'
      BY <1>1 DEF InSight
    <3>1. /\ copies[p][j] <= 1
          /\ copies[p][j] = 1 => \E i \in DOMAIN rec.emails : SentBy(i, p, j)
          /\ \A b \in DOMAIN approvals : AsksFor(b, p, j) =>
               /\ copies[p][j] = 0
               /\ \A c \in DOMAIN approvals : AsksFor(c, p, j) => b = c
               /\ \E i \in DOMAIN rec.emails : WaitsFor(i, b, p, j)
      BY DEF IInv, InSight
    <3> QED BY <2>2, <2>3, <3>1
  <2> QED BY <2>1, <2>4
<1> QED BY <1>2, <1>3, <1>4 DEF IInv

\* A step of a run that changes no email, no order and no reading.
LEMMA GoesOnKeeps ==
  ASSUME IInv, pc # "idle", pc' \notin {"idle", "follow"}, TypeOK', rec'.emails = rec.emails,
         UNCHANGED <<order, copies, approvals, late, disk, seen, excused>>
  PROVE  IInv'
<1>1. SameFates /\ StillRead
  BY DEF SameFates, StillRead
<1>2. SavedAhead' /\ RecordHolds(rec)' /\ RecordHolds(disk)' /\ ListedWent' /\ InSight'
  BY <1>1, FatesKeep
<1>3. SettledSince'
  BY <1>1, SettledKeeps
<1> QED BY <1>2, <1>3 DEF IInv

LEMMA SentNewKeeps ==
  ASSUME IInv, SentNew
  PROVE  IInv'
<1>1. /\ pc = "send" /\ pc' = "cards" /\ at' = 1 /\ count' = 0
      /\ UNCHANGED <<order, copies, cards, approvals, late, disk, rec, seen, excused, faults>>
  BY DEF SentNew, Turn, scrooge
<1>2. TypeOK'
  BY <1>1 DEF IInv, TypeOK
<1> QED BY <1>1, <1>2, GoesOnKeeps

LEMMA PostedCardsKeeps ==
  ASSUME IInv, PostedCards
  PROVE  IInv'
<1>1. /\ pc = "cards" /\ pc' = "statuses" /\ at' = 1 /\ count' = 0
      /\ UNCHANGED <<order, copies, cards, approvals, late, disk, rec, seen, excused, faults>>
  BY DEF PostedCards, Turn, scrooge
<1>2. TypeOK'
  BY <1>1 DEF IInv, TypeOK
<1> QED BY <1>1, <1>2, GoesOnKeeps

LEMMA PostCardKeeps ==
  ASSUME IInv, PostCard
  PROVE  IInv'
<1>1. PICK i \in DOMAIN Age, up \in BOOLEAN, told \in BOOLEAN :
        /\ First(i, Left(CardsDue)) /\ at' = i + 1
        /\ cards' = IF up THEN cards \cup {Age[i]} ELSE cards
        /\ rec' = [rec EXCEPT !.cards[Age[i]] = [posted |-> told, tries |-> @.tries + 1]]
        /\ IF told THEN Fine ELSE Fault
  BY DEF PostCard
<1>2. /\ pc = "cards" /\ pc' = "cards" /\ count' = count + 1
      /\ UNCHANGED <<order, copies, approvals, late, disk, seen, excused>>
  BY DEF PostCard
<1>3. Age[i] \in Orders /\ rec \in Record /\ at' \in Nat /\ count' \in Nat /\ faults' \in Nat
  <2>1. Age[i] \in Orders /\ at' \in Nat
    BY <1>1, OrdersOfAge
  <2>2. rec \in Record /\ count' \in Nat
    BY <1>2 DEF IInv, TypeOK
  <2>3. faults \in Nat
    BY DEF IInv, TypeOK
  <2>4. faults' \in Nat
    BY <1>1, <2>3 DEF Fine, Fault
  <2> QED BY <2>1, <2>2, <2>4
<1>4. rec' \in Record /\ rec'.emails = rec.emails
  <2> DEFINE o == Age[i]
  <2> DEFINE c == [posted |-> told, tries |-> rec.cards[o].tries + 1]
  <2>1. rec.cards \in [Orders -> [posted : BOOLEAN, tries : Nat]]
    BY <1>3 DEF Record
  <2>2. rec.cards[o].tries \in Nat
    BY <1>3, <2>1
  <2>3. c \in [posted : BOOLEAN, tries : Nat]
    <3>1. rec.cards[o].tries + 1 \in Nat
      BY <2>2
    <3> QED BY <3>1
  <2>4. rec' = [rec EXCEPT !.cards = [rec.cards EXCEPT ![o] = c]]
    BY <1>1, <1>3 DEF Record
  <2>5. [rec.cards EXCEPT ![o] = c] \in [Orders -> [posted : BOOLEAN, tries : Nat]]
    BY <2>1, <2>3
  <2> HIDE DEF c, o
  <2> QED BY <1>3, <2>4, <2>5 DEF Record
<1>5. cards' \subseteq Orders
  BY <1>1, <1>3 DEF IInv, TypeOK
<1>6. TypeOK'
  BY <1>2, <1>3, <1>4, <1>5 DEF IInv, TypeOK
<1> QED BY <1>2, <1>4, <1>6, GoesOnKeeps

\* What is not closed has no entry in the way, of its kind or of the opposite one.
LEMMA OpenIsUnsettled ==
  ASSUME NEW o, NEW k, ~ Closed(o, k)
  PROVE  ~ Settled(rec, o, k) /\ \A other \in Opposite(k) : ~ Settled(rec, o, other)
BY DEF Closed, SettledIn, Tries, Settled

\* A card parked is the last one and waits; the others stay as they are.
LEMMA CardParked ==
  ASSUME TypeOK, NEW o \in Orders, NEW k \in Kinds, Parked(o, k)
  PROVE  /\ approvals' \in Seq(Approval)
         /\ Len(approvals) \in Nat
         /\ DOMAIN approvals = 1 .. Len(approvals)
         /\ DOMAIN approvals' = DOMAIN approvals \cup {Len(approvals) + 1}
         /\ \A a \in DOMAIN approvals : approvals'[a] = approvals[a]
         /\ \A a \in DOMAIN approvals' :
              a \in DOMAIN approvals \/ (AsksFor(a, o, k)' /\ approvals'[a].result = "")
<1> DEFINE new == [order |-> o, kind |-> k, status |-> "pending", result |-> "", listed |-> TRUE]
<1>1. approvals \in Seq(Approval) /\ approvals' = Append(approvals, new)
  BY DEF TypeOK, Parked
<1>2. /\ new \in Approval
      /\ new.status = "pending" /\ new.order = o /\ new.kind = k /\ new.result = ""
  BY DEF Approval, Results
<1> HIDE DEF new
<1>3. /\ approvals' \in Seq(Approval)
      /\ Len(approvals) \in Nat
      /\ DOMAIN approvals = 1 .. Len(approvals)
      /\ DOMAIN approvals' = DOMAIN approvals \cup {Len(approvals) + 1}
      /\ \A a \in DOMAIN approvals : approvals'[a] = approvals[a]
      /\ approvals'[Len(approvals) + 1] = new
  <2>1. new \in Approval
    BY <1>2
  <2> QED BY <1>1, <2>1
<1> QED BY <1>2, <1>3 DEF AsksFor

LEMMA SendNewKeeps ==
  ASSUME IInv, SendNew
  PROVE  IInv'
<1>1. PICK i \in DOMAIN Age :
        /\ First(i, Left(Due)) /\ at' = i + 1
        /\ IF Plan(Age[i]) \in seen[Age[i]].messages
           THEN /\ Noted(Entry(Age[i], Plan(Age[i]), "sent"))
                /\ UNCHANGED <<approvals, count, excused, faults>>
           ELSE Submit(Age[i], Plan(Age[i])) /\ count' = count + 1
  BY DEF SendNew
<1>0. PICK o, k : o = Age[i] /\ k = Plan(o)
  OBVIOUS
<1>2. /\ pc = "send" /\ pc' = "send"
      /\ UNCHANGED <<order, copies, cards, late, disk, seen>>
  BY DEF SendNew
<1>3. o \in Orders /\ k \in Kinds /\ ~ Closed(o, k) /\ at' \in Nat
  <2>1. o \in Due
    BY <1>0, <1>1 DEF First, Left
  <2>2. k # None /\ ~ Closed(o, k)
    BY <1>0, <2>1 DEF Due, WantsEmail
  <2>3. o \in Orders /\ at' \in Nat
    BY <1>0, <1>1, OrdersOfAge
  <2>4. k \in Kinds \cup {None}
    BY <1>0, <2>3, PlanIsKind
  <2> QED BY <2>2, <2>3, <2>4
<1>4. /\ ~ Settled(rec, o, k)
      /\ \A other \in Opposite(k) : ~ Settled(rec, o, other)
  BY <1>3, OpenIsUnsettled
<1>5. /\ rec \in Record /\ rec.emails \in Seq(Email) /\ pc # "idle"
      /\ approvals \in Seq(Approval) /\ Len(approvals) + 1 \in Nat
      /\ count \in Nat /\ faults \in Nat
  BY <1>2 DEF IInv, TypeOK, Record
<1>6. PICK e \in Email :
        /\ Noted(e) /\ e.order = o /\ e.kind = k
        /\ e.status = "sent" => k \in seen[o].messages
        /\ \/ UNCHANGED <<approvals, excused>> /\ e.status # "pending_approval"
           \/ /\ Parked(o, k) /\ UNCHANGED excused
              /\ e.status = "pending_approval" /\ e.approval = Len(approvals) + 1
           \/ /\ Parked(o, k) /\ excused' = excused \cup {<<o, k>>}
              /\ e.status # "pending_approval"
           \/ Parked(o, k) /\ UNCHANGED excused /\ e.status = "unknown"
  <2>1. CASE k \in seen[o].messages
    <3>1. Entry(o, k, "sent") \in Email
      BY <1>3, <1>5, EntryIsEmail
    <3>2. Noted(Entry(o, k, "sent")) /\ UNCHANGED <<approvals, excused>>
      BY <1>0, <1>1, <2>1
    <3> QED BY <2>1, <3>1, <3>2 DEF Entry
  <2>2. CASE k \notin seen[o].messages
    <3>1. Submit(o, k)
      BY <1>0, <1>1, <2>2
    <3>2. CASE /\ Parked(o, k) /\ UNCHANGED excused
               /\ Noted([Entry(o, k, "pending_approval") EXCEPT !.approval = Len(approvals) + 1])
      <4> DEFINE f == [Entry(o, k, "pending_approval") EXCEPT !.approval = Len(approvals) + 1]
      <4>1. /\ f \in Email /\ f.approval = Len(approvals) + 1
            /\ f.order = o /\ f.kind = k /\ f.status = "pending_approval"
        BY <1>3, <1>5, EntryIsEmail
      <4> QED BY <3>2, <4>1
    <3>3. CASE /\ Parked(o, k) /\ excused' = excused \cup {<<o, k>>}
               /\ Noted(Entry(o, k, "unreachable"))
      <4>1. Entry(o, k, "unreachable") \in Email
        BY <1>3, <1>5, EntryIsEmail
      <4> QED BY <3>3, <4>1 DEF Entry
    <3>5. CASE Parked(o, k) /\ UNCHANGED excused /\ Noted(Entry(o, k, "unknown"))
      <4>1. Entry(o, k, "unknown") \in Email
        BY <1>3, <1>5, EntryIsEmail
      <4> QED BY <3>5, <4>1 DEF Entry
    <3>4. CASE /\ UNCHANGED <<approvals, excused>>
               /\ \E s \in {"unreachable", "failed"} : Noted(Entry(o, k, s))
      <4>1. PICK s \in {"unreachable", "failed"} : Noted(Entry(o, k, s))
        BY <3>4
      <4>2. Entry(o, k, s) \in Email
        BY <1>3, <1>5, EntryIsEmail
      <4> QED BY <3>4, <4>1, <4>2 DEF Entry
    <3> QED BY <3>1, <3>2, <3>3, <3>4, <3>5 DEF Submit
  <2> QED BY <2>1, <2>2
<1>61. PICK last : last = Len(rec.emails) + 1
  OBVIOUS
<1>7. /\ rec' \in Record
      /\ last \notin DOMAIN rec.emails
      /\ DOMAIN rec'.emails = DOMAIN rec.emails \cup {last}
      /\ \A n \in DOMAIN rec.emails : rec'.emails[n] = rec.emails[n]
      /\ rec'.emails[last] = e
  BY <1>5, <1>6, <1>61, EmailAppended
<1>8. /\ approvals' \in Seq(Approval)
      /\ DOMAIN approvals \subseteq DOMAIN approvals'
      /\ \A a \in DOMAIN approvals : approvals'[a] = approvals[a]
      /\ \A a \in DOMAIN approvals' : a \in DOMAIN approvals \/ AsksFor(a, o, k)'
      /\ e.status = "pending_approval" =>
           e.approval \in DOMAIN approvals' /\ AsksFor(e.approval, o, k)'
      /\ \A a, b \in DOMAIN approvals' :
           a = b \/ a \in DOMAIN approvals \/ b \in DOMAIN approvals
      /\ excused \subseteq excused'
      /\ \A a \in DOMAIN approvals' :
           \/ a \in DOMAIN approvals
           \/ <<o, k>> \in excused'
           \/ a = e.approval /\ e.status = "pending_approval"
           \/ e.status = "unknown"
      /\ \A a \in DOMAIN approvals' : a \in DOMAIN approvals \/ approvals'[a].result = ""
  <2>1. CASE UNCHANGED <<approvals, excused>> /\ e.status # "pending_approval"
    BY <1>5, <2>1
  <2>2. CASE Parked(o, k) /\ UNCHANGED excused
             /\ e.status = "pending_approval" /\ e.approval = Len(approvals) + 1
    <3>1. /\ approvals' \in Seq(Approval)
          /\ DOMAIN approvals' = DOMAIN approvals \cup {Len(approvals) + 1}
          /\ Len(approvals) + 1 \notin DOMAIN approvals
          /\ \A a \in DOMAIN approvals : approvals'[a] = approvals[a]
          /\ \A a \in DOMAIN approvals' :
               a \in DOMAIN approvals \/ (AsksFor(a, o, k)' /\ approvals'[a].result = "")
      <4>1. Len(approvals) + 1 \notin DOMAIN approvals
        <5>1. Len(approvals) \in Nat /\ DOMAIN approvals = 1 .. Len(approvals)
          BY <1>5
        <5> QED BY <5>1
      <4>2. TypeOK /\ Parked(o, k)
        BY <2>2 DEF IInv
      <4> QED BY <1>3, <4>1, <4>2, CardParked
    <3> DEFINE new == Len(approvals) + 1
    <3> HIDE DEF new
    <3>2. /\ DOMAIN approvals' = DOMAIN approvals \cup {new} /\ new \notin DOMAIN approvals
          /\ e.approval = new
      BY <2>2, <3>1 DEF new
    <3> QED BY <2>2, <3>1, <3>2
  <2>3. CASE Parked(o, k) /\ excused' = excused \cup {<<o, k>>}
             /\ e.status # "pending_approval"
    BY <1>3, <2>3, CardParked DEF IInv
  <2>4. CASE Parked(o, k) /\ UNCHANGED excused /\ e.status = "unknown"
    BY <1>3, <2>4, CardParked DEF IInv
  <2> QED BY <1>6, <2>1, <2>2, <2>3, <2>4
<1>9. TypeOK'
  <2>1. faults' \in Nat /\ count' \in Nat
    BY <1>1, <1>5 DEF Submit, Fine, Fault
  <2>2. excused' \subseteq Orders \X Kinds
    BY <1>3, <1>6 DEF IInv, TypeOK
  <2> QED BY <1>2, <1>3, <1>7, <1>8, <2>1, <2>2 DEF IInv, TypeOK
<1>10. SavedAhead'
  BY <1>2, <1>7 DEF IInv, SavedAhead
<1>11. \A p, j : Settled(rec', p, j) <=>
         Settled(rec, p, j) \/ (p = o /\ j = k /\ e.status \notin Retryable)
  <2> SUFFICES ASSUME NEW p, NEW j
               PROVE  Settled(rec', p, j) <=>
                        Settled(rec, p, j) \/ (p = o /\ j = k /\ e.status \notin Retryable)
    OBVIOUS
  <2>1. Settled(rec, p, j) => Settled(rec', p, j)
    BY <1>7 DEF Settled
  <2>2. p = o /\ j = k /\ e.status \notin Retryable => Settled(rec', p, j)
    BY <1>6, <1>7 DEF Settled
  <2>3. Settled(rec', p, j) =>
          Settled(rec, p, j) \/ (p = o /\ j = k /\ e.status \notin Retryable)
    BY <1>6, <1>7 DEF Settled
  <2> QED BY <2>1, <2>2, <2>3
<1>12. RecordHolds(rec)'
  <2>1. KnowsItsCard(rec)'
    <3> SUFFICES ASSUME NEW n \in DOMAIN rec'.emails,
                        rec'.emails[n].status = "pending_approval"
                 PROVE  /\ rec'.emails[n].approval \in DOMAIN approvals'
                        /\ approvals'[rec'.emails[n].approval].order = rec'.emails[n].order
                        /\ approvals'[rec'.emails[n].approval].kind = rec'.emails[n].kind
      BY DEF KnowsItsCard
    <3>1. CASE n \in DOMAIN rec.emails
      <4>1. /\ rec'.emails[n] = rec.emails[n]
            /\ KnowsItsCard(rec)
        BY <1>7, <3>1 DEF IInv, RecordHolds
      <4>2. /\ rec.emails[n].approval \in DOMAIN approvals
            /\ approvals[rec.emails[n].approval].order = rec.emails[n].order
            /\ approvals[rec.emails[n].approval].kind = rec.emails[n].kind
        BY <3>1, <4>1 DEF KnowsItsCard
      <4> QED BY <1>8, <4>1, <4>2
    <3>2. CASE n = last
      BY <1>6, <1>7, <1>8, <3>2 DEF AsksFor
    <3> QED BY <1>7, <3>1, <3>2
  <2>2. SentWent(rec)'
    <3> SUFFICES ASSUME NEW n \in DOMAIN rec'.emails, rec'.emails[n].status = "sent"
                 PROVE  copies[rec'.emails[n].order][rec'.emails[n].kind] > 0
      BY <1>2 DEF SentWent
    <3>1. CASE n \in DOMAIN rec.emails
      BY <1>7, <3>1 DEF IInv, RecordHolds, SentWent
    <3>2. CASE n = last
      <4>1. k \in seen[o].messages /\ e.order = o /\ e.kind = k
        BY <1>6, <1>7, <3>2
      <4>2. copies[o][k] > 0
        BY <1>3, <1>5, <4>1 DEF IInv, ListedWent
      <4> QED BY <1>7, <3>2, <4>1, <4>2
    <3> QED BY <1>7, <3>1, <3>2
  <2>3. OneAnswer(rec)'
    <3> SUFFICES ASSUME NEW p \in Orders, NEW j \in Acks,
                        Settled(rec', p, j), Settled(rec', p, "decline")
                 PROVE  FALSE
      BY DEF OneAnswer
    <3>1. j # "decline"
      BY DEF Acks
    <3>2. CASE Settled(rec, p, j)
      <4>1. p = o /\ k = "decline" /\ ~ Settled(rec, p, "decline")
        BY <1>11, <3>2 DEF IInv, RecordHolds, OneAnswer
      <4>2. j \in Opposite(k)
        BY <4>1 DEF Opposite, Acks
      <4> QED BY <1>4, <3>2, <4>1, <4>2
    <3>3. CASE p = o /\ j = k
      <4>1. Settled(rec, o, "decline")
        BY <1>11, <3>1, <3>3
      <4>2. "decline" \in Opposite(k)
        BY <3>3 DEF Opposite
      <4> QED BY <1>4, <4>1, <4>2
    <3> QED BY <1>11, <3>2, <3>3
  <2> QED BY <2>1, <2>2, <2>3 DEF RecordHolds
<1>13. RecordHolds(disk)'
  <2>1. KnowsItsCard(disk)'
    BY <1>2, <1>8 DEF IInv, RecordHolds, KnowsItsCard
  <2>2. SentWent(disk)' /\ OneAnswer(disk)'
    BY <1>2 DEF IInv, RecordHolds, SentWent, OneAnswer, Settled
  <2> QED BY <2>1, <2>2 DEF RecordHolds
<1>14. ListedWent'
  <2>1. \A a \in DOMAIN approvals' : approvals'[a].result \in Delivered =>
          a \in DOMAIN approvals /\ approvals'[a] = approvals[a]
    BY <1>8 DEF Delivered
  <2> QED BY <1>2, <2>1 DEF IInv, ListedWent
<1>15. InSight'
  <2>0. /\ last \notin DOMAIN disk.emails
        /\ \A n \in DOMAIN disk.emails : n \in DOMAIN rec.emails
    BY <1>7 DEF IInv, SavedAhead
  <2> SUFFICES ASSUME NEW p \in Orders, NEW j \in Kinds, <<p, j>> \notin excused'
               PROVE  /\ copies[p][j] <= 1
                      /\ copies[p][j] = 1 => \E n \in DOMAIN rec'.emails : SentBy(n, p, j)'
                      /\ \A a \in DOMAIN approvals' : AsksFor(a, p, j)' =>
                           /\ copies[p][j] = 0
                           /\ \A b \in DOMAIN approvals' : AsksFor(b, p, j)' => a = b
                           /\ \E n \in DOMAIN rec'.emails : WaitsFor(n, a, p, j)'
    BY <1>2 DEF InSight, AsksFor
  <2>1. /\ <<p, j>> \notin excused
        /\ copies[p][j] <= 1 /\ copies[p][j] \in Nat
        /\ copies[p][j] = 1 => \E n \in DOMAIN rec.emails : SentBy(n, p, j)
    <3>1. <<p, j>> \notin excused
      BY <1>8
    <3>2. copies[p][j] \in Nat
      BY DEF IInv, TypeOK
    <3> QED BY <3>1, <3>2 DEF IInv, InSight
  <2>2. \A a \in DOMAIN approvals : AsksFor(a, p, j)' <=> AsksFor(a, p, j)
    BY <1>8 DEF AsksFor
  <2>3. ASSUME NEW n \in DOMAIN rec.emails
        PROVE  /\ InTheWay(n, p, j)' <=> InTheWay(n, p, j)
               /\ \A a : WaitsFor(n, a, p, j)' <=> WaitsFor(n, a, p, j)
               /\ InTheWay(n, p, j) => Settled(rec, p, j)
    BY <1>2, <1>7 DEF InTheWay, WaitsFor, Settled
  <2>4. ASSUME NEW n \in DOMAIN rec.emails, SentBy(n, p, j) PROVE SentBy(n, p, j)'
    <3>1. ASSUME \/ rec.emails[n].status = "pending_approval"
                 \/ n \in DOMAIN disk.emails /\ disk.emails[n].status = "pending_approval"
          PROVE  approvals'[rec.emails[n].approval].result \in Delivered
      <4>1. rec.emails[n].approval \in DOMAIN approvals
        BY <3>1 DEF IInv, RecordHolds, KnowsItsCard, SavedAhead
      <4> QED BY <1>8, <2>4, <3>1, <4>1 DEF SentBy
    <3> QED BY <1>2, <1>7, <2>3, <2>4, <3>1 DEF SentBy
  <2>5. CASE p = o /\ j = k
    <3>1. copies[p][j] = 0
      <4>1. ASSUME copies[p][j] = 1 PROVE FALSE
        BY <1>4, <2>1, <2>3, <2>5, <4>1 DEF SentBy
      <4> QED BY <2>1, <4>1
    <3>2. ASSUME NEW a \in DOMAIN approvals, AsksFor(a, p, j) PROVE FALSE
      <4>1. PICK n \in DOMAIN rec.emails : WaitsFor(n, a, p, j)
        BY <2>1, <3>2 DEF IInv, InSight
      <4> QED BY <1>4, <2>3, <2>5, <4>1 DEF WaitsFor
    <3>3. ASSUME NEW a \in DOMAIN approvals', AsksFor(a, p, j)'
          PROVE  /\ a \notin DOMAIN approvals
                 /\ \/ a = e.approval /\ e.status = "pending_approval"
                    \/ e.status = "unknown"
      BY <1>8, <2>2, <2>5, <3>2, <3>3
    <3>4. ASSUME NEW a \in DOMAIN approvals', AsksFor(a, p, j)'
          PROVE  WaitsFor(last, a, p, j)'
      <4>1. e.order = p /\ e.kind = j /\ e.status \in {"pending_approval", "unknown"}
        BY <1>6, <2>5, <3>3, <3>4
      <4>2. last \in DOMAIN rec'.emails /\ rec'.emails[last] = e /\ last \notin DOMAIN disk'.emails
        BY <1>2, <1>7, <2>0
      <4>3. /\ rec'.emails[last].order = p /\ rec'.emails[last].kind = j
            /\ rec'.emails[last].status \in {"pending_approval", "unknown"}
            /\ \/ rec'.emails[last].status = "pending_approval"
                    /\ rec'.emails[last].approval = a
               \/ rec'.emails[last].status = "unknown"
        BY <3>3, <3>4, <4>1, <4>2
      <4>4. rec'.emails[last].status \notin Retryable
        BY <4>3 DEF Retryable
      <4>5. InTheWay(last, p, j)'
        BY <4>2, <4>3, <4>4 DEF InTheWay
      <4> QED BY <4>2, <4>3, <4>5 DEF WaitsFor
    <3>5. ASSUME NEW a \in DOMAIN approvals', AsksFor(a, p, j)',
                 NEW b \in DOMAIN approvals', AsksFor(b, p, j)'
          PROVE  a = b
      BY <1>8, <3>3, <3>5
    <3>6. last \in DOMAIN rec'.emails
      BY <1>7
    <3>7. copies[p][j] <= 1 /\ copies[p][j] # 1
      BY <3>1
    <3>8. \A a \in DOMAIN approvals' : AsksFor(a, p, j)' =>
            /\ \A b \in DOMAIN approvals' : AsksFor(b, p, j)' => a = b
            /\ \E n \in DOMAIN rec'.emails : WaitsFor(n, a, p, j)'
      BY <3>4, <3>5, <3>6
    <3> QED BY <3>1, <3>7, <3>8
  <2>6. CASE ~ (p = o /\ j = k)
    <3>1. ASSUME NEW a \in DOMAIN approvals', AsksFor(a, p, j)'
          PROVE  a \in DOMAIN approvals /\ AsksFor(a, p, j)
      <4>1. ~ AsksFor(a, o, k)'
        BY <2>6, <3>1 DEF AsksFor
      <4> QED BY <1>8, <2>2, <3>1, <4>1
    <3>2. ASSUME NEW a \in DOMAIN approvals', AsksFor(a, p, j)'
          PROVE  /\ copies[p][j] = 0
                 /\ \A b \in DOMAIN approvals' : AsksFor(b, p, j)' => a = b
                 /\ \E n \in DOMAIN rec'.emails : WaitsFor(n, a, p, j)'
      <4>1. /\ copies[p][j] = 0
            /\ \A b \in DOMAIN approvals : AsksFor(b, p, j) => a = b
            /\ \E n \in DOMAIN rec.emails : WaitsFor(n, a, p, j)
        BY <2>1, <3>1, <3>2 DEF IInv, InSight
      <4> QED BY <1>7, <2>3, <3>1, <4>1
    <3> QED BY <1>7, <2>1, <2>4, <3>2
  <2> QED BY <2>5, <2>6
<1>16. SettledSince'
  BY <1>2, <1>5, <1>7 DEF IInv, SettledSince, MovedBy
<1> QED BY <1>9, <1>10, <1>12, <1>13, <1>14, <1>15, <1>16 DEF IInv

\* The orders with another status of one of them.
Restates(old, o, s, new) ==
  \/ new = [old EXCEPT ![o].status = s]
  \/ new = [old EXCEPT ![o].status = s, ![o].link = "young"]

LEMMA Restated ==
  ASSUME NEW old \in Reading, NEW o \in Orders, NEW s \in Statuses, NEW new,
         Restates(old, o, s, new)
  PROVE  /\ new \in Reading /\ new[o].status = s
         /\ \A p \in Orders : /\ new[p].messages = old[p].messages
                              /\ p # o => new[p].status = old[p].status
<1>1. PICK w : /\ w \in [link : {"young", "open", "dead"}, messages : SUBSET Kinds,
                         custom : BOOLEAN, flagged : BOOLEAN, status : Statuses]
               /\ w.status = s /\ w.messages = old[o].messages
               /\ new = [old EXCEPT ![o] = w]
  <2>1. CASE new = [old EXCEPT ![o].status = s]
    <3> DEFINE w == [old[o] EXCEPT !.status = s]
    <3>1. /\ w \in [link : {"young", "open", "dead"}, messages : SUBSET Kinds,
                    custom : BOOLEAN, flagged : BOOLEAN, status : Statuses]
          /\ w.status = s /\ w.messages = old[o].messages
      BY DEF Reading
    <3>2. new = [old EXCEPT ![o] = w]
      BY <2>1
    <3> QED BY <3>1, <3>2
  <2>2. CASE new = [old EXCEPT ![o].status = s, ![o].link = "young"]
    <3> DEFINE w == [old[o] EXCEPT !.status = s, !.link = "young"]
    <3>1. /\ w \in [link : {"young", "open", "dead"}, messages : SUBSET Kinds,
                    custom : BOOLEAN, flagged : BOOLEAN, status : Statuses]
          /\ w.status = s /\ w.messages = old[o].messages
      BY DEF Reading
    <3>2. new = [old EXCEPT ![o] = w]
      BY <2>2
    <3> QED BY <3>1, <3>2
  <2> QED BY <2>1, <2>2 DEF Restates
<1> QED BY <1>1 DEF Reading

\* Moving an order marks its entry, and leaves the order, or moves it too and
\* then the reading unless the answer is lost.
LEMMA MoveEffect ==
  ASSUME IInv, NEW i \in DOMAIN rec.emails, Moving(rec.emails[i]), Move(rec.emails[i], i),
         pc # "idle"
  PROVE  LET o == rec.emails[i].order
             s == Target[rec.emails[i].kind]
         IN /\ rec' \in Record /\ SameFates /\ faults' \in Nat
            /\ order' \in Reading /\ seen' \in Reading
            /\ \A p \in Orders : /\ order'[p].messages = order[p].messages
                                 /\ seen'[p].messages = seen[p].messages
                                 /\ p # o => order'[p].status = order[p].status
                                 /\ p # o => seen'[p].status = seen[p].status
            /\ \/ order'[o].status = order[o].status /\ seen'[o].status = seen[o].status
               \/ /\ order'[o].status = s /\ seen'[o].status \in {seen[o].status, s}
                  /\ seen[o].status \in From[rec.emails[i].kind]
<1> DEFINE e == rec.emails[i]
<1> DEFINE o == e.order
<1> DEFINE s == Target[e.kind]
<1>1. /\ rec \in Record /\ rec.emails \in Seq(Email) /\ e \in Email
      /\ order \in Reading /\ seen \in Reading /\ faults \in Nat
  <2>1. rec \in Record /\ order \in Reading /\ seen \in Reading /\ faults \in Nat
    BY DEF IInv, TypeOK
  <2>2. rec.emails \in Seq(Email)
    BY <2>1 DEF Record
  <2> QED BY <2>1, <2>2
<1>2. o \in Orders /\ s \in Statuses
  <2>1. e.kind \in Answering
    BY DEF Moving
  <2> QED BY <1>1, <2>1 DEF Email, Target, Statuses
<1>3. ASSUME NEW m \in {"", "done", "skipped", "failed"}, NEW t \in Nat,
             \/ rec' = [rec EXCEPT !.emails[i].moved = m]
             \/ rec' = [rec EXCEPT !.emails[i].tries = t, !.emails[i].moved = m]
      PROVE  rec' \in Record /\ SameFates
  <2>1. PICK f \in Email :
          /\ rec' = [rec EXCEPT !.emails = [rec.emails EXCEPT ![i] = f]]
          /\ f.order = e.order /\ f.kind = e.kind
          /\ f.approval = e.approval /\ f.status = e.status
    <3>1. CASE rec' = [rec EXCEPT !.emails[i].moved = m]
      <4> DEFINE f == [e EXCEPT !.moved = m]
      <4>1. /\ f \in Email /\ f.order = e.order /\ f.kind = e.kind
            /\ f.approval = e.approval /\ f.status = e.status
        BY <1>1 DEF Email
      <4>2. rec' = [rec EXCEPT !.emails = [rec.emails EXCEPT ![i] = f]]
        BY <1>1, <3>1 DEF Record
      <4> HIDE DEF f
      <4> QED BY <4>1, <4>2
    <3>2. CASE rec' = [rec EXCEPT !.emails[i].tries = t, !.emails[i].moved = m]
      <4> DEFINE f == [e EXCEPT !.tries = t, !.moved = m]
      <4>1. /\ f \in Email /\ f.order = e.order /\ f.kind = e.kind
            /\ f.approval = e.approval /\ f.status = e.status
        BY <1>1 DEF Email
      <4>2. rec' = [rec EXCEPT !.emails = [rec.emails EXCEPT ![i] = f]]
        BY <1>1, <3>2 DEF Record
      <4> HIDE DEF f
      <4> QED BY <4>1, <4>2
    <3> QED BY <1>3, <3>1, <3>2
  <2> DEFINE g == [rec.emails EXCEPT ![i] = f]
  <2>2. /\ g \in Seq(Email) /\ DOMAIN g = DOMAIN rec.emails /\ g[i] = f
        /\ \A n \in DOMAIN rec.emails : n # i => g[n] = rec.emails[n]
    <3> HIDE DEF e
    <3>1. g \in Seq(Email)
      BY <1>1, Replaced
    <3>2. /\ DOMAIN g = DOMAIN rec.emails /\ g[i] = f
          /\ \A n \in DOMAIN rec.emails : n # i => g[n] = rec.emails[n]
      OBVIOUS
    <3> QED BY <3>1, <3>2
  <2>3. rec' = [rec EXCEPT !.emails = g]
    BY <2>1
  <2> HIDE DEF g
  <2>4. rec' \in Record /\ rec'.emails = g
    BY <1>1, <2>2, <2>3 DEF Record
  <2> QED BY <2>1, <2>2, <2>4 DEF SameFates
<1> DEFINE Marked(m) == rec' = [rec EXCEPT !.emails[i].moved = m]
<1> DEFINE Again == \E m \in {"", "failed"} :
                      rec' = [rec EXCEPT !.emails[i].tries = e.tries + 1, !.emails[i].moved = m]
<1> DEFINE Sets == order' = [order EXCEPT ![o].status = s, ![o].link = "young"]
<1>5. \/ (Marked("done") \/ Marked("skipped")) /\ UNCHANGED <<order, seen>> /\ Fine
      \/ /\ seen[o].status \in From[e.kind]
         /\ \/ Marked("done") /\ Sets /\ Fine /\ seen' = [seen EXCEPT ![o].status = s]
            \/ Again /\ Sets /\ UNCHANGED seen /\ Fault
      \/ Again /\ UNCHANGED <<order, seen>> /\ Fault
  BY DEF Move
<1>6. rec' \in Record /\ SameFates
  <2>1. e.tries + 1 \in Nat
    <3>1. e.tries \in Nat
      BY <1>1 DEF Email
    <3> QED BY <3>1
  <2>2. CASE Marked("done") \/ Marked("skipped")
    BY <1>3, <2>1, <2>2
  <2>3. CASE Again
    BY <1>3, <2>1, <2>3
  <2> QED BY <1>5, <2>2, <2>3
<1>7. faults' \in Nat
  <2>1. Fine \/ Fault
    BY <1>5
  <2> QED BY <1>1, <2>1 DEF Fine, Fault
<1> HIDE DEF Marked, Again
<1>8. CASE UNCHANGED <<order, seen>>
  BY <1>1, <1>6, <1>7, <1>8
<1>9. CASE seen[o].status \in From[e.kind] /\ Sets /\ UNCHANGED seen
  <2>1. Restates(order, o, s, order')
    BY <1>9 DEF Restates
  <2>2. /\ order' \in Reading /\ order'[o].status = s
        /\ \A p \in Orders : /\ order'[p].messages = order[p].messages
                             /\ p # o => order'[p].status = order[p].status
    <3> HIDE DEF o, s
    <3> QED BY <1>1, <1>2, <2>1, Restated
  <2> QED BY <1>1, <1>6, <1>7, <1>9, <2>2
<1>10. CASE seen[o].status \in From[e.kind] /\ Sets /\ seen' = [seen EXCEPT ![o].status = s]
  <2>1. Restates(order, o, s, order') /\ Restates(seen, o, s, seen')
    BY <1>10 DEF Restates
  <2>2. /\ order' \in Reading /\ order'[o].status = s
        /\ \A p \in Orders : /\ order'[p].messages = order[p].messages
                             /\ p # o => order'[p].status = order[p].status
    <3> HIDE DEF o, s
    <3> QED BY <1>1, <1>2, <2>1, Restated
  <2>3. /\ seen' \in Reading /\ seen'[o].status = s
        /\ \A p \in Orders : /\ seen'[p].messages = seen[p].messages
                             /\ p # o => seen'[p].status = seen[p].status
    <3> HIDE DEF o, s
    <3> QED BY <1>1, <1>2, <2>1, Restated
  <2> QED BY <1>6, <1>7, <1>10, <2>2, <2>3
<1> QED BY <1>5, <1>8, <1>9, <1>10

LEMMA SetStatusKeeps ==
  ASSUME IInv, SetStatus
  PROVE  IInv'
<1>1. PICK i \in DOMAIN rec.emails :
        First(i, ToMove) /\ at' = i + 1 /\ Move(rec.emails[i], i)
  BY DEF SetStatus
<1>2. /\ pc = "statuses" /\ pc' = "statuses"
      /\ UNCHANGED <<copies, cards, approvals, late, disk, count, excused>>
  BY DEF SetStatus
<1>3. PICK o, s : o = rec.emails[i].order /\ s = Target[rec.emails[i].kind]
  OBVIOUS
<1>4. Moving(rec.emails[i])
  BY <1>1 DEF First, ToMove
<1>5. /\ rec' \in Record /\ SameFates /\ faults' \in Nat
      /\ order' \in Reading /\ seen' \in Reading
      /\ \A p \in Orders : /\ order'[p].messages = order[p].messages
                           /\ seen'[p].messages = seen[p].messages
                           /\ p # o => order'[p].status = order[p].status
                           /\ p # o => seen'[p].status = seen[p].status
      /\ \/ order'[o].status = order[o].status /\ seen'[o].status = seen[o].status
         \/ order'[o].status = s /\ seen'[o].status \in {seen[o].status, s}
  BY <1>1, <1>2, <1>3, <1>4, MoveEffect
<1>6. TypeOK'
  <2>1. i \in Nat /\ i + 1 \in Nat
    <3>1. rec.emails \in Seq(Email)
      BY DEF IInv, TypeOK, Record
    <3>2. i \in Nat
      BY <3>1
    <3> QED BY <3>2
  <2> QED BY <1>1, <1>2, <1>5, <2>1 DEF IInv, TypeOK
<1>7. SavedAhead' /\ RecordHolds(rec)' /\ RecordHolds(disk)' /\ ListedWent' /\ InSight'
  <2>1. StillRead
    BY <1>2, <1>5 DEF StillRead
  <2> QED BY <1>2, <1>5, <2>1, FatesKeep
<1>8. SettledSince'
  <2> SUFFICES ASSUME NEW p \in Orders, order'[p].status \in ByHand,
                      seen'[p].status \in {"paid", "quote_requested"}, p \notin late
               PROVE  \E n \in DOMAIN rec'.emails :
                        LET e == rec'.emails[n]
                        IN e.order = p /\ e.status = "sent" /\ e.kind \in Answering
                             /\ order'[p].status = Target[e.kind]
    BY <1>2 DEF SettledSince, MovedBy
  <2>1. CASE order'[p].status = order[p].status /\ seen'[p].status = seen[p].status
    <3>1. PICK n \in DOMAIN rec.emails : MovedBy(p, n)
      BY <1>2, <2>1 DEF IInv, SettledSince
    <3> QED BY <1>5, <2>1, <3>1 DEF MovedBy, SameFates
  <2>2. CASE p = o /\ order'[p].status = s
    <3>1. /\ rec.emails[i].status = "sent" /\ rec.emails[i].kind \in Answering
      BY <1>4 DEF Moving, Answering
    <3>2. /\ i \in DOMAIN rec'.emails
          /\ rec'.emails[i].status = "sent" /\ rec'.emails[i].kind = rec.emails[i].kind
          /\ rec'.emails[i].order = o
      BY <1>3, <1>5, <3>1 DEF SameFates
    <3> QED BY <1>3, <2>2, <3>1, <3>2
  <2> QED BY <1>5, <2>1, <2>2
<1> QED BY <1>6, <1>7, <1>8 DEF IInv

-----------------------------------------------------------------------------
(* The theorems. *)

LEMMA InitHolds ==
  ASSUME Init
  PROVE  IInv
<1>1. PICK book \in Books :
        /\ order = [o \in Orders |-> [link |-> "young", messages |-> {},
                      custom |-> book.orders[o].custom, flagged |-> book.orders[o].flagged,
                      status |-> book.orders[o].status]]
        /\ faults = book.faults
  BY DEF Init
<1>2. /\ book.orders \in [Orders -> [custom : BOOLEAN, flagged : BOOLEAN, status : Statuses]]
      /\ book.faults \in Nat
  BY OrdersTyped
<1>3. /\ copies = [o \in Orders |-> [k \in Kinds |-> 0]]
      /\ cards = {} /\ approvals = <<>>
      /\ disk = [emails |-> <<>>, cards |-> [o \in Orders |-> [posted |-> FALSE, tries |-> 0]]]
      /\ rec = disk /\ pc = "idle" /\ at = 1 /\ count = 0 /\ seen = None
      /\ late = {} /\ excused = {}
  BY DEF Init
<1>4. order \in Reading /\ \A o \in Orders : order[o].messages = {}
  BY <1>1, <1>2 DEF Reading
<1>5. disk \in Record /\ rec.emails = <<>> /\ disk.emails = <<>>
  BY <1>3 DEF Record
<1>6. TypeOK
  BY <1>1, <1>2, <1>3, <1>4, <1>5 DEF TypeOK
<1>7. SavedAhead /\ SettledSince
  BY <1>3, <1>5 DEF SavedAhead, SettledSince
<1>8. RecordHolds(rec) /\ RecordHolds(disk)
  BY <1>5 DEF RecordHolds, KnowsItsCard, SentWent, OneAnswer, Settled
<1>9. ListedWent
  BY <1>3, <1>4 DEF ListedWent
<1>10. InSight
  BY <1>3 DEF InSight
<1> QED BY <1>6, <1>7, <1>8, <1>9, <1>10 DEF IInv

LEMMA StepKeeps ==
  ASSUME IInv, [Next]_vars
  PROVE  IInv'
<1>1. CASE ReadOrders
  BY <1>1, ReadOrdersKeeps
<1>2. CASE DeskStep
  BY <1>2, FollowUpKeeps, SendNewKeeps, SentNewKeeps, PostCardKeeps, PostedCardsKeeps,
     SetStatusKeeps, SaveKeeps DEF DeskStep
<1>3. CASE Dies
  BY <1>3, DiesKeeps
<1>4. ASSUME NEW o \in Orders,
             Pays(o) \/ Ages(o) \/ Quotes(o) \/ MovesByHand(o) \/ Rescreens(o)
      PROVE  IInv'
  BY <1>4, PaysKeeps, AgesKeeps, QuotesKeeps, MovesByHandKeeps, RescreensKeeps
<1>5. ASSUME NEW a \in DOMAIN approvals, Answers(a) \/ Settles(a) \/ Forgets(a)
      PROVE  IInv'
  BY <1>5, AnswersKeeps, SettlesKeeps, ForgetsKeeps
<1>6. CASE UNCHANGED vars
  <2>1. UNCHANGED <<order, copies, cards, approvals, late, disk, rec, pc, at, count, seen,
                    excused, faults>>
    BY <1>6 DEF vars, scrooge, run
  <2>2. TypeOK'
    BY <2>1 DEF IInv, TypeOK
  <2> QED BY <2>1, <2>2, ElsewhereKeeps DEF run
<1> QED BY <1>1, <1>2, <1>3, <1>4, <1>5, <1>6 DEF Next

\* The shapes of the desk's state, and that it reads the orders once a run
\* (OrderDesk.run, _read_orders).
THEOREM TypesHold == Spec => []TypeOK
<1>1. Init => IInv
  BY InitHolds
<1>2. IInv /\ [Next]_vars => IInv'
  BY StepKeeps
<1>3. IInv => TypeOK
  BY DEF IInv
<1> QED BY <1>1, <1>2, <1>3, PTL DEF Spec

\* Cards still to be answered and emails that went are in the record, and the
\* disk is behind it only in what becomes of those that wait (_closed,
\* _follow_up, save).
THEOREM NothingOutOfSight == Spec => []IInv
<1>1. Init => IInv
  BY InitHolds
<1>2. IInv /\ [Next]_vars => IInv'
  BY StepKeeps
<1> QED BY <1>1, <1>2, PTL DEF Spec

\* Never twice: a second copy only of an email the desk lost sight of (_closed,
\* _already_sent).
THEOREM NeverTwice == Spec => []NoSecondCopy
<1>1. IInv => NoSecondCopy
  <2> SUFFICES ASSUME IInv, NEW o \in Orders, NEW k \in Kinds, copies[o][k] > 1,
                      <<o, k>> \notin excused
               PROVE  FALSE
    BY DEF NoSecondCopy
  <2>1. copies[o][k] \in Nat /\ copies[o][k] <= 1
    BY DEF IInv, InSight, TypeOK
  <2> QED BY <2>1
<1> QED BY <1>1, NothingOutOfSight, PTL

\* No client is both thanked and declined, but by an email the desk lost sight
\* of (the opposite kinds of _closed).
THEOREM OneOfTheTwo == Spec => []NeverBothAnswers
<1>1. IInv => NeverBothAnswers
  <2> SUFFICES ASSUME IInv, NEW o \in Orders, NEW k \in Acks,
                      copies[o][k] > 0, copies[o]["decline"] > 0,
                      <<o, k>> \notin excused, <<o, "decline">> \notin excused
               PROVE  FALSE
    BY DEF NeverBothAnswers
  <2>1. ASSUME NEW j \in Kinds, copies[o][j] > 0, <<o, j>> \notin excused
        PROVE  Settled(rec, o, j)
    <3>1. copies[o][j] \in Nat /\ copies[o][j] <= 1
      BY <2>1 DEF IInv, InSight, TypeOK
    <3>2. copies[o][j] = 1
      BY <2>1, <3>1
    <3>3. PICK i \in DOMAIN rec.emails : SentBy(i, o, j)
      BY <2>1, <3>2 DEF IInv, InSight
    <3> QED BY <3>3 DEF SentBy, InTheWay, Settled
  <2>2. k \in Kinds /\ "decline" \in Kinds
    BY DEF Kinds
  <2>3. Settled(rec, o, k) /\ Settled(rec, o, "decline")
    BY <2>1, <2>2
  <2> QED BY <2>3 DEF IInv, RecordHolds, OneAnswer
<1> QED BY <1>1, NothingOutOfSight, PTL

\* A move of the desk is one of an order whose client got the email that says
\* so, and that nobody had settled by hand when the run read it: had the run
\* itself settled it, it would not move it again (_set_statuses).
LEMMA MovesWhatItAnswered ==
  ASSUME IInv, SetStatus, NEW o \in Orders, order'[o].status # order[o].status
  PROVE  /\ \E k \in Answering : copies[o][k] > 0 /\ order'[o].status = Target[k]
         /\ order[o].status \in {"in_progress", "declined", "delivered"} => o \in late
<1>1. PICK i \in DOMAIN rec.emails :
        First(i, ToMove) /\ at' = i + 1 /\ Move(rec.emails[i], i)
  BY DEF SetStatus
<1>2. Moving(rec.emails[i]) /\ pc # "idle"
  BY <1>1 DEF First, ToMove, SetStatus
<1>3. /\ o = rec.emails[i].order
      /\ order'[o].status = Target[rec.emails[i].kind]
      /\ seen[o].status \in From[rec.emails[i].kind]
  BY <1>1, <1>2, MoveEffect
<1>4. /\ rec.emails[i].kind \in Kinds /\ rec.emails[i].kind \in Answering
      /\ rec.emails[i].status = "sent"
  BY <1>2 DEF Moving, Kinds, Acks, Answering
<1>5. copies[o][rec.emails[i].kind] > 0
  BY <1>3, <1>4 DEF IInv, RecordHolds, SentWent
<1>6. ASSUME order[o].status \in ByHand, o \notin late PROVE FALSE
  <2>1. seen[o].status \in {"paid", "quote_requested"}
    BY <1>3, <1>4 DEF From
  <2>2. PICK n \in DOMAIN rec.emails : MovedBy(o, n)
    BY <1>2, <1>6, <2>1 DEF IInv, SettledSince
  <2>3. /\ Settled(rec, o, rec.emails[n].kind) /\ Settled(rec, o, rec.emails[i].kind)
        /\ rec.emails[n].kind \in Answering
        /\ Target[rec.emails[n].kind] # Target[rec.emails[i].kind]
    BY <1>3, <1>4, <2>2 DEF Settled, MovedBy, Retryable
  <2>4. \E k \in Acks : Settled(rec, o, k) /\ Settled(rec, o, "decline")
    BY <1>4, <2>3 DEF Answering, Target, Acks
  <2> QED BY <2>4 DEF IInv, RecordHolds, OneAnswer
<1> QED BY <1>3, <1>4, <1>5, <1>6 DEF ByHand

\* Every status the desk sets is the one of an email the client got, and never over one
\* the owner had settled before the run read the orders (_set_statuses).
THEOREM MovesOnlyAnswered == Spec => MovesOnlyWhatItAnswered
<1> DEFINE Rightly ==
      SetStatus => \A o \in Orders : order'[o].status # order[o].status =>
        /\ \E k \in Answering : copies[o][k] > 0 /\ order'[o].status = Target[k]
        /\ order[o].status \in {"in_progress", "declined", "delivered"} => o \in late
<1>1. IInv /\ [Next]_vars => [Rightly]_vars
  BY MovesWhatItAnswered
<1> QED BY <1>1, NothingOutOfSight, PTL DEF Spec, MovesOnlyWhatItAnswered

===============================================================================
