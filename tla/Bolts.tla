------------------------------- MODULE Bolts -------------------------------
(***************************************************************************)
(* The Bolts economy: one run of the worker treasury.bolts (crew/bolts.py) *)
(* pays each verified event (economy/collector.py, payouts.py), then the   *)
(* revenue newly received, then lets every account furnish its home        *)
(* (shop.py); all of it rows of one chained file whose head sidecar is     *)
(* written after the row (ledger.py).                                      *)
(*                                                                         *)
(* A run has one clock, so the days that matter are the days runs begin    *)
(* in; a row carries whether it is of the latest of them.  The chain's     *)
(* hashes are left out: nothing here edits a row.  A fault is a death or   *)
(* an OSError in the middle of a write, or a source that cannot be read.   *)
(* What is on record may be so no longer: a resolved approval is dropped   *)
(* after a week (approvals.py), a delivered order cancelled (desk.py).     *)
(* Definitions introduced by "Mistake:" model no code.                     *)
(***************************************************************************)
EXTENDS Naturals, Integers, Sequences, FiniteSetsExt

CONSTANTS
  Events,        \* outcomes that other parts put on record: posts, builds, orders
  Accounts,
  Moss,          \* REVENUE_ACCOUNT
  AccountOf,     \* [Events -> Accounts]
  Amount,        \* [Events -> Nat]: amount_for
  CentsPerBolt, MaxPerRevenue,
  PerAccount, Global,     \* the daily caps
  Items,
  Kind,          \* [Items -> {"tier", "room", "furnishing"}]
  Price,         \* [Items -> Nat]
  Tiers,         \* the tiers that can be bought, in their order
  RoomSlots,     \* by the number of tiers owned
  PerRoom,       \* FURNISHING_SLOTS_PER_ROOM
  Wishlist,      \* [Accounts -> Seq(Items)]
  Totals,        \* bound: the revenue figures Scrooge may report, in cents
  MaxFaults,     \* bound: faults
  None

ASSUME AmountsTyped ==
  /\ Moss \in Accounts /\ AccountOf \in [Events -> Accounts]
  /\ Amount \in [Events -> Nat] /\ \A e \in Events : Amount[e] <= PerAccount
  /\ PerAccount \in Nat /\ Global \in Nat /\ PerAccount <= Global
  /\ CentsPerBolt \in Nat \ {0} /\ MaxPerRevenue \in 0 .. PerAccount
ASSUME ShopTyped ==
  /\ IsFiniteSet(Items) /\ Kind \in [Items -> {"tier", "room", "furnishing"}]
  /\ Price \in [Items -> Nat \ {0}] /\ Wishlist \in [Accounts -> Seq(Items)]
  /\ Tiers \in Seq(Items) /\ \A n \in DOMAIN Tiers : Kind[Tiers[n]] = "tier"
  /\ RoomSlots \in [0 .. Len(Tiers) -> Nat] /\ PerRoom \in Nat
  /\ \A m, n \in 0 .. Len(Tiers) : m <= n => RoomSlots[m] <= RoomSlots[n]
  /\ None \notin Accounts
ASSUME BoundsTyped == Totals \subseteq Nat /\ MaxFaults \in Nat

VARIABLES
  rows,      \* bolts.jsonl: [account, delta, id, today]
  head,      \* bolts.head: the number of rows it anchors, 0 without the file
  pc,        \* where the worker stands
  left,      \* the verified events this run has still to pay
  shop,      \* settle_all: accounts to go, and settle's loop for one of them
  verified,  \* the events on record by the latest run
  faults,
  missed,    \* history: anchors missed in a row
  backed     \* history: the events that were on record when their row was written

file == <<rows, head, missed>>
vars == <<file, pc, left, shop, verified, faults, backed>>

Closed == [accounts |-> {}, who |-> None, at |-> 1, progress |-> FALSE]

Init ==
  /\ rows = <<>> /\ head = 0 /\ missed = 0
  /\ pc = "idle" /\ left = {} /\ shop = Closed
  /\ verified = {} /\ backed = {} /\ faults = 0

-----------------------------------------------------------------------------
(* The ledger *)

Index == 1 .. Len(rows)

\* Mistake: an anchor one row behind counts as tampering.
BrokenAtOnce == head # 0 /\ Len(rows) > head

\* _scan: the anchor may be one row behind, and may be missing.
Broken == head # 0 /\ Len(rows) > head + 1

Recorded(id) == \E i \in Index : rows[i].id = id

\* The sum of the first n weights, in their order.
SumTo(n, weight) ==
  LET upto[i \in 0 .. n] == IF i = 0 THEN 0 ELSE upto[i - 1] + weight[i]
  IN  upto[n]

DeltaOf(S) == SumTo(Len(rows), [i \in Index |-> IF i \in S THEN rows[i].delta ELSE 0])

Balance(a) == DeltaOf({i \in Index : rows[i].account = a})

\* minted_today, of one account or of all.
Minted(A) == DeltaOf({i \in Index : rows[i].today /\ rows[i].delta > 0
                                     /\ rows[i].account \in A})

Row(a, delta, id) == [account |-> a, delta |-> delta, id |-> id, today |-> TRUE]

\* append: the row, then the anchor.
Write(row) ==
  /\ rows' = Append(rows, row) /\ head' = Len(rows) + 1
  /\ missed' = 0

\* It breaks in between: the line is torn, which no reader counts as a row and the
\* next append sets aside, or the row is there without its anchor.
CutOff(row) ==
  \/ UNCHANGED file
  \/ rows' = Append(rows, row) /\ missed' = missed + 1 /\ UNCHANGED head

\* The run is over; the next one starts from the files.
Over == pc' = "idle" /\ left' = {} /\ shop' = Closed

Fault == faults < MaxFaults /\ faults' = faults + 1

\* One append in a run: done, and the run goes on with Then, or cut off.
Appends(row, Then) ==
  \/ Write(row) /\ Then /\ UNCHANGED faults
  \/ CutOff(row) /\ Over /\ Fault

Passes(Then) == UNCHANGED <<file, faults>> /\ Then

\* A refusal is counted in refusals.jsonl; when that write fails the run is over.
Refused(Then) == Passes(Then) \/ (UNCHANGED file /\ Over /\ Fault)

-----------------------------------------------------------------------------
(* The collector *)

\* Mistake: the caps are asked before the amount is added.
FullAlready(a, amount) ==
  Minted({a}) >= PerAccount \/ Minted(Accounts) >= Global

OverCap(a, amount) ==
  Minted({a}) + amount > PerAccount \/ Minted(Accounts) + amount > Global

\* pay: nothing for what is paid, worth nothing, or over a cap; a refused event
\* is tried again by the next run.
Pay(a, amount, id, Then) ==
  IF Recorded(id) \/ amount = 0 THEN Passes(Then)
  ELSE IF Broken \/ OverCap(a, amount) THEN Refused(Then)
  ELSE Appends(Row(a, amount, id), Then)

\* Mistake: the caps count the mints of all days.
BeginNeverResets(newDay) ==
  /\ pc = "idle" /\ ~Broken
  /\ pc' = "collecting"
  /\ verified' \in SUBSET Events /\ left' = verified'
  /\ UNCHANGED <<file, shop, faults, backed>>

\* A run begins, on the day of the last one or later, and reads its sources, which
\* may have forgotten what an earlier run saw.
Begin(newDay) ==
  /\ pc = "idle" /\ ~Broken
  /\ rows' = IF newDay THEN [i \in Index |-> [rows[i] EXCEPT !.today = FALSE]]
             ELSE rows
  /\ pc' = "collecting"
  /\ verified' \in SUBSET Events
  /\ \/ left' = verified' /\ UNCHANGED faults
     \/ left' \in SUBSET verified' /\ Fault
  /\ UNCHANGED <<head, missed, shop, backed>>

PayEvent ==
  /\ pc = "collecting"
  /\ \E e \in left :
       /\ Pay(AccountOf[e], Amount[e], <<"event", e>>,
              left' = left \ {e} /\ UNCHANGED <<pc, shop>>)
       /\ backed' = IF rows' = rows THEN backed ELSE backed \cup ({e} \cap verified)
  /\ UNCHANGED verified

Marks == {i \in Index : rows[i].id[1] = "revenue"}
Mark == rows[Max(Marks)].id[2]

\* Mistake: the cents are counted from the first mark on.
RevenueSinceBaseline(total) ==
  Min({MaxPerRevenue, (total - rows[Min(Marks)].id[2]) \div CentsPerBolt})

\* What the cents since the last mark are worth: rounded down, and capped.
RevenueAmount(total) == Min({MaxPerRevenue, (total - Mark) \div CentsPerBolt})

ToShop ==
  /\ pc' = "shopping" /\ UNCHANGED left
  /\ shop' = [Closed EXCEPT !.accounts = {rows'[i].account : i \in DOMAIN rows'}]

\* _revenue: the first figure seen is only recorded, a lower one ignored.
PayRevenue ==
  /\ pc = "collecting" /\ left = {}
  /\ \/ \E total \in Totals :
          IF Marks = {} THEN Appends(Row(Moss, 0, <<"revenue", total>>), ToShop)
          ELSE IF total <= Mark THEN Passes(ToShop)
          ELSE Pay(Moss, RevenueAmount(total), <<"revenue", total>>, ToShop)
     \/ Fault /\ UNCHANGED file /\ ToShop
  /\ UNCHANGED <<verified, backed>>

-----------------------------------------------------------------------------
(* The shop *)

Owned(a) == {item \in Items : Recorded(<<"buy", a, item>>)}
OfKind(S, kind) == {item \in S : Kind[item] = kind}
TierOf(a) == Max({0} \cup {n \in DOMAIN Tiers : Tiers[n] \in Owned(a)})
Rooms(a) == Cardinality(OfKind(Owned(a), "room"))

\* May a's home take the item?  The next tier, a free room, a free place.
HasPlace(a, item) ==
  CASE Kind[item] = "tier" ->
         TierOf(a) < Len(Tiers) /\ item = Tiers[TierOf(a) + 1]
    [] Kind[item] = "room" -> Rooms(a) < RoomSlots[TierOf(a)]
    [] OTHER -> Cardinality(OfKind(Owned(a), "furnishing")) < PerRoom * (1 + Rooms(a))

Enter ==
  /\ pc = "shopping" /\ shop.who = None /\ shop.accounts # {}
  /\ \E a \in shop.accounts :
       shop' = [accounts |-> shop.accounts \ {a}, who |-> a, at |-> 1, progress |-> FALSE]
  /\ UNCHANGED <<file, pc, left, verified, faults, backed>>

Close ==
  /\ pc = "shopping" /\ shop.who = None /\ shop.accounts = {}
  /\ Over /\ UNCHANGED <<file, verified, faults, backed>>

Wanted == Wishlist[shop.who][shop.at]
AtEnd == shop.at > Len(Wishlist[shop.who])
OnTo(at, progress) == shop' = [shop EXCEPT !.at = at, !.progress = progress]
                      /\ UNCHANGED <<pc, left>>

\* settle: the next thing on the list, unless owned or without a place; the first
\* that costs too much ends the pass.
Buy ==
  /\ pc = "shopping" /\ shop.who # None /\ ~AtEnd
  /\ LET a == shop.who IN
       IF Wanted \in Owned(a) \/ ~HasPlace(a, Wanted)
         THEN Passes(OnTo(shop.at + 1, shop.progress))
       ELSE IF Balance(a) < Price[Wanted]
         THEN Passes(OnTo(Len(Wishlist[a]) + 1, shop.progress))
       ELSE Appends(Row(a, -Price[Wanted], <<"buy", a, Wanted>>),
                    OnTo(shop.at + 1, TRUE))
  /\ UNCHANGED <<verified, backed>>

\* Another pass while something was bought.
PassEnds ==
  /\ pc = "shopping" /\ shop.who # None /\ AtEnd
  /\ shop' = IF shop.progress THEN [shop EXCEPT !.at = 1, !.progress = FALSE]
             ELSE [shop EXCEPT !.who = None]
  /\ UNCHANGED <<file, pc, left, verified, faults, backed>>

-----------------------------------------------------------------------------
Step == PayEvent \/ PayRevenue \/ Enter \/ Close \/ Buy \/ PassEnds

Next ==
  \/ \E newDay \in BOOLEAN : Begin(newDay)
  \/ Step

\* The scheduler goes on starting runs, on ever new days, and a run goes on.
Spec == Init /\ [][Next]_vars /\ WF_vars(Step) /\ SF_vars(Begin(TRUE))

-----------------------------------------------------------------------------
(* Properties *)

RowIds == ({"event"} \X Events) \cup ({"revenue"} \X Nat) \cup ({"buy"} \X Accounts \X Items)

\* Every variable has its type.
TypeOK ==
  /\ rows \in Seq([account : Accounts, delta : Int, id : RowIds, today : BOOLEAN])
  /\ head \in Nat /\ missed \in Nat
  /\ pc \in {"idle", "collecting", "shopping"}
  /\ left \subseteq verified /\ verified \subseteq Events /\ backed \subseteq Events
  /\ shop \in [accounts : SUBSET Accounts, who : Accounts \cup {None},
              at : Nat \ {0}, progress : BOOLEAN]
  /\ faults \in Nat

Once == \A i, j \in Index : rows[i].id = rows[j].id => i = j

ForWhatHappened ==
  \A i \in Index : rows[i].delta > 0 =>
    \/ \E e \in backed : rows[i].id = <<"event", e>> /\ rows[i].delta = Amount[e]
    \/ rows[i].id[1] = "revenue"

RevenueCovered ==
  Marks # {} => DeltaOf(Marks) * CentsPerBolt <= Mark - rows[Min(Marks)].id[2]

\* Every row is for an event of its own; a payment is what an event is worth that
\* was still on record for the run that paid it, however long it had been refused;
\* and all the Bolts for revenue together are covered by the rise since the first
\* figure seen, however often runs are cut off, capped or repeated (append's
\* event_id, amount_for, "if still verified", _revenue_watermark).
OnlyWhatIsDue == Once /\ ForWhatHappened /\ RevenueCovered

\* What the limits promise: a day mints no more than its caps, no account is
\* ever below zero, and a home holds no more than its rooms and places (pay's caps,
\* InsufficientBolts, the rules of buy).
LimitsHold ==
  /\ Minted(Accounts) <= Global
  /\ \A a \in Accounts :
       /\ Minted({a}) <= PerAccount /\ Balance(a) >= 0
       /\ Rooms(a) <= RoomSlots[TierOf(a)]
       /\ Cardinality(OfKind(Owned(a), "furnishing")) <= PerRoom * (1 + Rooms(a))

\* The ledger refuses for good only after two anchors in a row were missed: one
\* crash, a torn line or a run cut short never makes it BROKEN (_scan's "crash gap").
BrokenIsEarned == Broken => missed >= 2

\* Every event that stays on record is paid in the end, whatever caps and breaks
\* delay it, unless the ledger is BROKEN (pay's refusals, _quarantine).
EventuallyPaid ==
  \A e \in Events :
    (e \in verified /\ Amount[e] > 0)
      ~> (Recorded(<<"event", e>>) \/ Broken \/ e \notin verified)

=============================================================================
