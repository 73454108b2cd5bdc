---------------------------- MODULE DigestProofs ----------------------------
(***************************************************************************)
(* Proofs about the daily digest, for any items, number of runs, tries,    *)
(* reactions and passes that break off.                                    *)
(***************************************************************************)
EXTENDS Digest, TLAPS

-----------------------------------------------------------------------------
(* The inductive invariant. *)

Reading == at \in {"verdict", "claim"}
Posting == at \in {"report", "previews", "end"}

\* What a card offers for approval was whole when it went up and is whole still.
CardsAreWhole ==
  \A k \in Runs : \A i \in cards[k].approvable :
    i \in cards[k].items /\ preview[i] = "whole"

\* A reaction that covers such an item was made by an owner who had seen it.
ReactionsAreInformed ==
  \A k \in Runs : \A i \in cards[k].approvable :
    "all" \in onCard[k] \/ i \in onCard[k] => <<k, i>> \in informed

\* A card goes up once in its run, and bears no reaction before.
CardsGoUpOnce ==
  \A k \in Runs :
    /\ k > run => ~ cards[k].posted
    /\ k = run /\ "card" \notin done => ~ cards[k].posted
    /\ ~ cards[k].posted => onCard[k] = {}

\* Of two cards only the later one counts, and none but the run's own while it is posted.
OneCardCounts ==
  /\ \A k, l \in Runs : k < l /\ cards[l].posted => ~ Counts(k)
  /\ Posting => \A k \in Runs \ {run} : ~ Counts(k)

\* What is being read from a card was covered by an informed reaction on the newest one.
ReadingIsInformed ==
  Reading =>
    /\ cur \in Runs /\ \A k \in Runs : k > cur => ~ cards[k].posted
    /\ \A i \in chosen : <<cur, i>> \in informed
    /\ at = "claim" => item \in Items /\ <<cur, item>> \in informed

\* A no on the item about to be claimed landed after its preview was asked.
NoesStand ==
  /\ at = "claim" /\ "no" \in onPreview[item] => item \in late
  /\ at # "claim" => late = {}

ReadInv ==
  /\ TypeOK
  /\ CardsAreWhole /\ ReactionsAreInformed /\ CardsGoUpOnce /\ OneCardCounts
  /\ ReadingIsInformed /\ NoesStand /\ NeverBlind

LEMMA InitReadInv == Init => ReadInv
<1> SUFFICES ASSUME Init PROVE ReadInv
  OBVIOUS
<1> USE DEF Init
<1>1. TypeOK
  <2>1. NoCard \in Card
    BY DEF NoCard, Card
  <2>2. 0 \in 0 .. MaxRuns /\ 0 \in 0 .. PartTries
    BY BoundsTyped
  <2> QED BY <2>1, <2>2 DEF TypeOK
<1>2. CardsAreWhole /\ ReactionsAreInformed /\ CardsGoUpOnce /\ OneCardCounts
  BY DEF CardsAreWhole, ReactionsAreInformed, CardsGoUpOnce, OneCardCounts, Counts, NoCard,
         Posting
<1>3. ReadingIsInformed /\ NoesStand /\ NeverBlind
  BY DEF ReadingIsInformed, NoesStand, NeverBlind, Reading
<1> QED BY <1>1, <1>2, <1>3 DEF ReadInv

-----------------------------------------------------------------------------
(* Every step keeps the types. *)

LEMMA ZeroTyped == 0 \in 0 .. MaxRuns /\ 0 \in 0 .. PartTries
  BY BoundsTyped

LEMMA PartsTyped ==
  /\ "report" \in Parts /\ "card" \in Parts /\ Items \subseteq Parts
  /\ \A i \in Items : i # "card" /\ i # "report" /\ i # "all" /\ i # "no"
  BY PartsApart DEF Parts

\* A part that succeeded or was refused.
LEMMA PartTypes ==
  ASSUME TypeOK, NEW p \in Parts,
         Finished(p) \/ (Refused(p) /\ ~ Settled(p)) \/ UNCHANGED <<done, tries, owed>>
  PROVE  /\ done' \subseteq Parts /\ tries' \in [Parts -> 0 .. PartTries]
         /\ owed' \in BOOLEAN
         /\ done \subseteq done' /\ \A q \in Parts \ {p} : q \in done' => q \in done
<1>1. PartTries \in Nat \ {0}
  BY BoundsTyped
<1>2. CASE Finished(p)
  BY <1>1, <1>2 DEF Finished, TypeOK
<1>3. CASE Refused(p) /\ ~ Settled(p)
  <2>1. tries[p] \in 0 .. PartTries /\ tries[p] # PartTries
    BY <1>3 DEF Settled, GaveUp, TypeOK
  <2>2. tries[p] + 1 \in 0 .. PartTries
    BY <1>1, <2>1
  <2>3. tries' \in [Parts -> 0 .. PartTries] /\ done' = done
    BY <1>3, <2>2 DEF Refused, TypeOK
  <2>4. owed' \in BOOLEAN
    BY <1>3 DEF Refused, TypeOK
  <2> QED BY <2>3, <2>4 DEF TypeOK
<1>4. CASE UNCHANGED <<done, tries, owed>>
  BY <1>4 DEF TypeOK
<1> QED BY <1>2, <1>3, <1>4

LEMMA OwnerTypes ==
  ASSUME TypeOK, NEW i \in Items,
         \/ Park(i) \/ AnsweredElsewhere(i)
         \/ \E e \in {"yes", "no"} : ReactToPreview(i, e)
  PROVE  TypeOK'
<1> USE DEF discord, plan, progress, locals, history, bounds
<1>1. CASE Park(i)
  BY <1>1 DEF Park, TypeOK
<1>2. CASE AnsweredElsewhere(i)
  BY <1>2 DEF AnsweredElsewhere, TypeOK
<1>3. CASE \E e \in {"yes", "no"} : ReactToPreview(i, e)
  BY <1>3 DEF ReactToPreview, TypeOK
<1> QED BY <1>1, <1>2, <1>3

LEMMA CardReactionTypes ==
  ASSUME TypeOK, NEW k \in Runs, NEW e \in {"all", "no"} \cup Items, ReactToCard(k, e)
  PROVE  TypeOK'
<1>1. informed' \subseteq Runs \X Items
  <2>1. \A j \in Covers(k, e) : j \in Items
    BY DEF Covers, TypeOK, Card
  <2> QED BY <2>1 DEF ReactToCard, TypeOK
<1>2. onCard' \in [Runs -> SUBSET ({"all", "no"} \cup Items)]
  BY DEF ReactToCard, TypeOK
<1>3. /\ reacts' = reacts + 1
      /\ UNCHANGED <<queue, preview, onPreview, cards, run, items, expired, done, tries,
                     complete, reported, at, cur, item, chosen, left, owed, late, via, told,
                     faults>>
  BY DEF ReactToCard, plan, progress, locals
<1> QED BY <1>1, <1>2, <1>3 DEF TypeOK

LEMMA ReadTypes ==
  ASSUME TypeOK,
         \/ \E i \in Items : FollowPreview(i)
         \/ \E k \in Runs : FollowCard(k)
         \/ AskPreview \/ ClaimItem \/ CardRead
  PROVE  TypeOK'
<1> USE DEF discord, plan, progress, locals, history, bounds
<1>1. CASE \E i \in Items : FollowPreview(i)
  BY <1>1 DEF FollowPreview, TypeOK
<1>2. CASE \E k \in Runs : FollowCard(k)
  <2>1. PICK k \in Runs : FollowCard(k)
    BY <1>2
  <2>2. k \in 0 .. MaxRuns /\ Chosen(k) \subseteq Items
    BY BoundsTyped DEF Runs, Chosen, Pending
  <2>3. /\ at' = "verdict" /\ cur' = k /\ chosen' = Chosen(k) /\ late' = late
        /\ UNCHANGED <<queue, preview, onPreview, cards, onCard, run, items, expired, done,
                       tries, complete, reported, item, left, owed, informed, via, told,
                       reacts, faults>>
    BY <2>1 DEF FollowCard, history
  <2> QED BY <2>2, <2>3 DEF TypeOK
<1>3. CASE AskPreview
  BY <1>3 DEF AskPreview, TypeOK
<1>4. CASE ClaimItem
  BY <1>4 DEF ClaimItem, TypeOK
<1>5. CASE CardRead
  BY <1>5, ZeroTyped DEF CardRead, AtRest, TypeOK
<1> QED BY <1>1, <1>2, <1>3, <1>4, <1>5

LEMMA RunTypes ==
  ASSUME TypeOK, StartRun \/ RunStep
  PROVE  TypeOK'
<1> USE DEF discord, plan, progress, locals, history, bounds
<1>1. CASE StartRun
  <2>1. run' \in 0 .. MaxRuns
    BY <1>1, BoundsTyped DEF StartRun, TypeOK
  <2>2. /\ items' \subseteq Items /\ expired' \subseteq Items
        /\ tries' \in [Parts -> 0 .. PartTries]
    BY <1>1, ZeroTyped DEF StartRun, Pending, Unreported
  <2> QED BY <1>1, <2>1, <2>2 DEF StartRun, TypeOK
<1>2. CASE ContinueRun
  BY <1>2 DEF ContinueRun, TypeOK
<1>3. CASE Supersede
  <2>1. cards' \in [Runs -> Card]
    <3>1. ASSUME NEW k \in Runs
          PROVE  cards[k] \in Card /\ [cards[k] EXCEPT !.superseded = TRUE] \in Card
      <4>1. cards[k] \in Card
        BY DEF TypeOK
      <4> QED BY <4>1 DEF Card
    <3> QED BY <1>3, <3>1 DEF Supersede
  <2> QED BY <1>3, <2>1 DEF Supersede, TypeOK
<1>4. CASE Report
  <2>1. Finished("report") \/ (Refused("report") /\ ~ Settled("report"))
          \/ UNCHANGED <<done, tries, owed>>
    BY <1>4 DEF Report
  <2>2. told' \in [Items -> Nat]
    BY <1>4 DEF Report, TypeOK
  <2> HIDE DEF progress, locals
  <2>3. /\ at' = "previews" /\ left' \subseteq Items
        /\ UNCHANGED <<queue, preview, onPreview, cards, onCard, run, items, expired,
                       complete, reported, cur, item, chosen, informed, late, via, reacts,
                       faults>>
    BY <1>4 DEF Report, Pending
  <2> QED BY <2>1, <2>2, <2>3, PartTypes, PartsTyped DEF TypeOK
<1>5. CASE \E i \in Items : PostPreview(i)
  <2>1. PICK i \in Items : PostPreview(i)
    BY <1>5
  <2>2. Finished(i) \/ (Refused(i) /\ ~ Settled(i)) \/ UNCHANGED <<done, tries, owed>>
    BY <2>1 DEF PostPreview
  <2>3. /\ preview' \in [Items -> {"none", "part", "blind", "whole"}]
        /\ onPreview' \in [Items -> SUBSET {"yes", "no"}]
    BY <2>1 DEF PostPreview, Posted, TypeOK
  <2>4. /\ left' \subseteq left
        /\ UNCHANGED <<queue, cards, onCard, run, items, expired, complete, reported, at, cur,
                       item, chosen, informed, late, via, told, reacts, faults>>
    BY <2>1 DEF PostPreview
  <2> QED BY <2>2, <2>3, <2>4, PartTypes, PartsTyped DEF TypeOK
<1>6. CASE PostCard
  <2>1. Finished("card") \/ (Refused("card") /\ ~ Settled("card"))
          \/ UNCHANGED <<done, tries, owed>>
    BY <1>6 DEF PostCard
  <2>2. NewCard \in Card
    BY DEF NewCard, Card, TypeOK
  <2>3. cards' \in [Runs -> Card]
    BY <1>6, <2>2 DEF PostCard, TypeOK
  <2>4. /\ at' = "end"
        /\ UNCHANGED <<queue, preview, onPreview, onCard, run, items, expired, complete,
                       reported, cur, item, chosen, left, informed, late, via, told, reacts,
                       faults>>
    BY <1>6 DEF PostCard
  <2> QED BY <2>1, <2>3, <2>4, PartTypes, PartsTyped DEF TypeOK
<1>7. CASE EndPass
  BY <1>7, ZeroTyped DEF EndPass, AtRest, TypeOK
<1> QED BY <1>1, <1>2, <1>3, <1>4, <1>5, <1>6, <1>7 DEF RunStep

LEMMA BreakTypes ==
  ASSUME TypeOK, Breaks
  PROVE  TypeOK'
<1>1. /\ preview' \in [Items -> {"none", "part", "blind", "whole"}]
      /\ onPreview' \in [Items -> SUBSET {"yes", "no"}]
      /\ told' \in [Items -> Nat]
  BY DEF Breaks, Posted, TypeOK
<1>2. /\ at' = "idle" /\ cur' = 0 /\ item' = "none" /\ chosen' = {} /\ left' = {}
      /\ owed' = FALSE /\ late' = {} /\ faults' = faults + 1
      /\ UNCHANGED <<queue, cards, onCard, run, items, expired, done, tries, complete,
                     reported, informed, via, reacts>>
  BY DEF Breaks, AtRest, plan, progress
<1>3. faults' \in Nat
  BY <1>2 DEF TypeOK
<1> QED BY <1>1, <1>2, <1>3, ZeroTyped DEF TypeOK

LEMMA TypeKeeps == TypeOK /\ [Next]_vars => TypeOK'
<1> SUFFICES ASSUME TypeOK, [Next]_vars PROVE TypeOK'
  OBVIOUS
<1>1. CASE UNCHANGED vars
  BY <1>1 DEF TypeOK, vars, discord, plan, progress, locals, history, bounds
<1>2. CASE Next
  BY <1>2, OwnerTypes, CardReactionTypes, ReadTypes, RunTypes, BreakTypes DEF Next, ReadStep
<1> QED BY <1>1, <1>2

-----------------------------------------------------------------------------
(* Every step keeps what is read from the cards in order. *)

\* Whatever the step does, no reading is under way after it.
LEMMA NothingRead ==
  ASSUME ~ Reading', late' = {}
  PROVE  ReadingIsInformed' /\ NoesStand'
<1> QED BY DEF ReadingIsInformed, NoesStand, Reading

\* Only the queue's word on an item changes.
LEMMA QueueKeeps ==
  ASSUME ReadInv, TypeOK', UNCHANGED <<discord, plan, progress, at, locals, history>>
  PROVE  ReadInv'
<1> QED BY DEF ReadInv, discord, plan, progress, locals, history, CardsAreWhole,
           ReactionsAreInformed, CardsGoUpOnce, OneCardCounts, Counts, Posting, Reading,
           ReadingIsInformed, NoesStand, NeverBlind

LEMMA ReactToPreviewKeeps ==
  ASSUME ReadInv, TypeOK', NEW i \in Items, NEW e \in {"yes", "no"}, ReactToPreview(i, e)
  PROVE  ReadInv'
<1> USE DEF ReadInv
<1>1. /\ onPreview' = [onPreview EXCEPT ![i] = @ \cup {e}]
      /\ late' = IF e = "no" /\ at = "claim" /\ item = i THEN {i} ELSE late
      /\ UNCHANGED <<preview, cards, onCard, run, done, at, cur, item, chosen, informed, via>>
  BY DEF ReactToPreview, TypeOK, plan, progress, locals, history
<1>2. CardsAreWhole' /\ ReactionsAreInformed' /\ CardsGoUpOnce' /\ OneCardCounts'
  BY <1>1 DEF CardsAreWhole, ReactionsAreInformed, CardsGoUpOnce, OneCardCounts, Counts,
              Posting
<1>3. ReadingIsInformed' /\ NeverBlind'
  BY <1>1 DEF ReadingIsInformed, NeverBlind, Reading
<1>4. NoesStand'
  BY <1>1 DEF NoesStand, Reading, TypeOK
<1> QED BY <1>2, <1>3, <1>4

LEMMA ReactToCardKeeps ==
  ASSUME ReadInv, TypeOK', NEW k \in Runs, NEW e \in {"all", "no"} \cup Items,
         ReactToCard(k, e)
  PROVE  ReadInv'
<1> USE DEF ReadInv
<1>1. /\ cards[k].posted /\ onCard' = [onCard EXCEPT ![k] = @ \cup {e}]
      /\ informed' = informed \cup {<<k, i>> : i \in {j \in Covers(k, e) : preview[j] = "whole"}}
      /\ UNCHANGED <<preview, onPreview, cards, run, done, at, cur, item, chosen, late, via>>
  BY DEF ReactToCard, plan, progress, locals
<1>2. CardsAreWhole' /\ OneCardCounts'
  BY <1>1 DEF CardsAreWhole, OneCardCounts, Counts, Posting
<1>3. CardsGoUpOnce'
  BY <1>1 DEF CardsGoUpOnce, TypeOK
<1>4. ReactionsAreInformed'
  <2> SUFFICES ASSUME NEW l \in Runs, NEW i \in cards[l].approvable,
                      "all" \in onCard'[l] \/ i \in onCard'[l]
               PROVE  <<l, i>> \in informed'
    BY <1>1 DEF ReactionsAreInformed
  <2>1. i \in Items /\ i \in cards[l].items /\ preview[i] = "whole"
    BY DEF CardsAreWhole, TypeOK, Card
  <2>2. CASE "all" \in onCard[l] \/ i \in onCard[l]
    BY <1>1, <2>2 DEF ReactionsAreInformed
  <2>3. CASE l = k /\ (e = "all" \/ e = i)
    <3>1. i \in Covers(k, e)
      BY <2>1, <2>3 DEF Covers
    <3> QED BY <1>1, <2>1, <2>3, <3>1
  <2> QED BY <1>1, <2>2, <2>3 DEF TypeOK
<1>5. ReadingIsInformed' /\ NeverBlind' /\ NoesStand'
  BY <1>1 DEF ReadingIsInformed, NeverBlind, NoesStand, Reading
<1> QED BY <1>2, <1>3, <1>4, <1>5

LEMMA FollowCardKeeps ==
  ASSUME ReadInv, TypeOK', NEW k \in Runs, FollowCard(k)
  PROVE  ReadInv'
<1> USE DEF ReadInv
<1>1. /\ Counts(k) /\ at = "idle" /\ at' = "verdict" /\ cur' = k /\ chosen' = Chosen(k)
      /\ late' = late
      /\ UNCHANGED <<preview, onPreview, cards, onCard, run, done, informed, via>>
  BY DEF FollowCard, discord, plan, progress, history
<1>2. CardsAreWhole' /\ ReactionsAreInformed' /\ CardsGoUpOnce' /\ NeverBlind'
  BY <1>1 DEF CardsAreWhole, ReactionsAreInformed, CardsGoUpOnce, NeverBlind
<1>3. OneCardCounts'
  BY <1>1 DEF OneCardCounts, Counts, Posting
<1>4. ReadingIsInformed'
  <2>1. \A l \in Runs : l > k => ~ cards[l].posted
    BY <1>1 DEF OneCardCounts, Runs
  <2>2. \A i \in Chosen(k) : <<k, i>> \in informed
    BY DEF Chosen, Approvable, ReactionsAreInformed
  <2> QED BY <1>1, <2>1, <2>2 DEF ReadingIsInformed
<1>5. NoesStand'
  BY <1>1 DEF NoesStand, Reading
<1> QED BY <1>2, <1>3, <1>4, <1>5

LEMMA AskPreviewKeeps ==
  ASSUME ReadInv, TypeOK', AskPreview
  PROVE  ReadInv'
<1> USE DEF ReadInv
<1>1. PICK i \in chosen :
        /\ at = "verdict" /\ chosen' = chosen \ {i}
        /\ \/ UNCHANGED <<at, item>>
           \/ Verdict(i) = "clear" /\ at' = "claim" /\ item' = i
        /\ UNCHANGED <<preview, onPreview, cards, onCard, run, done, cur, informed, late, via>>
  BY DEF AskPreview, discord, plan, progress, history
<1>2. CardsAreWhole' /\ ReactionsAreInformed' /\ CardsGoUpOnce' /\ NeverBlind'
  BY <1>1 DEF CardsAreWhole, ReactionsAreInformed, CardsGoUpOnce, NeverBlind
<1>3. OneCardCounts'
  BY <1>1 DEF OneCardCounts, Counts, Posting
<1>4. i \in Items
  BY <1>1 DEF TypeOK
<1>5. ReadingIsInformed'
  BY <1>1, <1>4 DEF ReadingIsInformed, Reading
<1>6. Verdict(i) = "clear" => "no" \notin onPreview[i]
  BY DEF Verdict
<1>7. NoesStand'
  BY <1>1, <1>6 DEF NoesStand, Reading
<1> QED BY <1>2, <1>3, <1>5, <1>7

LEMMA ClaimItemKeeps ==
  ASSUME ReadInv, TypeOK', ClaimItem
  PROVE  ReadInv'
<1> USE DEF ReadInv
<1>1. /\ at = "claim" /\ at' = "verdict" /\ item' = "none"
      /\ via' \in {via, [via EXCEPT ![item] = cur]}
      /\ late' = {}
      /\ UNCHANGED <<preview, onPreview, cards, onCard, run, done, cur, chosen, informed>>
  BY DEF ClaimItem, discord, plan, progress
<1>2. CardsAreWhole' /\ ReactionsAreInformed' /\ CardsGoUpOnce'
  BY <1>1 DEF CardsAreWhole, ReactionsAreInformed, CardsGoUpOnce
<1>3. OneCardCounts'
  BY <1>1 DEF OneCardCounts, Counts, Posting
<1>4. ReadingIsInformed' /\ NoesStand'
  BY <1>1 DEF ReadingIsInformed, NoesStand, Reading
<1>5. NeverBlind'
  BY <1>1 DEF ReadingIsInformed, NeverBlind, Reading, TypeOK
<1> QED BY <1>2, <1>3, <1>4, <1>5

\* Steps between readings and postings: a reading ends, a run is taken up again, a pass ends.
LEMMA RestKeeps ==
  ASSUME ReadInv, TypeOK', at' \in {"idle", "supersede"}, late' = {},
         UNCHANGED <<preview, onPreview, cards, onCard, run, done, informed, via>>
  PROVE  ReadInv'
<1> USE DEF ReadInv
<1>1. CardsAreWhole' /\ ReactionsAreInformed' /\ CardsGoUpOnce' /\ NeverBlind'
  BY DEF CardsAreWhole, ReactionsAreInformed, CardsGoUpOnce, NeverBlind
<1>2. OneCardCounts'
  BY DEF OneCardCounts, Counts, Posting
<1>3. ReadingIsInformed' /\ NoesStand'
  BY NothingRead DEF Reading
<1> QED BY <1>1, <1>2, <1>3

LEMMA StartRunKeeps ==
  ASSUME ReadInv, TypeOK', StartRun
  PROVE  ReadInv'
<1> USE DEF ReadInv
<1>1. /\ at = "idle" /\ at' = "supersede" /\ run' = run + 1 /\ done' = {}
      /\ UNCHANGED <<preview, onPreview, cards, onCard, informed, via, late>>
  BY DEF StartRun, discord, history
<1>2. CardsAreWhole' /\ ReactionsAreInformed' /\ NeverBlind'
  BY <1>1 DEF CardsAreWhole, ReactionsAreInformed, NeverBlind
<1>3. CardsGoUpOnce'
  BY <1>1 DEF CardsGoUpOnce, Runs, TypeOK
<1>4. OneCardCounts'
  BY <1>1 DEF OneCardCounts, Counts, Posting
<1>5. late' = {} /\ ~ Reading'
  BY <1>1 DEF NoesStand, Reading
<1> QED BY <1>2, <1>3, <1>4, <1>5, NothingRead

LEMMA SupersedeKeeps ==
  ASSUME ReadInv, TypeOK', Supersede
  PROVE  ReadInv'
<1> USE DEF ReadInv
<1>1. /\ at = "supersede" /\ at' = "report"
      /\ UNCHANGED <<preview, onPreview, onCard, run, done, informed, via, late>>
  BY DEF Supersede, plan, progress, history
<1>2. \A k \in Runs :
        /\ cards'[k].posted = cards[k].posted /\ cards'[k].items = cards[k].items
        /\ cards'[k].approvable = cards[k].approvable
        /\ Counts(k)' => Counts(k)
        /\ k # run => ~ Counts(k)'
  BY DEF Supersede, Counts, TypeOK, Card
<1>3. CardsAreWhole' /\ ReactionsAreInformed' /\ CardsGoUpOnce' /\ NeverBlind'
  BY <1>1, <1>2 DEF CardsAreWhole, ReactionsAreInformed, CardsGoUpOnce, NeverBlind
<1>4. OneCardCounts'
  BY <1>1, <1>2 DEF OneCardCounts
<1>5. late' = {} /\ ~ Reading'
  BY <1>1 DEF NoesStand, Reading
<1> QED BY <1>3, <1>4, <1>5, NothingRead

LEMMA ReportKeeps ==
  ASSUME ReadInv, TypeOK', Report
  PROVE  ReadInv'
<1> USE DEF ReadInv
<1>1. /\ at = "report" /\ at' = "previews" /\ done \subseteq done'
      /\ UNCHANGED <<preview, onPreview, cards, onCard, run, informed, via, late>>
  BY DEF Report, Finished, Refused, discord, plan
<1>2. CardsAreWhole' /\ ReactionsAreInformed' /\ CardsGoUpOnce' /\ NeverBlind'
  BY <1>1 DEF CardsAreWhole, ReactionsAreInformed, CardsGoUpOnce, NeverBlind
<1>3. OneCardCounts'
  BY <1>1 DEF OneCardCounts, Counts, Posting
<1>4. late' = {} /\ ~ Reading'
  BY <1>1 DEF NoesStand, Reading
<1> QED BY <1>2, <1>3, <1>4, NothingRead

\* A preview that was not whole may go up again.
LEMMA PreviewKeeps ==
  ASSUME ReadInv, TypeOK', NEW i \in Items, preview[i] # "whole", ~ Reading', late' = {},
         \A j \in Items \ {i} : preview'[j] = preview[j],
         Posting' => Posting, done \subseteq done',
         UNCHANGED <<cards, onCard, run, informed, via>>
  PROVE  ReadInv'
<1> USE DEF ReadInv
<1>1. CardsAreWhole'
  BY DEF CardsAreWhole, TypeOK, Card
<1>2. ReactionsAreInformed' /\ CardsGoUpOnce' /\ NeverBlind'
  BY DEF ReactionsAreInformed, CardsGoUpOnce, NeverBlind
<1>3. OneCardCounts'
  BY DEF OneCardCounts, Counts
<1> QED BY <1>1, <1>2, <1>3, NothingRead

\* A preview that stays as it is.
LEMMA NoPreviewKeeps ==
  ASSUME ReadInv, TypeOK', ~ Reading', late' = {}, Posting' => Posting, done \subseteq done',
         UNCHANGED <<preview, cards, onCard, run, informed, via>>
  PROVE  ReadInv'
<1> USE DEF ReadInv
<1>1. CardsAreWhole' /\ ReactionsAreInformed' /\ CardsGoUpOnce' /\ NeverBlind'
  BY DEF CardsAreWhole, ReactionsAreInformed, CardsGoUpOnce, NeverBlind
<1>2. OneCardCounts'
  BY DEF OneCardCounts, Counts
<1> QED BY <1>1, <1>2, NothingRead

LEMMA PostPreviewKeeps ==
  ASSUME ReadInv, TypeOK', NEW i \in Items, PostPreview(i)
  PROVE  ReadInv'
<1>1. /\ at = "previews" /\ at' = at /\ done \subseteq done' /\ late' = late
      /\ UNCHANGED <<cards, onCard, run, informed, via>>
  BY DEF PostPreview, Finished, Refused, plan
<1>2. late' = {} /\ ~ Reading' /\ (Posting' => Posting)
  BY <1>1 DEF NoesStand, Reading, Posting, ReadInv
<1>3. \/ preview[i] # "whole" /\ \A j \in Items \ {i} : preview'[j] = preview[j]
      \/ UNCHANGED preview
  BY DEF PostPreview, Posted, ReadInv, TypeOK
<1> QED BY <1>1, <1>2, <1>3, PreviewKeeps, NoPreviewKeeps

LEMMA PostCardKeeps ==
  ASSUME ReadInv, TypeOK', PostCard
  PROVE  ReadInv'
<1> USE DEF ReadInv
<1>1. /\ at = "previews" /\ at' = "end" /\ done \subseteq done'
      /\ UNCHANGED <<preview, onPreview, onCard, run, informed, via, late>>
  BY DEF PostCard, Finished, Refused, plan, history
<1>2. late' = {} /\ ~ Reading' /\ (Posting' => Posting)
  BY <1>1 DEF NoesStand, Reading, Posting
<1>3. CASE UNCHANGED cards
  BY <1>1, <1>2, <1>3, NoPreviewKeeps
<1>4. CASE ~ Settled("card") /\ cards' = [cards EXCEPT ![run] = NewCard] /\ Finished("card")
  <2>1. "card" \notin done /\ "card" \in done'
    BY <1>4 DEF Settled, Finished
  <2>2. /\ \A k \in Runs \ {run} : cards'[k] = cards[k]
        /\ run \in Runs => cards'[run] = NewCard /\ ~ cards[run].posted /\ onCard[run] = {}
    BY <1>4, <2>1 DEF TypeOK, CardsGoUpOnce
  <2>3. CardsAreWhole'
    BY <1>1, <2>2 DEF CardsAreWhole, NewCard
  <2>4. ReactionsAreInformed'
    BY <1>1, <2>2 DEF ReactionsAreInformed
  <2>5. CardsGoUpOnce'
    BY <1>1, <2>1, <2>2 DEF CardsGoUpOnce, NewCard, TypeOK, Runs
  <2>6. OneCardCounts'
    <3>1. \A k \in Runs \ {run} : ~ Counts(k)'
      BY <1>1, <2>2 DEF OneCardCounts, Counts, Posting
    <3>2. \A l \in Runs : l > run => ~ cards'[l].posted
      <4> SUFFICES ASSUME NEW l \in Runs, l > run PROVE ~ cards'[l].posted
        OBVIOUS
      <4>1. l # run
        BY BoundsTyped DEF Runs, TypeOK
      <4> QED BY <2>2, <4>1 DEF CardsGoUpOnce
    <3> QED BY <1>1, <3>1, <3>2 DEF OneCardCounts
  <2> QED BY <1>1, <1>2, <2>3, <2>4, <2>5, <2>6, NothingRead DEF NeverBlind
<1> QED BY <1>3, <1>4 DEF PostCard

LEMMA BreaksKeeps ==
  ASSUME ReadInv, TypeOK', Breaks
  PROVE  ReadInv'
<1>1. /\ at' = "idle" /\ late' = {}
      /\ UNCHANGED <<cards, onCard, run, done, informed, via>>
  BY DEF Breaks, AtRest, plan, progress
<1>2. ~ Reading' /\ ~ Posting'
  BY <1>1 DEF Reading, Posting
<1>3. \/ UNCHANGED preview
      \/ \E i \in left : preview[i] # "whole" /\ Posted(i, "part")
  BY DEF Breaks
<1>4. CASE \E i \in left : preview[i] # "whole" /\ Posted(i, "part")
  <2>1. PICK i \in left : preview[i] # "whole" /\ Posted(i, "part")
    BY <1>4
  <2>2. i \in Items /\ \A j \in Items \ {i} : preview'[j] = preview[j]
    BY <2>1 DEF Posted, ReadInv, TypeOK
  <2> QED BY <1>1, <1>2, <2>1, <2>2, PreviewKeeps
<1> QED BY <1>1, <1>2, <1>3, <1>4, NoPreviewKeeps

LEMMA NextKeepsRead == ReadInv /\ [Next]_vars => ReadInv'
<1> SUFFICES ASSUME ReadInv, [Next]_vars PROVE ReadInv'
  OBVIOUS
<1>1. TypeOK'
  BY TypeKeeps DEF ReadInv
<1>2. ASSUME NEW i \in Items, Park(i) \/ AnsweredElsewhere(i) \/ FollowPreview(i)
      PROVE  ReadInv'
  BY <1>1, <1>2, QueueKeeps DEF Park, AnsweredElsewhere, FollowPreview
<1>3. ASSUME NEW i \in Items, NEW e \in {"yes", "no"}, ReactToPreview(i, e) PROVE ReadInv'
  BY <1>1, <1>3, ReactToPreviewKeeps
<1>4. ASSUME NEW k \in Runs, NEW e \in {"all", "no"} \cup Items, ReactToCard(k, e)
      PROVE  ReadInv'
  BY <1>1, <1>4, ReactToCardKeeps
<1>5. CASE ReadStep
  <2>1. CASE CardRead
    <3>1. late' = {}
      BY <2>1 DEF CardRead, history, ReadInv, NoesStand
    <3> QED BY <1>1, <2>1, <3>1, RestKeeps DEF CardRead, AtRest, discord, plan, progress, history
  <2> QED BY <1>1, <1>2, <1>5, <2>1, FollowCardKeeps, AskPreviewKeeps, ClaimItemKeeps
          DEF ReadStep
<1>6. CASE StartRun \/ RunStep
  <2>1. CASE ContinueRun
    <3>1. at' = "supersede" /\ late' = {}
      BY <2>1 DEF ContinueRun, history, ReadInv, NoesStand, Reading
    <3> QED BY <1>1, <2>1, <3>1, RestKeeps DEF ContinueRun, discord, plan, progress, history
  <2>2. CASE EndPass
    <3>1. at' = "idle" /\ late' = {}
      BY <2>2 DEF EndPass, AtRest, history, ReadInv, NoesStand, Reading
    <3> QED BY <1>1, <2>2, <3>1, RestKeeps DEF EndPass, discord, plan, history
  <2> QED BY <1>1, <1>6, <2>1, <2>2, StartRunKeeps, SupersedeKeeps, ReportKeeps,
             PostPreviewKeeps, PostCardKeeps
          DEF RunStep
<1>7. CASE Breaks
  BY <1>1, <1>7, BreaksKeeps
<1>8. CASE UNCHANGED vars
  BY <1>1, <1>8, QueueKeeps DEF vars
<1> QED BY <1>2, <1>3, <1>4, <1>5, <1>6, <1>7, <1>8 DEF Next

-----------------------------------------------------------------------------
(* A run shows what it planned: the second inductive invariant. *)

Shown(i) == preview[i] \in {"whole", "blind"}

\* A run is planned before anything of it is posted, from what waits and what was not
\* reported; while it is posted it is not complete.
Planned ==
  /\ ~ complete => run \in Runs /\ expired \cap reported = {}
  /\ at = "supersede" \/ Posting => ~ complete
  /\ at = "end" => left = {}
  /\ \A i \in items : queue[i] # "absent"

\* A part that is done is there to see.
DoneIsShown ==
  /\ \A i \in Items : i \in done => Shown(i)
  /\ "card" \in done => run \in Runs /\ items \subseteq cards[run].items

\* What a pass has come by without success is owed, or was given up.
PassOwes ==
  /\ at \in {"previews", "end"} =>
       \A i \in (items \cap Pending) \ left : Shown(i) \/ GaveUp(i) \/ owed
  /\ at = "end" => "card" \in done \/ items = {} \/ GaveUp("card") \/ owed

ShownSoFar ==
  complete => \A i \in items \cap Pending :
    /\ (run > 0 /\ i \in cards[run].items) \/ GaveUp("card")
    /\ Shown(i) \/ GaveUp(i)

\* Reported once, and more often only by passes that broke.
ToldOnce ==
  \A i \in Items :
    \/ told[i] <= faults
    \/ told[i] <= 1 + faults
       /\ (i \in reported \/ (i \in expired /\ "report" \in done /\ ~ complete))

RunInv ==
  /\ TypeOK
  /\ Planned /\ DoneIsShown /\ PassOwes /\ ShownSoFar /\ ToldOnce

LEMMA InitRunInv == Init => RunInv
<1> SUFFICES ASSUME Init PROVE RunInv
  OBVIOUS
<1>1. TypeOK
  BY InitReadInv DEF ReadInv
<1> USE DEF Init
<1>2. Planned /\ DoneIsShown /\ PassOwes
  BY DEF Planned, DoneIsShown, PassOwes, Posting
<1>3. ShownSoFar /\ ToldOnce
  BY DEF ShownSoFar, ToldOnce
<1> QED BY <1>1, <1>2, <1>3 DEF RunInv

\* A step of the owner, or of a reading, answers items that wait and posts nothing.
LEMMA AnsweringKeeps ==
  ASSUME RunInv, TypeOK',
         (at' = at /\ UNCHANGED <<left, owed>>) \/ at' \in {"idle", "verdict", "claim"},
         UNCHANGED <<preview, cards, run, items, expired, done, tries, complete, reported, told,
                     faults>>,
         \A i \in items : queue'[i] # "absent" /\ (queue'[i] = "pending" => i \in Pending)
  PROVE  RunInv'
<1> USE DEF RunInv
<1>1. \A i \in items \cap Pending' : i \in items \cap Pending
  BY DEF Pending, TypeOK
<1>2. Planned' /\ DoneIsShown'
  BY DEF Planned, DoneIsShown, Shown, Posting
<1>3. PassOwes'
  BY <1>1 DEF PassOwes, Shown, GaveUp
<1>4. ShownSoFar'
  BY <1>1 DEF ShownSoFar, Shown, GaveUp
<1>5. ToldOnce'
  BY DEF ToldOnce
<1> QED BY <1>2, <1>3, <1>4, <1>5

LEMMA StartRunShows ==
  ASSUME RunInv, TypeOK', StartRun
  PROVE  RunInv'
<1> USE DEF RunInv
<1>1. /\ complete /\ run < MaxRuns /\ run' = run + 1 /\ items' = Pending
      /\ expired' = Unreported /\ done' = {} /\ complete' = FALSE /\ at' = "supersede"
      /\ UNCHANGED <<queue, reported, told, faults>>
  BY DEF StartRun, history, bounds
<1>2. run' \in Runs
  BY <1>1, BoundsTyped DEF Runs, TypeOK
<1>3. Planned'
  BY <1>1, <1>2 DEF Planned, Pending, Unreported, Posting
<1>4. DoneIsShown' /\ PassOwes' /\ ShownSoFar'
  BY <1>1 DEF DoneIsShown, PassOwes, ShownSoFar
<1>5. ToldOnce'
  BY <1>1 DEF ToldOnce, Unreported
<1> QED BY <1>3, <1>4, <1>5

\* Taking a run up again, and superseding older cards.
LEMMA OpeningShows ==
  ASSUME RunInv, TypeOK', ContinueRun \/ Supersede
  PROVE  RunInv'
<1> USE DEF RunInv
<1>1. /\ at' \in {"supersede", "report"} /\ ~ complete
      /\ UNCHANGED <<queue, preview, run, items, expired, done, tries, complete, reported,
                     told, faults>>
      /\ \A k \in Runs : cards'[k].items = cards[k].items
  BY DEF ContinueRun, Supersede, discord, plan, progress, history, bounds, Planned, TypeOK, Card
<1>2. Planned'
  BY <1>1 DEF Planned
<1>3. DoneIsShown'
  BY <1>1 DEF DoneIsShown, Shown
<1>4. PassOwes' /\ ShownSoFar' /\ ToldOnce'
  BY <1>1 DEF PassOwes, ShownSoFar, ToldOnce
<1> QED BY <1>2, <1>3, <1>4

LEMMA ReportShows ==
  ASSUME RunInv, TypeOK', Report
  PROVE  RunInv'
<1> USE DEF RunInv
<1>1. /\ at = "report" /\ at' = "previews" /\ left' = items \cap Pending
      /\ UNCHANGED <<queue, preview, cards, run, items, expired, complete, reported, faults>>
      /\ done' \in {done, done \cup {"report"}}
  BY DEF Report, Finished, Refused, discord, plan, bounds
<1>2. ~ complete
  BY <1>1 DEF Planned, Posting
<1>3. Planned'
  BY <1>1 DEF Planned, Posting
<1>4. DoneIsShown'
  BY <1>1, PartsTyped DEF DoneIsShown, Shown
<1>5. PassOwes' /\ ShownSoFar'
  BY <1>1, <1>2 DEF PassOwes, ShownSoFar, Pending
<1>6. ToldOnce'
  <2>1. CASE told' = told
    BY <1>1, <1>2, <2>1 DEF ToldOnce
  <2>2. CASE /\ "report" \notin done /\ "report" \in done'
             /\ told' = [i \in Items |-> IF i \in expired THEN told[i] + 1 ELSE told[i]]
    <3> SUFFICES ASSUME NEW i \in Items
                 PROVE  \/ told'[i] <= faults
                        \/ told'[i] <= 1 + faults /\ (i \in reported \/ i \in expired)
      BY <1>1, <1>2, <2>2 DEF ToldOnce
    <3>1. CASE i \in expired
      <4>1. told[i] <= faults /\ told[i] \in Nat /\ faults \in Nat
        BY <1>2, <2>2, <3>1 DEF ToldOnce, Planned, TypeOK
      <4> QED BY <2>2, <3>1, <4>1
    <3>2. CASE i \notin expired
      BY <2>2, <3>2 DEF ToldOnce
    <3> QED BY <3>1, <3>2
  <2> QED BY <2>1, <2>2 DEF Report, Finished, Settled
<1> QED BY <1>3, <1>4, <1>5, <1>6

\* A part that was refused is owed, or given up with its last try.
LEMMA RefusedIsOwed ==
  ASSUME TypeOK, NEW p \in Parts, Refused(p), ~ Settled(p)
  PROVE  /\ done' = done /\ (owed' \/ GaveUp(p)')
         /\ \A q \in Parts \ {p} : GaveUp(q)' <=> GaveUp(q)
         /\ owed => owed'
<1>1. tries[p] \in 0 .. PartTries /\ tries[p] # PartTries /\ PartTries \in Nat
  BY BoundsTyped DEF Settled, GaveUp, TypeOK
<1>2. tries[p] + 1 < PartTries \/ tries[p] + 1 = PartTries
  BY <1>1
<1> QED BY <1>1, <1>2 DEF Refused, GaveUp, TypeOK

LEMMA PostPreviewShows ==
  ASSUME RunInv, TypeOK', NEW i \in Items, PostPreview(i)
  PROVE  RunInv'
<1> USE DEF RunInv
<1>1. /\ at = "previews" /\ at' = at /\ left' = left \ {i} /\ ~ complete
      /\ UNCHANGED <<queue, cards, run, items, expired, complete, reported, told, faults>>
      /\ \A j \in Items \ {i} : preview'[j] = preview[j]
  <2>1. /\ at = "previews" /\ at' = at /\ left' = left \ {i}
        /\ UNCHANGED <<queue, cards, run, items, expired, complete, reported, told, faults>>
    BY DEF PostPreview, plan, bounds
  <2>2. ~ complete
    BY <2>1 DEF Planned, Posting
  <2>3. \A j \in Items \ {i} : preview'[j] = preview[j]
    BY DEF PostPreview, Posted, TypeOK
  <2> QED BY <2>1, <2>2, <2>3
<1>2. /\ done \subseteq done' /\ \A q \in Parts \ {i} : q \in done' => q \in done
      /\ i \in done' => Shown(i)'
      /\ Shown(i)' \/ GaveUp(i)' \/ owed'
      /\ owed => owed'
      /\ \A q \in Parts \ {i} : GaveUp(q)' <=> GaveUp(q)
  <2>1. CASE (Settled(i) \/ preview[i] = "whole") /\ UNCHANGED <<preview, done, tries, owed>>
    BY <2>1 DEF Settled, GaveUp, DoneIsShown, Shown
  <2>2. CASE (\E how \in {"whole", "blind"} : Posted(i, how)) /\ Finished(i)
    BY <2>2 DEF Posted, Finished, Shown, GaveUp, TypeOK
  <2>3. CASE ~ Settled(i) /\ Refused(i)
    BY <2>3, RefusedIsOwed, PartsTyped DEF Settled
  <2> QED BY <2>1, <2>2, <2>3 DEF PostPreview
<1>3. i \in Parts /\ i # "card" /\ i # "report" /\ "report" \in Parts /\ "card" \in Parts
  BY PartsTyped
<1>4. Planned'
  BY <1>1 DEF Planned, Posting
<1>5. DoneIsShown'
  BY <1>1, <1>2, <1>3, PartsTyped DEF DoneIsShown, Shown
<1>6. PassOwes'
  <2> SUFFICES ASSUME NEW j \in (items \cap Pending) \ left'
               PROVE  Shown(j)' \/ GaveUp(j)' \/ owed'
    BY <1>1 DEF PassOwes, Pending
  <2>1. CASE j = i
    BY <1>2, <2>1
  <2>2. CASE j # i
    <3>1. j \in Items /\ j \in Parts /\ (Shown(j) \/ GaveUp(j) \/ owed)
      BY <1>1, <2>2, PartsTyped DEF PassOwes, Pending
    <3> QED BY <1>1, <1>2, <2>2, <3>1 DEF Shown
  <2> QED BY <2>1, <2>2
<1>7. ShownSoFar' /\ ToldOnce'
  BY <1>1, <1>2, <1>3 DEF ShownSoFar, ToldOnce
<1> QED BY <1>4, <1>5, <1>6, <1>7

LEMMA PostCardShows ==
  ASSUME RunInv, TypeOK', PostCard
  PROVE  RunInv'
<1> USE DEF RunInv
<1>1. /\ at = "previews" /\ at' = "end" /\ left = {} /\ left' = left
      /\ ~ complete /\ run \in Runs
      /\ UNCHANGED <<queue, preview, run, items, expired, complete, reported, told, faults>>
  BY DEF PostCard, discord, plan, history, bounds, Planned, Posting
<1>2. /\ done \subseteq done' /\ \A q \in Parts \ {"card"} : q \in done' => q \in done
      /\ "card" \in done' => items \subseteq cards'[run].items
      /\ "card" \in done' \/ items = {} \/ GaveUp("card")' \/ owed'
      /\ owed => owed'
      /\ \A q \in Parts \ {"card"} : GaveUp(q)' <=> GaveUp(q)
  <2>1. CASE (Settled("card") \/ items = {}) /\ UNCHANGED <<cards, done, tries, owed>>
    BY <2>1 DEF Settled, GaveUp, DoneIsShown
  <2>2. CASE cards' = [cards EXCEPT ![run] = NewCard] /\ Finished("card")
    BY <1>1, <2>2, PartsTyped DEF Finished, NewCard, GaveUp, TypeOK
  <2>3. CASE ~ Settled("card") /\ Refused("card")
    BY <2>3, RefusedIsOwed, PartsTyped DEF Settled
  <2> QED BY <2>1, <2>2, <2>3 DEF PostCard
<1>3. Planned'
  BY <1>1 DEF Planned, Posting
<1>4. DoneIsShown'
  BY <1>1, <1>2, PartsTyped DEF DoneIsShown, Shown
<1>5. PassOwes'
  <2>1. \A i \in items \cap Pending : Shown(i)' \/ GaveUp(i)' \/ owed'
    BY <1>1, <1>2, PartsTyped DEF PassOwes, Shown, Pending
  <2> QED BY <1>1, <1>2, <2>1 DEF PassOwes, Pending
<1>6. ShownSoFar' /\ ToldOnce'
  BY <1>1, <1>2, PartsTyped DEF ShownSoFar, ToldOnce
<1> QED BY <1>3, <1>4, <1>5, <1>6

LEMMA EndPassShows ==
  ASSUME RunInv, TypeOK', EndPass
  PROVE  RunInv'
<1> USE DEF RunInv
<1>1. /\ at = "end" /\ at' = "idle" /\ left = {} /\ ~ complete /\ run \in Runs
      /\ UNCHANGED <<queue, preview, cards, run, items, expired, done, tries, told, faults>>
      /\ \/ UNCHANGED <<complete, reported>>
         \/ /\ ~ owed /\ complete' = TRUE
            /\ reported \subseteq reported'
            /\ "report" \in done => expired \subseteq reported'
  BY DEF EndPass, AtRest, discord, plan, history, bounds, Planned, Posting
<1>2. Planned' /\ DoneIsShown' /\ PassOwes'
  BY <1>1 DEF Planned, DoneIsShown, PassOwes, Shown, Posting
<1>3. ShownSoFar'
  <2> SUFFICES ASSUME complete', NEW i \in items \cap Pending
               PROVE  /\ (run > 0 /\ i \in cards[run].items) \/ GaveUp("card")
                      /\ Shown(i) \/ GaveUp(i)
    BY <1>1 DEF ShownSoFar, Shown, GaveUp, Pending
  <2>1. ~ owed /\ run > 0
    <3>1. run \in Nat /\ run \in 1 .. MaxRuns
      BY <1>1, BoundsTyped DEF Runs, TypeOK
    <3>2. run > 0
      BY <3>1
    <3>3. ~ owed
      BY <1>1, Zenon
    <3> QED BY <3>2, <3>3
  <2>2. Shown(i) \/ GaveUp(i)
    BY <1>1, <2>1 DEF PassOwes
  <2>3. "card" \in done \/ GaveUp("card")
    BY <1>1, <2>1 DEF PassOwes
  <2> QED BY <2>1, <2>2, <2>3 DEF DoneIsShown
<1>4. ToldOnce'
  BY <1>1 DEF ToldOnce
<1> QED BY <1>2, <1>3, <1>4

LEMMA BreaksShows ==
  ASSUME RunInv, TypeOK', Breaks
  PROVE  RunInv'
<1> USE DEF RunInv
<1>1. /\ at' = "idle" /\ faults' = faults + 1
      /\ UNCHANGED <<queue, cards, run, items, expired, done, tries, complete, reported>>
  BY DEF Breaks, AtRest, plan, progress
<1>2. /\ \A i \in Items : Shown(i) => Shown(i)' \/ (i \notin done /\ ~ complete)
      /\ \A i \in Items : complete => (Shown(i) => Shown(i)')
  <2>1. CASE preview' = preview
    BY <2>1 DEF Shown
  <2>2. CASE at = "previews" /\ \E i \in left : ~ Settled(i) /\ Posted(i, "part")
    BY <2>2 DEF Settled, Posted, Shown, Planned, Posting, TypeOK
  <2> QED BY <2>1, <2>2 DEF Breaks
<1>3. Planned' /\ PassOwes'
  BY <1>1 DEF Planned, PassOwes, Posting
<1>4. DoneIsShown' /\ ShownSoFar'
  BY <1>1, <1>2 DEF DoneIsShown, ShownSoFar, GaveUp, Pending
<1>5. ToldOnce'
  <2>1. CASE told' = told
    BY <1>1, <2>1 DEF ToldOnce, TypeOK
  <2>2. CASE /\ at = "report" /\ ~ Settled("report")
             /\ told' = [i \in Items |-> IF i \in expired THEN told[i] + 1 ELSE told[i]]
    <3>1. ~ complete /\ "report" \notin done
      BY <2>2 DEF Planned, Posting, Settled
    <3>2. \A i \in expired : told[i] <= faults
      BY <3>1 DEF ToldOnce, Planned, TypeOK
    <3> QED BY <1>1, <2>2, <3>1, <3>2 DEF ToldOnce, TypeOK
  <2> QED BY <2>1, <2>2 DEF Breaks
<1> QED BY <1>3, <1>4, <1>5

LEMMA NextKeepsRun == RunInv /\ [Next]_vars => RunInv'
<1> SUFFICES ASSUME RunInv, [Next]_vars PROVE RunInv'
  OBVIOUS
<1>1. TypeOK'
  BY TypeKeeps DEF RunInv
<1>2. \A i \in items : queue[i] # "absent" /\ queue[i] \in
        {"absent", "pending", "approved", "denied", "expired"} /\ i \in Items
  BY DEF RunInv, Planned, TypeOK
<1> USE DEF discord, plan, progress, locals, history, bounds
<1>3. ASSUME NEW i \in Items, Park(i) \/ AnsweredElsewhere(i) \/ FollowPreview(i)
      PROVE  RunInv'
  <2>1. /\ UNCHANGED <<at, left, owed, preview, cards, run, items, expired, done, tries,
                       complete, reported, told, faults>>
        /\ \A j \in items : queue'[j] # "absent" /\ (queue'[j] = "pending" => j \in Pending)
    BY <1>2, <1>3 DEF Park, AnsweredElsewhere, FollowPreview, Pending, RunInv, TypeOK
  <2> QED BY <1>1, <2>1, AnsweringKeeps
<1>4. CASE \/ \E i \in Items, e \in {"yes", "no"} : ReactToPreview(i, e)
           \/ \E k \in Runs, e \in {"all", "no"} \cup Items : ReactToCard(k, e)
           \/ UNCHANGED vars
  BY <1>1, <1>2, <1>4, AnsweringKeeps DEF ReactToPreview, ReactToCard, Pending, vars
<1>5. CASE (\E k \in Runs : FollowCard(k)) \/ CardRead
  BY <1>1, <1>2, <1>5, AnsweringKeeps DEF FollowCard, CardRead, AtRest, Pending
<1>6. CASE AskPreview \/ ClaimItem
  <2>1. /\ at' \in {"verdict", "claim"}
        /\ UNCHANGED <<preview, cards, run, items, expired, done, tries, complete, reported,
                       told, faults>>
    BY <1>6 DEF AskPreview, ClaimItem
  <2>2. \A j \in items : queue'[j] # "absent" /\ (queue'[j] = "pending" => j \in Pending)
    BY <1>2, <1>6 DEF AskPreview, ClaimItem, Pending, RunInv, TypeOK
  <2> QED BY <1>1, <2>1, <2>2, AnsweringKeeps
<1>7. CASE StartRun \/ RunStep \/ Breaks
  BY <1>1, <1>7, StartRunShows, OpeningShows, ReportShows, PostPreviewShows, PostCardShows,
     EndPassShows, BreaksShows DEF RunStep
<1> QED BY <1>3, <1>4, <1>5, <1>6, <1>7 DEF Next, ReadStep

-----------------------------------------------------------------------------
(* The theorems. *)

\* Both invariants hold always.
THEOREM DigestInvariance == Spec => []ReadInv /\ []RunInv
  BY InitReadInv, NextKeepsRead, InitRunInv, NextKeepsRun, PTL DEF Spec

\* The digest's file and the gate's locals keep their types (_continue_run, _follow_card).
THEOREM TypeCorrect == Spec => []TypeOK
<1>1. ReadInv => TypeOK
  BY DEF ReadInv
<1> QED BY <1>1, DigestInvariance, PTL

\* No item is approved from a card by an owner who had not seen all of it, for any number
\* of items, runs, repetitions and passes that break off (_post_card, _card_decision).
THEOREM NeverApprovedBlind == Spec => []NeverBlind
<1>1. ReadInv => NeverBlind
  BY DEF ReadInv
<1> QED BY <1>1, DigestInvariance, PTL

\* A complete run has shown what it planned, and nothing was reported twice but by a pass
\* that broke (_continue_run, _part).
THEOREM CompleteMeansShown == Spec => []ShownWhenComplete
<1>1. RunInv => ShownWhenComplete
  BY DEF RunInv, ShownSoFar, Shown, ToldOnce, ShownWhenComplete, TypeOK
<1> QED BY <1>1, DigestInvariance, PTL

\* An item is approved from the newest card that is up, never from an older one
\* (_continue_run, _follow_card).
THEOREM OnlyTheNewestCardCounts == Spec => NewestCardCounts
<1> DEFINE Newest ==
      \A i \in Items : via'[i] # via[i] => \A k \in Runs : k > via'[i] => ~ cards[k].posted
<1>1. ASSUME ReadInv, [Next]_vars PROVE Newest
  <2>1. CASE ClaimItem
    <3>1. /\ at = "claim"
          /\ via' = via \/ via' = [via EXCEPT ![item] = cur]
      BY <2>1 DEF ClaimItem
    <3>2. \A k \in Runs : k > cur => ~ cards[k].posted
      BY <1>1, <3>1 DEF ReadInv, ReadingIsInformed, Reading
    <3> QED BY <1>1, <3>1, <3>2 DEF ReadInv, TypeOK
  <2>2. CASE via' = via
    BY <2>2
  <2>3. ClaimItem \/ via' = via
    BY <1>1
    DEF Next, ReadStep, RunStep, Park, AnsweredElsewhere, ReactToPreview, ReactToCard,
        FollowPreview, FollowCard, AskPreview, CardRead, StartRun, ContinueRun, Supersede,
        Report, PostPreview, PostCard, EndPass, Breaks, history, vars
  <2> QED BY <2>1, <2>2, <2>3
<1> QED BY <1>1, DigestInvariance, PTL DEF Spec, NewestCardCounts

\* A no on an item's preview is overtaken by the card only if it landed after that preview
\* was asked, however long before the card was read or the owner reacted to it
\* (_preview_verdict).
THEOREM NoesAreHeard == Spec => NoBeatsTheCard
<1> DEFINE Heard == \A i \in Items : via'[i] # via[i] /\ "no" \in onPreview[i] => i \in late
<1>1. ASSUME ReadInv, [Next]_vars PROVE Heard
  <2>1. CASE ClaimItem
    <3>1. /\ at = "claim" /\ ("no" \in onPreview[item] => item \in late)
          /\ via' = via \/ via' = [via EXCEPT ![item] = cur]
      BY <1>1, <2>1 DEF ClaimItem, ReadInv, NoesStand
    <3> QED BY <1>1, <3>1 DEF ReadInv, TypeOK
  <2>2. CASE via' = via
    BY <2>2
  <2>3. ClaimItem \/ via' = via
    BY <1>1
    DEF Next, ReadStep, RunStep, Park, AnsweredElsewhere, ReactToPreview, ReactToCard,
        FollowPreview, FollowCard, AskPreview, CardRead, StartRun, ContinueRun, Supersede,
        Report, PostPreview, PostCard, EndPass, Breaks, history, vars
  <2> QED BY <2>1, <2>2, <2>3
<1> QED BY <1>1, DigestInvariance, PTL DEF Spec, NoBeatsTheCard

=============================================================================
