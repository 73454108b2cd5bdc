------------------------------- MODULE Digest -------------------------------
(***************************************************************************)
(* The owner's daily digest: the part of DiscordGate                       *)
(* (src/pionir/discord_gate.py) that plans a run, posts each waiting       *)
(* item's preview and the card that lists them, and reads the owner's      *)
(* reactions from both.                                                    *)
(*                                                                         *)
(* The gate's state is one file, saved after every part of a run, so the   *)
(* variables run .. reported are durable and each step ends in a save; at, *)
(* cur, item, chosen, left and owed are the locals of the polling thread.  *)
(* Discord may refuse any post, for ever; a call that gets no answer, or a *)
(* crash, ends the pass anywhere.  A run's items fit one card here, and    *)
(* messages are not deleted in Discord.                                    *)
(* Definitions introduced by "Mistake:" model no code (see Approvals).     *)
(***************************************************************************)
EXTENDS Naturals, FiniteSets

CONSTANTS
  Items,     \* the batched approvals
  PartTries, \* DIGEST_PART_TRIES
  MaxRuns,   \* bound: digests started
  MaxLoad,   \* bound: items parked and digests started, together
  MaxReacts, \* bound: reactions the owner makes
  MaxFaults  \* bound: passes that break off

Runs == 1 .. MaxRuns
Parts == {"report", "card"} \cup Items

ASSUME PartsApart == {"report", "card", "all", "yes", "no", "none"} \cap Items = {}
ASSUME BoundsTyped ==
  PartTries \in Nat \ {0} /\ MaxRuns \in Nat /\ MaxLoad \in Nat
  /\ MaxReacts \in Nat /\ MaxFaults \in Nat

VARIABLES
  queue,      \* the approval queue's word on each item
  preview,    \* how much of each item's newest preview went up
  onPreview,  \* the owner's reactions on it
  cards,      \* the digest card of each run
  onCard,     \* the owner's reactions on each card
  run,        \* the newest run's number; 0 before the first
  items, expired,      \* what it planned to show and to report
  done, tries, \* its parts: those done, and how often each other was refused
  complete,   \* nothing of it is owed
  reported,   \* reported_expired
  at, cur, item, chosen, left, owed,
  informed,   \* history: <<run, item>> approved on the card by an owner who had seen it
  late,       \* history: the item in hand, if a no landed after its preview was asked
  via,        \* history: the run whose card approved an item; 0 if none
  told,       \* history: how often each item was reported expired
  reacts, faults

discord == <<preview, onPreview, cards, onCard>>
plan == <<run, items, expired>>
progress == <<done, tries, complete, reported>>
locals == <<cur, item, chosen, left, owed>>
history == <<informed, late, via, told>>
bounds == <<reacts, faults>>
vars == <<queue, discord, plan, progress, at, locals, history, bounds>>

Pending == {i \in Items : queue[i] = "pending"}

Card == [posted : BOOLEAN, items : SUBSET Items, approvable : SUBSET Items,
         superseded : BOOLEAN]
NoCard == [posted |-> FALSE, items |-> {}, approvable |-> {}, superseded |-> FALSE]

Init ==
  /\ queue = [i \in Items |-> "absent"]
  /\ preview = [i \in Items |-> "none"] /\ onPreview = [i \in Items |-> {}]
  /\ cards = [k \in Runs |-> NoCard] /\ onCard = [k \in Runs |-> {}]
  /\ run = 0 /\ items = {} /\ expired = {}
  /\ done = {} /\ tries = [p \in Parts |-> 0]
  /\ complete = TRUE /\ reported = {}
  /\ at = "idle" /\ cur = 0 /\ item = "none" /\ chosen = {} /\ left = {} /\ owed = FALSE
  /\ informed = {} /\ late = {}
  /\ via = [i \in Items |-> 0] /\ told = [i \in Items |-> 0]
  /\ reacts = 0 /\ faults = 0

-----------------------------------------------------------------------------
(* The queue and the owner. *)

Load == Cardinality({i \in Items : queue[i] # "absent"}) + run

Park(i) ==
  /\ queue[i] = "absent" /\ Load < MaxLoad
  /\ queue' = [queue EXCEPT ![i] = "pending"]
  /\ UNCHANGED <<discord, plan, progress, at, locals, history, bounds>>

\* The phone, the dashboard or the clock; a row approved there is to the gate as one denied.
AnsweredElsewhere(i) ==
  /\ queue[i] = "pending"
  /\ \E s \in {"denied", "expired"} : queue' = [queue EXCEPT ![i] = s]
  /\ UNCHANGED <<discord, plan, progress, at, locals, history, bounds>>

\* On what is still waiting: nobody reads the rest.
ReactToPreview(i, e) ==
  /\ i \in Pending /\ preview[i] # "none" /\ e \notin onPreview[i] /\ reacts < MaxReacts
  /\ onPreview' = [onPreview EXCEPT ![i] = @ \cup {e}]
  /\ late' = IF e = "no" /\ at = "claim" /\ item = i THEN {i} ELSE late
  /\ reacts' = reacts + 1
  /\ UNCHANGED <<queue, preview, cards, onCard, plan, progress, at, locals,
                 informed, via, told, faults>>

\* What a reaction on a card asks for: a number its item, the tick all of them.
Covers(k, e) == IF e = "all" THEN cards[k].items ELSE {e} \cap cards[k].items

ReactToCard(k, e) ==
  /\ cards[k].posted /\ cards[k].items \cap Pending # {}
  /\ e \notin onCard[k] /\ reacts < MaxReacts
  /\ e \in Items => e \in cards[k].items
  /\ onCard' = [onCard EXCEPT ![k] = @ \cup {e}]
  /\ informed' = informed \cup {<<k, i>> : i \in {j \in Covers(k, e) : preview[j] = "whole"}}
  /\ reacts' = reacts + 1
  /\ UNCHANGED <<queue, preview, onPreview, cards, plan, progress, at, locals,
                 late, via, told, faults>>

-----------------------------------------------------------------------------
(* Reading the owner's answers. *)

\* _follow: the answer on an item's own preview; a no beats a yes, and a yes counts only
\* when all of the preview is up.
FollowPreview(i) ==
  /\ at = "idle" /\ i \in Pending
  /\ \/ /\ "no" \in onPreview[i]
        /\ queue' = [queue EXCEPT ![i] = "denied"]
     \/ /\ "no" \notin onPreview[i] /\ "yes" \in onPreview[i] /\ preview[i] = "whole"
        /\ queue' = [queue EXCEPT ![i] = "approved"]
  /\ UNCHANGED <<discord, plan, progress, at, locals, history, bounds>>

\* Mistake: whatever preview is up by the time the card is read will do.
ApprovableNow(k, i) == preview[i] = "whole"

\* approvable when the card went up, and the preview still whole (_approvable_from_card).
Approvable(k, i) == i \in cards[k].approvable /\ preview[i] = "whole"

\* _card_decision: the items approved on a card without a no.
Chosen(k) ==
  IF "no" \in onCard[k] THEN {}
  ELSE {i \in cards[k].items \cap Pending :
          Approvable(k, i) /\ ("all" \in onCard[k] \/ i \in onCard[k])}

\* Mistake: the older card counts until the newer digest is complete.
CountsUntilComplete(k) == cards[k].posted /\ (k = run \/ ~complete)

\* A superseded card's reactions no longer count.
Counts(k) == cards[k].posted /\ ~cards[k].superseded

FollowCard(k) ==
  /\ at = "idle" /\ Counts(k) /\ Chosen(k) # {}
  /\ at' = "verdict"
  /\ cur' = k /\ chosen' = Chosen(k)
  /\ UNCHANGED <<queue, discord, plan, progress, item, left, owed, history, bounds>>

\* Mistake: the preview is not asked again.
VerdictNotAsked(i) == "clear"

\* _preview_verdict: the preview as it is now.
Verdict(i) == IF "no" \in onPreview[i] THEN "deny" ELSE "clear"

\* One item the card approved: denied after all, passed over when its preview cannot be
\* read, or about to be claimed.
AskPreview ==
  /\ at = "verdict" /\ chosen # {}
  /\ \E i \in chosen :
       /\ chosen' = chosen \ {i}
       /\ \/ /\ Verdict(i) = "deny"
             /\ queue' = [queue EXCEPT ![i] = IF @ = "pending" THEN "denied" ELSE @]
             /\ UNCHANGED <<at, item>>
          \/ UNCHANGED <<queue, at, item>>
          \/ /\ Verdict(i) = "clear"
             /\ at' = "claim" /\ item' = i
             /\ UNCHANGED queue
  /\ UNCHANGED <<discord, plan, progress, cur, left, owed, history, bounds>>

\* PionirApp.approve: the atomic claim; an item resolved meanwhile is left as it is.
ClaimItem ==
  /\ at = "claim"
  /\ IF queue[item] = "pending"
     THEN /\ queue' = [queue EXCEPT ![item] = "approved"]
          /\ via' = [via EXCEPT ![item] = cur]
     ELSE UNCHANGED <<queue, via>>
  /\ at' = "verdict" /\ item' = "none" /\ late' = {}
  /\ UNCHANGED <<discord, plan, progress, cur, chosen, left, owed, informed, told, bounds>>

AtRest ==
  /\ at' = "idle" /\ cur' = 0 /\ item' = "none" /\ chosen' = {} /\ left' = {}
  /\ owed' = FALSE

CardRead ==
  /\ at = "verdict" /\ chosen = {}
  /\ AtRest
  /\ UNCHANGED <<queue, discord, plan, progress, history, bounds>>

-----------------------------------------------------------------------------
(* A run, part by part. *)

\* Mistake: what was reported before is reported again.
UnreportedAll == {i \in Items : queue[i] = "expired"}

\* batched_expired, less what the owner was told before.
Unreported == {i \in Items : queue[i] = "expired"} \ reported

\* _start_run: due or asked for; planned and saved before anything is posted.
StartRun ==
  /\ at = "idle" /\ complete /\ run < MaxRuns /\ Load < MaxLoad
  /\ run' = run + 1
  /\ items' = Pending /\ expired' = Unreported
  /\ done' = {} /\ tries' = [p \in Parts |-> 0]
  /\ complete' = FALSE
  /\ at' = "supersede"
  /\ UNCHANGED <<queue, discord, reported, locals, history, bounds>>

\* The next pass takes an unfinished run up again from its first part.
ContinueRun ==
  /\ at = "idle" /\ ~complete
  /\ at' = "supersede"
  /\ UNCHANGED <<queue, discord, plan, progress, locals, history, bounds>>

\* Older cards stop counting, in the file and so whatever becomes of their messages' text.
Supersede ==
  /\ at = "supersede"
  /\ cards' = [k \in Runs |->
       IF k # run /\ cards[k].posted THEN [cards[k] EXCEPT !.superseded = TRUE] ELSE cards[k]]
  /\ at' = "report"
  /\ UNCHANGED <<queue, preview, onPreview, onCard, plan, progress, locals, history, bounds>>

GaveUp(p) == tries[p] = PartTries

Settled(p) == p \in done \/ GaveUp(p)

\* _part succeeded: recorded at once (its tries are not looked at again).
Finished(p) ==
  /\ done' = done \cup {p} /\ tries' = [tries EXCEPT ![p] = 0]
  /\ UNCHANGED owed

\* Mistake: the last try is owed as well.
RefusedForEver(p) ==
  /\ tries' = [tries EXCEPT ![p] = IF @ + 1 < PartTries THEN @ + 1 ELSE @]
  /\ owed' = TRUE /\ UNCHANGED done

\* Mistake: a refused part is not owed.
RefusedNotOwed(p) ==
  /\ tries' = [tries EXCEPT ![p] = @ + 1]
  /\ UNCHANGED <<done, owed>>

\* _part was refused: owed until its tries are used up, then given up.
Refused(p) ==
  /\ tries' = [tries EXCEPT ![p] = @ + 1]
  /\ owed' = (owed \/ tries[p] + 1 < PartTries)
  /\ UNCHANGED done

\* The report is one message here.
Report ==
  /\ at = "report"
  /\ at' = "previews" /\ left' = items \cap Pending
  /\ \/ (Settled("report") \/ expired = {}) /\ UNCHANGED <<done, tries, owed, told>>
     \/ /\ ~Settled("report") /\ expired # {}
        /\ Finished("report")
        /\ told' = [i \in Items |-> IF i \in expired THEN told[i] + 1 ELSE told[i]]
     \/ ~Settled("report") /\ expired # {} /\ Refused("report") /\ UNCHANGED told
  /\ UNCHANGED <<queue, discord, plan, complete, reported, cur, item, chosen,
                 informed, late, via, bounds>>

\* _post: a new message, with no reaction on it yet.
Posted(i, how) ==
  /\ preview' = [preview EXCEPT ![i] = how]
  /\ onPreview' = [onPreview EXCEPT ![i] = {}]

\* An item's preview, or its repetition when it did not arrive whole.  "blind": all of its
\* text, and the warning in the place of its image.  Refused: nothing new went up, or its
\* head alone, without that warning or some of its text.
PostPreview(i) ==
  /\ at = "previews" /\ i \in left
  /\ left' = left \ {i}
  /\ \/ /\ Settled(i) \/ preview[i] = "whole"
        /\ UNCHANGED <<preview, onPreview, done, tries, owed>>
     \/ /\ ~Settled(i) /\ preview[i] # "whole"
        /\ \E how \in {"whole", "blind"} : Posted(i, how)
        /\ Finished(i)
     \/ /\ ~Settled(i) /\ preview[i] # "whole"
        /\ Posted(i, "part") \/ UNCHANGED <<preview, onPreview>>
        /\ Refused(i)
  /\ UNCHANGED <<queue, cards, onCard, plan, complete, reported, at, cur, item, chosen,
                 informed, late, via, told, bounds>>

\* _post_card: approvable from it is what the owner can see as it goes up.
NewCard == [posted |-> TRUE, items |-> items, superseded |-> FALSE,
            approvable |-> {i \in items : preview[i] = "whole"}]

PostCard ==
  /\ at = "previews" /\ left = {}
  /\ at' = "end"
  /\ \/ (Settled("card") \/ items = {}) /\ UNCHANGED <<cards, done, tries, owed>>
     \/ /\ ~Settled("card") /\ items # {}
        /\ cards' = [cards EXCEPT ![run] = NewCard]
        /\ Finished("card")
     \/ ~Settled("card") /\ items # {} /\ Refused("card") /\ UNCHANGED cards
  /\ UNCHANGED <<queue, preview, onPreview, onCard, plan, complete, reported,
                 cur, item, chosen, left, history, bounds>>

\* The run is complete once nothing is owed; only what was told counts as reported.
EndPass ==
  /\ at = "end"
  /\ IF owed THEN UNCHANGED <<complete, reported>>
     ELSE /\ complete' = TRUE
          /\ reported' = reported \cup (IF "report" \in done THEN expired ELSE {})
  /\ AtRest
  /\ UNCHANGED <<queue, discord, plan, done, tries, history, bounds>>

-----------------------------------------------------------------------------
(* What goes wrong: no answer from Discord, or a crash. *)

\* Whatever part was under way is not recorded; a preview's head or the report may be up.
Breaks ==
  /\ at # "idle" /\ faults < MaxFaults
  /\ faults' = faults + 1
  /\ AtRest /\ late' = {}
  /\ \/ UNCHANGED <<preview, onPreview, told>>
     \/ /\ at = "previews"
        /\ \E i \in left : ~Settled(i) /\ preview[i] # "whole" /\ Posted(i, "part")
        /\ UNCHANGED told
     \/ /\ at = "report" /\ ~Settled("report")
        /\ told' = [i \in Items |-> IF i \in expired THEN told[i] + 1 ELSE told[i]]
        /\ UNCHANGED <<preview, onPreview>>
  /\ UNCHANGED <<queue, cards, onCard, plan, progress, informed, via, reacts>>

RunStep ==
  \/ ContinueRun \/ Supersede \/ Report
  \/ \E i \in Items : PostPreview(i)
  \/ PostCard \/ EndPass

ReadStep ==
  \/ \E i \in Items : FollowPreview(i)
  \/ \E k \in Runs : FollowCard(k)
  \/ AskPreview \/ ClaimItem \/ CardRead

Next ==
  \/ \E i \in Items : Park(i) \/ AnsweredElsewhere(i)
  \/ \E i \in Items, e \in {"yes", "no"} : ReactToPreview(i, e)
  \/ \E k \in Runs, e \in {"all", "no"} \cup Items : ReactToCard(k, e)
  \/ ReadStep \/ StartRun \/ RunStep \/ Breaks

Spec == Init /\ [][Next]_vars

\* The gate polls on and its calls end.  A pass reads every card once and then continues the
\* run (_digest_tick), so no card that asks for the same item again and again, its preview
\* unreadable each time, holds the run up: strong fairness.
FairSpec == Spec /\ WF_vars(ReadStep) /\ SF_vars(RunStep)

-----------------------------------------------------------------------------
(* What must hold. *)

TypeOK ==
  /\ queue \in [Items -> {"absent", "pending", "approved", "denied", "expired"}]
  /\ preview \in [Items -> {"none", "part", "blind", "whole"}]
  /\ onPreview \in [Items -> SUBSET {"yes", "no"}]
  /\ cards \in [Runs -> Card]
  /\ onCard \in [Runs -> SUBSET ({"all", "no"} \cup Items)]
  /\ run \in 0 .. MaxRuns /\ items \subseteq Items /\ expired \subseteq Items
  /\ done \subseteq Parts /\ tries \in [Parts -> 0 .. PartTries]
  /\ complete \in BOOLEAN /\ reported \subseteq Items
  /\ at \in {"idle", "verdict", "claim", "supersede", "report", "previews", "end"}
  /\ cur \in 0 .. MaxRuns /\ item \in Items \cup {"none"}
  /\ chosen \subseteq Items /\ left \subseteq Items /\ owed \in BOOLEAN
  /\ informed \subseteq Runs \X Items /\ late \subseteq Items
  /\ via \in [Items -> 0 .. MaxRuns] /\ told \in [Items -> Nat]
  /\ reacts \in Nat /\ faults \in Nat

\* "Never approved blind": an item approved from a digest card was approved by a reaction
\* made when its whole preview had been up, however late a preview or its repetition came
\* (_post_card's approvable, _card_decision).
NeverBlind == \A i \in Items : via[i] > 0 => <<via[i], i>> \in informed

\* No item is approved from an older card once a newer one is up: its numbers are not the
\* numbers the owner sees now, whatever broke between the two (_continue_run).
NewestCardCounts ==
  [][\A i \in Items : via'[i] # via[i] => \A k \in Runs : k > via'[i] => ~cards[k].posted]_vars

\* A no that is on an item's preview when the card's yes to it is carried out is overtaken
\* by the card only if it landed after that item's own preview had been asked, with nothing
\* left but the claim; one that landed since the card was read is not (_preview_verdict).
NoBeatsTheCard ==
  [][\A i \in Items : via'[i] # via[i] /\ "no" \in onPreview[i] => i \in late]_vars

\* A complete run showed what it planned: every item still waiting is on its card, and was
\* previewed as far as Discord let it, unless that part was given up; and no item is
\* reported expired twice except by a pass that broke (_continue_run, _part).
ShownWhenComplete ==
  /\ complete => \A i \in items \cap Pending :
       /\ (run > 0 /\ i \in cards[run].items) \/ GaveUp("card")
       /\ preview[i] \in {"whole", "blind"} \/ GaveUp(i)
  /\ \A i \in Items : told[i] <= 1 + faults

\* "One bad part can never stop this digest, every later one": a run ends although Discord
\* may refuse any part of it for ever (_part, DIGEST_PART_TRIES).
EveryRunCompletes == ~complete ~> complete
=============================================================================
