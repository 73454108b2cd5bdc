---- MODULE MCApprovals ----
(* A small instance of Approvals for TLC. *)
EXTENDS Approvals

CONSTANTS a1, a2, c1, c2, phone, moss, gate

MCGrant == [c \in {phone, moss} |-> IF c = moss THEN {"permit"} ELSE {}]

\* A client's publication with its own card; a batch item asked for by one of the
\* owner's own surfaces; in-process code naming permissions it must not be believed
\* on; a privileged call that holds its permission; and a refused one.
MCRequests ==
  {[kind |-> "every_call", from |-> moss, named |-> {}, valid |-> TRUE, batch |-> FALSE],
   [kind |-> "privileged", from |-> phone, named |-> {}, valid |-> TRUE, batch |-> TRUE],
   [kind |-> "open", from |-> gate, named |-> {"permit", "owner"}, valid |-> TRUE,
    batch |-> FALSE],
   [kind |-> "privileged", from |-> moss, named |-> {}, valid |-> FALSE, batch |-> FALSE]}
====
