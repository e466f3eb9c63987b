------------------------------ MODULE PromptBudget ------------------------------
(***************************************************************************)
(* app/prompts/builder.py: how PromptBuilder fills the budget of a prompt  *)
(* from the history and the context that a snapshot holds.                 *)
(*                                                                         *)
(* A message of the history is [id, len], a block of the context           *)
(* [id, origin, len]; a text is its length in characters.                  *)
(***************************************************************************)
EXTENDS Naturals, Sequences, SequencesExt

CONSTANTS HistoryChars, ContextChars, MaxBlockChars   \* PromptBudget

OriginPriority ==
    [user_profile |-> 100, long_term_memory |-> 90, recent_dialogue |-> 80,
     screen |-> 50, proactive |-> 40]

(* A selection: what was taken, oldest step first, and what is left.       *)
Take(selection, item, cost) ==
    IF cost > selection.left THEN selection
    ELSE [taken |-> Append(selection.taken, item), left |-> selection.left - cost]

Nothing(budget) == [taken |-> <<>>, left |-> budget]

(* From the newest message back, each that still fits.                     *)
SelectRecentHistory(history) ==
    Reverse(FoldLeft(LAMBDA s, h : Take(s, h, h.len), Nothing(HistoryChars),
                     Reverse(history)).taken)

(* The blocks by the priority of their origin, as they came within one.    *)
ByPriority(blocks) ==
    LET Before(i, j) == \/ OriginPriority[blocks[i].origin] > OriginPriority[blocks[j].origin]
                        \/ /\ OriginPriority[blocks[i].origin] = OriginPriority[blocks[j].origin]
                           /\ i < j
        order == SetToSortSeq(DOMAIN blocks, Before)
    IN  [k \in DOMAIN blocks |-> blocks[order[k]]]

Cost(block) == IF block.len < MaxBlockChars THEN block.len ELSE MaxBlockChars

SelectContext(blocks) ==
    FoldLeft(LAMBDA s, b : Take(s, b, Cost(b)), Nothing(ContextChars), ByPriority(blocks)).taken

(* _truncate keeps the limit, the ellipsis included.                       *)
Truncate(block) == [block EXCEPT !.len = Cost(block)]

(* The messages of the request: three of the system, the history, at most  *)
(* one that carries the context as data, and the user's own text last.     *)
Build(history, blocks, text) ==
    LET context == SelectContext(blocks)
        System(what) == [role |-> "system", content |-> what]
    IN  <<System("policy"), System("style"), System("emotion")>>
        \o [i \in DOMAIN SelectRecentHistory(history) |->
              [role |-> "history", content |-> SelectRecentHistory(history)[i]]]
        \o (IF context = <<>> THEN <<>>
            ELSE <<[role |-> "user", content |-> [i \in DOMAIN context |-> Truncate(context[i])]]>>)
        \o <<[role |-> "user", content |-> text]>>
=============================================================================
