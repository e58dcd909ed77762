--------------------------- MODULE BlockTemplate ---------------------------
(***************************************************************************)
(* What the scheduler worker promises the block forger about the ready     *)
(* template (spec 4.3): for the chain tip it was last given, the template  *)
(* is built by appending one transaction at a time, each new to the        *)
(* template, each applying on the tip's ledger after those before it, and  *)
(* the whole staying below the block size budget.  A new tip starts an     *)
(* empty template; a finished work leaves the worker without a tip and     *)
(* the template as it was.  Which transaction comes next (fee order, the   *)
(* backlog, explicit adds) is left open.                                   *)
(***************************************************************************)
EXTENDS Naturals, Sequences, SequencesExt

CONSTANTS
    Txs,
    Size,           \* [Txs -> Nat \ {0}]
    BLOCK_MAX_SIZE,
    Tips,           \* the chain tips a work may name
    NoTip,          \* no work
    Applies(_, _)   \* Applies(h, s): s, in order, is a valid block body on tip h

VARIABLES tip, template

templateVars == <<tip, template>>

TotalSize(s) == FoldLeft(LAMBDA acc, t : acc + Size[t], 0, s)

NewTip(h) ==
    /\ tip' = h
    /\ template' = <<>>

Finish ==
    /\ tip # NoTip
    /\ tip' = NoTip
    /\ UNCHANGED template

Extend(t) ==
    /\ tip # NoTip
    /\ t \notin Range(template)
    /\ Applies(tip, Append(template, t))
    /\ TotalSize(template) + Size[t] < BLOCK_MAX_SIZE
    /\ template' = Append(template, t)
    /\ UNCHANGED tip

Init ==
    /\ tip = NoTip
    /\ template = <<>>

Next == (\E h \in Tips : NewTip(h)) \/ Finish \/ \E t \in Txs : Extend(t)

Spec == Init /\ [][Next]_templateVars

=============================================================================
