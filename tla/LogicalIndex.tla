---------------------------- MODULE LogicalIndex ----------------------------
(***************************************************************************)
(* What a vector index promises to its user: rows with ids, in the order   *)
(* in which they were given to it, and what a saved copy contains.  How    *)
(* rows are divided and ordered inside is not visible here.  A call that   *)
(* fails, and one the index makes no promise for, loses the content.       *)
(***************************************************************************)
EXTENDS Sequences

CONSTANTS
  Inputs,   \* the sequences of rows a user may give to Build or Add
  Lost      \* content the user may not rely on

VARIABLES content, saved

logicalVars == <<content, saved>>

LogicalInit == content = Lost /\ saved = Lost

\* Build, or Train when r is the empty sequence.
Replace(r) == content' = r /\ UNCHANGED saved

Extend(r) == content # Lost /\ content' = content \o r /\ UNCHANGED saved

Save == saved' = content /\ UNCHANGED content

Load == content' = saved /\ UNCHANGED saved

Lose == content' = Lost /\ UNCHANGED saved

LogicalNext ==
  \/ \E r \in Inputs \cup {<<>>} : Replace(r) \/ Extend(r)
  \/ Save \/ Load \/ Lose

LogicalSpec == LogicalInit /\ [][LogicalNext]_logicalVars
=============================================================================
