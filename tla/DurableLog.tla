----------------------------- MODULE DurableLog -----------------------------
(***************************************************************************)
(* What a recorder of a session's history promises.  Entries are numbers   *)
(* in the order in which they are accepted.  They are stored in that       *)
(* order, each once; a confirmed barrier covers only stored entries; and   *)
(* only the end of the recorder loses anything, never something stored.    *)
(***************************************************************************)
EXTENDS Naturals, Sequences, Functions

CONSTANTS
    First,   \* the entry a new log begins with
    Items    \* what may be accepted

VARIABLES
    open,      \* a recorder is running
    accepted,  \* the entries accepted and not lost
    stored,    \* what is on disk
    promised   \* the entries that confirmed barriers cover

vars == <<open, accepted, stored, promised>>

Init ==
    /\ open = TRUE
    /\ accepted = {First}
    /\ stored = <<>>
    /\ promised = {}

Accept ==
    /\ open
    /\ \E x \in Items :
          /\ \A y \in accepted : y < x
          /\ accepted' = accepted \cup {x}
    /\ UNCHANGED <<open, stored, promised>>

(* The oldest accepted entry that is not stored is stored.                 *)
Unstored == accepted \ Range(stored)
StoreOldest ==
    \E x \in Unstored :
        /\ \A y \in Unstored : x <= y
        /\ stored' = Append(stored, x)

Store ==
    /\ open
    /\ StoreOldest
    /\ UNCHANGED <<open, accepted, promised>>

Promise ==
    /\ open
    /\ promised \subseteq promised' /\ promised' \subseteq Range(stored)
    /\ UNCHANGED <<open, accepted, stored>>

(* The recorder ends.  What was not stored is gone; a write that was under *)
(* way when it ended may still have reached the disk.                      *)
End ==
    /\ open
    /\ open' = FALSE
    /\ StoreOldest \/ UNCHANGED stored
    /\ accepted' = Range(stored')
    /\ promised \subseteq promised' /\ promised' \subseteq Range(stored')

Reopen ==
    /\ ~open
    /\ open' = TRUE
    /\ UNCHANGED <<accepted, stored, promised>>

Next == Accept \/ Store \/ Promise \/ End \/ Reopen

Spec == Init /\ [][Next]_vars
=============================================================================
