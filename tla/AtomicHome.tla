----------------------------- MODULE AtomicHome -----------------------------
(***************************************************************************)
(* What publishing a Codex home promises (internal/service/publishrecovery,*)
(* package comment of state.go): the three files are replaced together or  *)
(* not at all, however often the publisher crashes or is interrupted in    *)
(* between.  Nothing is promised of files somebody else writes meanwhile.  *)
(***************************************************************************)
EXTENDS Naturals

CONSTANTS Files, Contents

VARIABLES
    files,    \* the home as it counts: before the publish, or after it
    offer,    \* {}, or the singleton of what is being published
    meddled   \* somebody else wrote the home since the offer was made

Homes == [Files -> Contents]

Init == files \in Homes /\ offer = {} /\ meddled \in BOOLEAN

\* A publish begins.
Offer(in) ==
    /\ offer = {}
    /\ offer' = {in}
    /\ meddled' = FALSE
    /\ UNCHANGED files

\* It ends: everything that was offered is in place ...
Commit ==
    /\ offer # {} /\ offer' = {}
    /\ files' \in Homes
    /\ meddled \/ files' \in offer
    /\ UNCHANGED meddled

\* ... or nothing is.
Withdraw ==
    /\ offer # {} /\ offer' = {}
    /\ files' \in Homes
    /\ meddled \/ files' = files
    /\ UNCHANGED meddled

Meddle ==
    /\ meddled' = TRUE
    /\ files' \in Homes
    /\ UNCHANGED offer

Next == (\E in \in Homes : Offer(in)) \/ Commit \/ Withdraw \/ Meddle

Spec == Init /\ [][Next]_<<files, offer, meddled>>
=============================================================================
