---------------------------- MODULE EditSession ----------------------------
(***************************************************************************)
(* What the bot promises to whoever edits settings: a session starts with  *)
(* a copy of the settings in use, its changes are seen by nobody else, and *)
(* it ends by making all of them the settings in use, or none.             *)
(***************************************************************************)
CONSTANT Value   \* what settings may be

VARIABLES committed,  \* the settings in use
          snap,       \* the session's copy
          open        \* a session is open

sessionVars == <<committed, snap, open>>

SessionInit == committed \in Value /\ snap \in Value /\ open = FALSE

\* Also while a session is open, whose changes are then dropped.
Begin == open' = TRUE /\ snap' = committed /\ UNCHANGED committed

Edit == open /\ snap' \in Value /\ UNCHANGED <<open, committed>>

Commit == open /\ open' = FALSE /\ committed' = snap /\ UNCHANGED snap

Drop == open /\ open' = FALSE /\ UNCHANGED <<committed, snap>>

SessionSpec == SessionInit /\ [][Begin \/ Edit \/ Commit \/ Drop]_sessionVars
============================================================================
