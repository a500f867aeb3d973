-------------------------- MODULE SessionLifecycle --------------------------
(***************************************************************************)
(* What a client of the audio-producer may rely on: one session at a time, *)
(* never handed over to another without an end in between, and always the  *)
(* newest one, be it new or resumed after a restart.                       *)
(***************************************************************************)
EXTENDS Naturals

VARIABLES
    active,  \* the running session, 0 when there is none
    newest   \* the newest session id handed out

Init == active = 0 /\ newest = 0

\* A start command, served: a new id becomes the running session.
Begin  == active = 0 /\ newest' = newest + 1 /\ active' = newest'

\* The process dies while it starts a session: the id is taken.
Take   == active = 0 /\ newest' = newest + 1 /\ UNCHANGED active

\* A restart resumes the newest session.
Resume == active = 0 /\ newest # 0 /\ active' = newest /\ UNCHANGED newest

\* A stop, or a crash.
End    == active # 0 /\ active' = 0 /\ UNCHANGED newest

Next == Begin \/ Take \/ Resume \/ End

Spec == Init /\ [][Next]_<<active, newest>>
=============================================================================
