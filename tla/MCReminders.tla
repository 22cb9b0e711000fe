----------------------------- MODULE MCReminders -----------------------------
(* Reminders for TLC: who set each reminder, and where the residents live. *)
EXTENDS Reminders, TLC

CONSTANTS r1, r2, alice, bob, lowell, dracut

OneEach == r1 :> alice @@ r2 :> bob
TwoCities == alice :> lowell @@ bob :> dracut
=============================================================================
