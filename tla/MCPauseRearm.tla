----------------------------- MODULE MCPauseRearm -----------------------------
(* Two pauses with one camera in common, a Set Home and a Set Away. *)
EXTENDS PauseRearm, TLC
CONSTANTS gate, yard, p1, p2, home, away
MCTagged == p1 :> {gate} @@ p2 :> {gate, yard}
MCModeOf == [f \in Fulls |-> IF f = home THEN "home" ELSE "away"]
=============================================================================
