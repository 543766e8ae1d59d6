------------------------------ MODULE Loading ------------------------------
(***************************************************************************)
(* What a boat's tubes promise, as shared/src/match/tubes.ts states it: a  *)
(* shot costs a reload, a change of mind an unload and a reload, however   *)
(* the ticks fall; and what comes out of a tube is what was last asked for *)
(* while it could still be changed.                                        *)
(*                                                                         *)
(* A gun has the time left until it can fire, the load it will fire then,  *)
(* and the load it takes in after that.                                    *)
(***************************************************************************)
EXTENDS Integers

CONSTANTS
  Gun, Load,
  Span,        \* the time between two ticks
  Emptying,    \* the time to get a load back out
  Filling      \* gun -> the time to get one in

VARIABLE gear   \* gun -> its record

GunRecord == [left : Nat, shot : Load, after : Load]

Init == gear \in [Gun -> [left : {0}, shot : Load, after : Load]]

\* Some guns that are ready are fired: each is a reload away from its next shot.
Shoot(S) ==
  /\ \A g \in S : gear[g].left = 0
  /\ gear' = [g \in Gun |->
                IF g \in S
                THEN [left |-> Filling[g], shot |-> gear[g].after, after |-> gear[g].after]
                ELSE gear[g]]

\* Another load is asked for: at once if there is none in the gun yet.
Choose(g, w) ==
  gear' = [gear EXCEPT ![g].after = w, ![g].shot = IF gear[g].left > 0 THEN w ELSE @]

\* What is in the gun is thrown out for another load.
Swap(g, w) ==
  /\ gear[g].left = 0
  /\ gear' = [gear EXCEPT ![g] = [left |-> Emptying + Filling[g], shot |-> w, after |-> w]]

Elapse ==
  gear' = [g \in Gun |->
             [gear[g] EXCEPT !.left = IF @ > Span THEN @ - Span ELSE 0]]

Next ==
  \/ \E S \in SUBSET Gun : Shoot(S)
  \/ \E g \in Gun, w \in Load : Choose(g, w) \/ Swap(g, w)
  \/ Elapse

Spec == Init /\ [][Next]_gear
=============================================================================
