------------------------------ MODULE PaneFeed ------------------------------
(***************************************************************************)
(* What the viewers of one terminal pane are promised: a viewer that is on  *)
(* gets every chunk the pane puts out, in order and once; a viewer that     *)
(* held back gets what it missed, or is told that there is a gap, before    *)
(* the next chunk.  The numbering starts over only when nobody is left.     *)
(***************************************************************************)
EXTENDS Naturals

CONSTANT Viewers

VARIABLES
  emitted,  \* how many chunks the feed has put out
  due,      \* the chunk each viewer has to be given next
  mode      \* whether a viewer is out, on, or holds back

vars == <<emitted, due, mode>>

Out == [v \in Viewers |-> "out"]

Init == emitted = 0 /\ due = [v \in Viewers |-> 1] /\ mode = Out

Join(v) == /\ mode[v] = "out"
           /\ mode' = [mode EXCEPT ![v] = "on"]
           /\ due' = [due EXCEPT ![v] = emitted + 1]
           /\ UNCHANGED emitted

Emit == /\ \A v \in Viewers : mode[v] = "on" => due[v] = emitted + 1
        /\ emitted' = emitted + 1
        /\ due' = [v \in Viewers |-> IF mode[v] = "on" THEN emitted + 2 ELSE due[v]]
        /\ UNCHANGED mode

Hold(v) == mode[v] = "on" /\ mode' = [mode EXCEPT ![v] = "held"]
           /\ UNCHANGED <<emitted, due>>

\* Replayed to, or told of the gap: either way nothing is due but the next.
Resume(v) == /\ mode[v] = "held"
             /\ mode' = [mode EXCEPT ![v] = "on"]
             /\ due' = [due EXCEPT ![v] = emitted + 1]
             /\ UNCHANGED emitted

Leave(v) == /\ mode[v] # "out" /\ mode' = [mode EXCEPT ![v] = "out"]
            /\ due' = [due EXCEPT ![v] = 1]
            /\ UNCHANGED emitted

\* The feed is closed, or the server stops: everybody is out.
Renew == mode' = Out /\ emitted' = 0 /\ due' = [v \in Viewers |-> 1]

Next == \/ Emit \/ Renew
        \/ \E v \in Viewers : Join(v) \/ Hold(v) \/ Resume(v) \/ Leave(v)

Spec == Init /\ [][Next]_vars
=============================================================================
