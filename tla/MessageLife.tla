----------------------------- MODULE MessageLife -----------------------------
(***************************************************************************)
(* What every stage that passes messages on promises, whatever its         *)
(* processes, lists, locks and failures: the staging bridge passes staged  *)
(* items to the workers' lists, a worker passes queued payloads to a       *)
(* platform.  A message is taken by one process at a time, leaves the      *)
(* stage once, and once more for each time the stage was told wrongly that *)
(* it had not left; a message the stage is done with is never touched      *)
(* again.                                                                  *)
(***************************************************************************)
EXTENDS Naturals

CONSTANT Messages

VARIABLE life      \* per message: where it is, how often it left, and how often in doubt

Waiting == "waiting"      \* anybody may take it
Taken   == "taken"        \* somebody has it, and it has not left since
Passed  == "passed"       \* somebody has it and knows that it has left
Over    == "over"         \* settled or dropped

LifeInit == life = [m \in Messages |-> [at |-> Waiting, copies |-> 0, doubts |-> 0]]

Moved(old, new) == new.copies = old.copies /\ new.doubts = old.doubts

Take(old, new)    == old.at = Waiting /\ new.at = Taken /\ Moved(old, new)

\* No copy has left in this turn: the message is available again.
GiveBack(old, new) == old.at = Taken /\ new.at = Waiting /\ Moved(old, new)

Pass(old, new) ==
    /\ old.at = Taken /\ new.at \in {Passed, Over}
    /\ new.copies = old.copies + 1 /\ new.doubts = old.doubts

\* It left, but who passed it on was told that it had not.
Doubt(old, new) ==
    /\ old.at = Taken /\ new.at \in {Waiting, Taken}
    /\ new.copies = old.copies + 1 /\ new.doubts = old.doubts + 1

\* Settled, refused, or dropped by a failure; a message may be dropped unseen.
End(old, new) == old.at # Over /\ new.at = Over /\ Moved(old, new)

Step(old, new) ==
    \/ Take(old, new) \/ GiveBack(old, new) \/ Pass(old, new) \/ Doubt(old, new) \/ End(old, new)

\* One step of a stage may move several messages.
LifeNext ==
    /\ DOMAIN life' = Messages
    /\ \A m \in Messages : life'[m] = life[m] \/ Step(life[m], life'[m])

LifeSpec == LifeInit /\ [][LifeNext]_life
=============================================================================
