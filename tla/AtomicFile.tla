----------------------------- MODULE AtomicFile -----------------------------
(***************************************************************************)
(* What _atomic_write of kaos_agents/memory/store.py gives its callers:    *)
(* as long as they take turns, the file at `path` holds nothing, or the    *)
(* complete bytes of one save, which one step replaces by the complete     *)
(* bytes of a later save.  Once two saves have contended for the path its  *)
(* bytes are anybody's, but the file does not go away.                     *)
(* Payload n stands for the bytes of the n-th save call.                   *)
(***************************************************************************)
EXTENDS Naturals

CONSTANT NoFile         \* the path does not exist

VARIABLES disk,         \* NoFile or the number of the save whose bytes are there
          saves,        \* how many save calls have begun
          contended     \* whether two of them were in progress at once

Init == disk = NoFile /\ saves = 0 /\ contended = FALSE

\* A caller begins a save, alone or beside another; its bytes are not visible yet.
Begin == saves' = saves + 1 /\ contended' \in {contended, TRUE} /\ UNCHANGED disk

\* The bytes of a begun save appear, whole, and never after those of a later one.
Publish ==
  /\ ~contended
  /\ \E n \in 1..saves : (disk = NoFile \/ disk < n) /\ disk' = n
  /\ UNCHANGED <<saves, contended>>

\* Writers that contended for the path leave bytes of some kind.
Garble == contended /\ disk' # NoFile /\ UNCHANGED <<saves, contended>>

Next == Begin \/ Publish \/ Garble

Spec == Init /\ [][Next]_<<disk, saves, contended>>
=============================================================================
