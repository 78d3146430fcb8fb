------------------------------ MODULE SingleFlight ------------------------------
(***************************************************************************)
(* What a single-flight slot promises its callers: the run that holds it   *)
(* is never joined by a second one unless it may be evicted, and only its  *)
(* own end or an eviction frees the slot.  A run that was evicted keeps    *)
(* executing (alive), but its end says nothing about the slot.             *)
(***************************************************************************)
EXTENDS Integers

CONSTANT MaxBegun   \* bound: runs begun

VARIABLES
  begun,     \* how many runs were begun; they are numbered 1..begun
  holder,    \* the run that holds the slot, 0 if none
  alive,     \* the runs that were begun and have not ended
  evictable  \* the holder may be abandoned for a new run

slot == <<begun, holder, alive, evictable>>

Init == begun = 0 /\ holder = 0 /\ alive = {} /\ evictable = FALSE

Begin ==
  /\ begun < MaxBegun
  /\ holder = 0 \/ evictable
  /\ begun' = begun + 1
  /\ holder' = begun + 1
  /\ alive' = alive \cup {begun + 1}
  /\ evictable' = FALSE

Expire ==
  /\ holder # 0 /\ ~evictable
  /\ evictable' = TRUE
  /\ UNCHANGED <<begun, holder, alive>>

End(r) ==
  /\ alive' = alive \ {r}
  /\ IF r = holder
     THEN holder' = 0 /\ evictable' = FALSE
     ELSE UNCHANGED <<holder, evictable>>
  /\ UNCHANGED begun

Next == Begin \/ Expire \/ \E r \in alive : End(r)

Spec == Init /\ [][Next]_slot
================================================================================
