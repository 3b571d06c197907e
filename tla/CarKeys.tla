------------------------------ MODULE CarKeys ------------------------------
(***************************************************************************)
(* What the fleet promises of its cars' keys: a car is with at most one    *)
(* rental, a rental has at most one car, a rental gets a first car once    *)
(* and, once its car is back, none ever again.                             *)
(***************************************************************************)

CONSTANTS Cars, Rentals, NoCar

VARIABLES
    keys,   \* keys[r]: the car the rental's Renter has now
    done    \* the rentals whose car came back

Free(c) == \A r \in Rentals : keys[r] # c

Init == /\ keys = [r \in Rentals |-> NoCar]
        /\ done = {}

HandOver(r, c) == /\ keys[r] = NoCar /\ r \notin done /\ Free(c)
                  /\ keys' = [keys EXCEPT ![r] = c]
                  /\ UNCHANGED done

Swap(r, c) == /\ keys[r] # NoCar /\ Free(c)
              /\ keys' = [keys EXCEPT ![r] = c]
              /\ UNCHANGED done

GiveBack(r) == /\ keys[r] # NoCar
               /\ keys' = [keys EXCEPT ![r] = NoCar]
               /\ done' = done \cup {r}

Next == \E r \in Rentals :
            \/ \E c \in Cars : HandOver(r, c) \/ Swap(r, c)
            \/ GiveBack(r)

Spec == Init /\ [][Next]_<<keys, done>>

=============================================================================
