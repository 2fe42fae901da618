------------------------------- MODULE Slots -------------------------------
(***************************************************************************)
(* What a prepaid booking promises about the calendar, whatever happens to *)
(* requests, payments and workers: a window is held or taken by at most    *)
(* one checkout at a time, it is taken only by the checkout that held it,  *)
(* and a checkout that gave its window up never gets it back.              *)
(***************************************************************************)
CONSTANTS
    Checkouts,  \* checkouts, by their idempotency key
    WindowOf    \* the window each checkout asks for

VARIABLES
    held,   \* checkouts whose window waits for a payment
    taken,  \* checkouts whose visit is confirmed
    gone    \* checkouts that lost their window

slots == <<held, taken, gone>>

Free(w) == \A c \in held \cup taken : WindowOf[c] # w

Hold(c) ==
    /\ c \notin held \cup taken \cup gone
    /\ Free(WindowOf[c])
    /\ held' = held \cup {c}
    /\ UNCHANGED <<taken, gone>>

Take(c) ==
    /\ c \in held
    /\ held' = held \ {c} /\ taken' = taken \cup {c}
    /\ UNCHANGED gone

Drop(c) ==
    /\ c \in held
    /\ held' = held \ {c} /\ gone' = gone \cup {c}
    /\ UNCHANGED taken

Init == held = {} /\ taken = {} /\ gone = {}
Next == \E c \in Checkouts : Hold(c) \/ Take(c) \/ Drop(c)
Spec == Init /\ [][Next]_slots
=============================================================================
