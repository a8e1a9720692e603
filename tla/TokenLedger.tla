------------------------------ MODULE TokenLedger ------------------------------
(***************************************************************************)
(* What the credit ledger promises for one API key: a request takes its    *)
(* tokens out of the balance before it runs, at most once and only if they *)
(* are there; its reservation is closed at most once, and gives back no    *)
(* more than it took.  The administrator may overwrite the balance at any  *)
(* time, with a negative one too.                                          *)
(***************************************************************************)
EXTENDS Integers

CONSTANT Requests

VARIABLES funds,   \* tokens left; less than none after some overwriting
          amount,  \* amount[r]: what request r took, 0 if nothing
          hold,    \* hold[r]: "none", "held" or "closed"
          orders   \* how often the administrator overwrote the balance

vars == <<funds, amount, hold, orders>>

TypeOK == /\ funds \in Int
          /\ amount \in [Requests -> Nat]
          /\ hold \in [Requests -> {"none", "held", "closed"}]
          /\ orders \in Nat

Init == /\ funds \in Int
        /\ amount = [r \in Requests |-> 0]
        /\ hold = [r \in Requests |-> "none"]
        /\ orders = 0

Reserve(r, n) == /\ hold[r] = "none" /\ n > 0 /\ n <= funds
                 /\ funds' = funds - n
                 /\ amount' = [amount EXCEPT ![r] = n]
                 /\ hold' = [hold EXCEPT ![r] = "held"]
                 /\ UNCHANGED orders

Close(r, back) == /\ hold[r] = "held" /\ back <= amount[r]
                  /\ funds' = funds + back
                  /\ hold' = [hold EXCEPT ![r] = "closed"]
                  /\ UNCHANGED <<amount, orders>>

\* Everything that is still held is forfeited: the coordinator died.
Forfeit == /\ hold' = [r \in Requests |-> IF hold[r] = "held" THEN "closed" ELSE hold[r]]
           /\ UNCHANGED <<funds, amount, orders>>

Overwrite == /\ orders' = orders + 1 /\ funds' \in Int
             /\ UNCHANGED <<amount, hold>>

Next == \/ \E r \in Requests : \E n \in 1..funds : Reserve(r, n)
        \/ \E r \in Requests : \E back \in 0..amount[r] : Close(r, back)
        \/ Forfeit
        \/ Overwrite

Spec == Init /\ [][Next]_vars
===============================================================================
