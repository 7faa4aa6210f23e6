------------------------------ MODULE Custody ------------------------------
(***************************************************************************)
(* What an escrow promises, without caps or counters: an account is opened *)
(* with one holder, who is in service at the time, and stays with it.      *)
(* Money put into the account is the owner's to take back until the holder *)
(* holds the account for a finding, which it can do only while it is in    *)
(* service; while the account is held only its holder takes from it, and   *)
(* the finding it is held for does not change.  A holder that retires does *)
(* not come back.                                                          *)
(* escrow.move and server.move are shown to implement this in module       *)
(* Escrow.                                                                 *)
(***************************************************************************)
EXTENDS Integers

CONSTANTS Accounts, Holders, Claims, NoClaim, NoHolder

VARIABLES service, \* of a holder: "none", "on", "off" (retired) or "gone"
          mode,    \* of an account: "none", "open" or "closed"
          holder,  \* the holder an account is with, or NoHolder
          claim,   \* the finding an account is held for, or NoClaim
          funds

vars == <<service, mode, holder, claim, funds>>

Init == /\ service = [h \in Holders |-> "none"]
        /\ mode = [a \in Accounts |-> "none"]
        /\ holder = [a \in Accounts |-> NoHolder]
        /\ claim = [a \in Accounts |-> NoClaim]
        /\ funds = [a \in Accounts |-> 0]

Employ(h) == /\ service[h] = "none"
             /\ service' = [service EXCEPT ![h] = "on"]
             /\ UNCHANGED <<mode, holder, claim, funds>>

Retire(h) == /\ service[h] = "on"
             /\ service' = [service EXCEPT ![h] = "off"]
             /\ UNCHANGED <<mode, holder, claim, funds>>

Leave(h) == /\ service[h] \in {"on", "off"}
            /\ service' = [service EXCEPT ![h] = "gone"]
            /\ UNCHANGED <<mode, holder, claim, funds>>

IsFree(a) == mode[a] = "open" /\ claim[a] = NoClaim
IsHeld(a) == mode[a] = "open" /\ claim[a] # NoClaim

\* The funds of a become n, a natural number, and those of no other account change.
Fund(a, n) == n \in Nat /\ funds' = [funds EXCEPT ![a] = n]

Open(a, h) == /\ mode[a] = "none"
              /\ service[h] = "on"
              /\ mode' = [mode EXCEPT ![a] = "open"]
              /\ holder' = [holder EXCEPT ![a] = h]
              /\ Fund(a, funds'[a])
              /\ UNCHANGED <<service, claim>>

PayIn(a) == /\ mode[a] = "open"
            /\ funds'[a] >= funds[a]
            /\ Fund(a, funds'[a])
            /\ UNCHANGED <<service, mode, holder, claim>>

TakeBack(a) == /\ IsFree(a)
               /\ funds'[a] <= funds[a]
               /\ Fund(a, funds'[a])
               /\ UNCHANGED <<service, mode, holder, claim>>

Close(a) == /\ IsFree(a)
            /\ mode' = [mode EXCEPT ![a] = "closed"]
            /\ Fund(a, 0)
            /\ UNCHANGED <<service, holder, claim>>

\* The whole of a goes into b, which may be held and may be with another holder.
Roll(a, b) == /\ a # b
              /\ IsFree(a)
              /\ mode[b] = "open"
              /\ mode' = [mode EXCEPT ![a] = "closed"]
              /\ funds' = [funds EXCEPT ![a] = 0, ![b] = @ + funds[a]]
              /\ UNCHANGED <<service, holder, claim>>

Hold(a, c) == /\ IsFree(a)
              /\ service[holder[a]] = "on"
              /\ claim' = [claim EXCEPT ![a] = c]
              /\ UNCHANGED <<service, mode, holder, funds>>

\* The holder, which may have retired, takes part of the money; this may end the
\* hold, but need not.
Take(a) == /\ IsHeld(a)
           /\ service[holder[a]] \in {"on", "off"}
           /\ \/ UNCHANGED claim
              \/ claim' = [claim EXCEPT ![a] = NoClaim]
           /\ funds'[a] <= funds[a]
           /\ Fund(a, funds'[a])
           /\ UNCHANGED <<service, mode, holder>>

Next == \/ \E h \in Holders : Employ(h) \/ Retire(h) \/ Leave(h)
        \/ \E a \in Accounts :
             \/ PayIn(a) \/ TakeBack(a) \/ Close(a) \/ Take(a)
             \/ \E h \in Holders : Open(a, h)
             \/ \E c \in Claims : Hold(a, c)
             \/ \E b \in Accounts : Roll(a, b)

Spec == Init /\ [][Next]_vars
=============================================================================
