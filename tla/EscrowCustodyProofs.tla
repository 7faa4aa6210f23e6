------------------------ MODULE EscrowCustodyProofs ------------------------
(***************************************************************************)
(* The escrow contract implements Custody: every call is one step of       *)
(* Custody, or leaves what Custody sees alone.                             *)
(***************************************************************************)
EXTENDS EscrowProofs

\* The abstract mode of Escrow.
modeOf(e) == CASE escrow[e] = "unused" -> "none"
               [] escrow[e] = "live" -> "open"
               [] escrow[e] = "deleted" -> "closed"

modeMap == [e \in Escrows |-> modeOf(e)]

LEMMA SameModes ==
  ASSUME UNCHANGED escrow
  PROVE  UNCHANGED modeMap
  BY DEF modeMap, modeOf

LEMMA OneModeMoves ==
  ASSUME TypeOK, NEW e \in Escrows, NEW x \in Existence, escrow' = [escrow EXCEPT ![e] = x]
  PROVE  modeMap' = [modeMap EXCEPT ![e] = modeOf(e)']
<1>1. \A g \in Escrows \ {e} : escrow'[g] = escrow[g]
  BY DEF TypeOK
<1>2. \A g \in Escrows \ {e} : modeOf(g)' = modeOf(g)
  BY <1>1 DEF modeOf
<1> QED
  BY <1>2 DEF modeMap

\* The abstract service of Escrow.
serviceOf(s) == CASE server[s] = "unused" -> "none"
                  [] server[s] = "live" -> IF is_active[s] THEN "on" ELSE "off"
                  [] server[s] = "deleted" -> "gone"

serviceMap == [s \in Servers |-> serviceOf(s)]

LEMMA SameServices ==
  ASSUME UNCHANGED <<server, is_active>>
  PROVE  UNCHANGED serviceMap
  BY DEF serviceMap, serviceOf

LEMMA OneServiceMoves ==
  ASSUME NEW s \in Servers,
         \A t \in Servers \ {s} : server'[t] = server[t] /\ is_active'[t] = is_active[t]
  PROVE  serviceMap' = [serviceMap EXCEPT ![s] = serviceOf(s)']
<1>1. \A t \in Servers \ {s} : serviceOf(t)' = serviceOf(t)
  BY DEF serviceOf
<1> QED
  BY <1>1 DEF serviceMap

LEMMA CreateServerIsEmploy ==
  ASSUME IInv, NEW s \in Servers, create_server(s)
  PROVE  Custody!Employ(s)
<1>1. serviceOf(s) = "none" /\ serviceOf(s)' = "on"
  BY DEF create_server, serviceOf, IInv, TypeOK
<1>2. serviceMap' = [serviceMap EXCEPT ![s] = "on"]
  BY <1>1, OneServiceMoves DEF create_server, IInv, TypeOK
<1>3. UNCHANGED <<modeMap, server_id, locked_for_finding, balance>>
  BY SameModes DEF create_server, escrowVars
<1> QED
  BY <1>1, <1>2, <1>3 DEF Custody!Employ, serviceMap, serviceOf, modeMap, modeOf

\* Deactivating a server a second time does nothing.
LEMMA DeactivateIsRetire ==
  ASSUME IInv, NEW s \in Servers, deactivate_server(s)
  PROVE  Custody!Retire(s) \/ UNCHANGED Custody!vars
<1>1. UNCHANGED <<modeMap, server_id, locked_for_finding, balance>>
  BY SameModes DEF deactivate_server, escrowVars
<1>2. CASE is_active[s]
  <2>1. serviceOf(s) = "on" /\ serviceOf(s)' = "off"
    BY <1>2 DEF deactivate_server, serviceOf, LiveServers, IInv, TypeOK
  <2>2. serviceMap' = [serviceMap EXCEPT ![s] = "off"]
    BY <2>1, OneServiceMoves DEF deactivate_server, IInv, TypeOK
  <2> QED
    BY <1>1, <2>1, <2>2 DEF Custody!Retire, serviceMap, serviceOf, modeMap, modeOf
<1>3. CASE ~is_active[s]
  <2>1. UNCHANGED <<server, is_active>>
    BY <1>3 DEF deactivate_server, IInv, TypeOK
  <2>2. UNCHANGED serviceMap
    BY <2>1, SameServices
  <2> QED
    BY <1>1, <2>2 DEF Custody!vars, serviceMap, serviceOf, modeMap, modeOf
<1> QED
  BY <1>2, <1>3

LEMMA DestroyServerIsLeave ==
  ASSUME IInv, NEW s \in Servers, destroy_server(s)
  PROVE  Custody!Leave(s)
<1>1. serviceOf(s) \in {"on", "off"} /\ serviceOf(s)' = "gone"
  BY DEF destroy_server, serviceOf, LiveServers, IInv, TypeOK
<1>2. serviceMap' = [serviceMap EXCEPT ![s] = "gone"]
  BY <1>1, OneServiceMoves DEF destroy_server, IInv, TypeOK
<1>3. UNCHANGED <<modeMap, server_id, locked_for_finding, balance>>
  BY SameModes DEF destroy_server, escrowVars
<1> QED
  BY <1>1, <1>2, <1>3 DEF Custody!Leave, serviceMap, serviceOf, modeMap, modeOf

LEMMA CreateIsOpen ==
  ASSUME IInv, NEW s \in Servers, NEW e \in Escrows, NEW n \in 0 .. MAX_U64, create(s, e, n)
  PROVE  Custody!Open(e, s)
<1>1. ~is_locked(e) /\ UNCHANGED serviceMap
  BY SameServices DEF IInv, PledgeKept, create, LiveEscrows, serverVars
<1>2. UNCHANGED locked_for_finding /\ server_id' = [server_id EXCEPT ![e] = s]
  BY <1>1 DEF IInv, TypeOK, create, is_locked
<1>3. modeOf(e) = "none" /\ modeOf(e)' = "open"
  BY DEF create, modeOf, IInv, TypeOK
<1>4. modeMap' = [modeMap EXCEPT ![e] = "open"]
  BY <1>3, OneModeMoves DEF create, IInv, Existence
<1>5. balance'[e] = n /\ balance' = [balance EXCEPT ![e] = n] /\ n \in Nat
  BY EscrowAssumption DEF create, IInv, TypeOK
<1>6. serviceMap[s] = "on"
  BY DEF create, LiveServers, serviceMap, serviceOf
<1> QED
  BY <1>1, <1>2, <1>3, <1>4, <1>5, <1>6 DEF Custody!Open, Custody!Fund, modeMap, modeOf,
     serviceMap, serviceOf

LEMMA DepositIsPayIn ==
  ASSUME IInv, NEW e \in Escrows, NEW n \in Nat, deposit(e, n)
  PROVE  Custody!PayIn(e)
<1>1. /\ modeMap[e] = "open"
      /\ UNCHANGED <<modeMap, locked_for_finding, server_id, serviceMap>>
  BY SameModes, SameServices DEF serverVars, deposit, modeMap, modeOf, LiveEscrows
<1>2. /\ balance'[e] >= balance[e] /\ balance'[e] \in Nat
      /\ balance' = [balance EXCEPT ![e] = balance'[e]]
  BY EscrowAssumption DEF deposit, IInv, TypeOK
<1> QED
  BY <1>1, <1>2 DEF Custody!PayIn, Custody!Fund, modeMap, modeOf,
     serviceMap, serviceOf

LEMMA WithdrawIsTakeBack ==
  ASSUME IInv, NEW cap, NEW e \in Escrows, NEW n \in Nat, withdraw(cap, e, n)
  PROVE  Custody!TakeBack(e)
<1>1. /\ modeMap[e] = "open"
      /\ UNCHANGED <<modeMap, locked_for_finding, server_id, serviceMap>>
  BY SameModes, SameServices DEF serverVars, withdraw, modeMap, modeOf, LiveEscrows
<1>2. /\ balance'[e] <= balance[e] /\ balance'[e] \in Nat
      /\ balance' = [balance EXCEPT ![e] = balance'[e]]
  BY EscrowAssumption DEF withdraw, IInv, TypeOK
<1>3. locked_for_finding[e] = None
  BY DEF withdraw, is_unlocked, is_locked
<1> QED
  BY <1>1, <1>2, <1>3 DEF Custody!TakeBack, Custody!IsFree, Custody!Fund, modeMap, modeOf,
     serviceMap, serviceOf

LEMMA DestroyIsClose ==
  ASSUME IInv, NEW cap, NEW e \in Escrows, destroy_escrow(cap, e)
  PROVE  Custody!Close(e)
<1>1. /\ modeOf(e) = "open" /\ modeOf(e)' = "closed"
      /\ UNCHANGED <<locked_for_finding, server_id, serviceMap>>
  BY SameServices DEF destroy_escrow, serverVars, modeOf, LiveEscrows, IInv, TypeOK
<1>2. modeMap' = [modeMap EXCEPT ![e] = "closed"]
  BY <1>1, OneModeMoves DEF destroy_escrow, IInv, Existence
<1>3. balance' = [balance EXCEPT ![e] = 0] /\ locked_for_finding[e] = None
  BY DEF destroy_escrow, is_unlocked, is_locked
<1> QED
  BY <1>1, <1>2, <1>3 DEF Custody!Close, Custody!IsFree, Custody!Fund, modeMap, modeOf,
     serviceMap, serviceOf

LEMMA MergeIsRoll ==
  ASSUME IInv, NEW cap, NEW target \in Escrows, NEW source \in Escrows,
         merge(cap, target, source)
  PROVE  Custody!Roll(source, target)
<1>1. /\ modeOf(source) = "open" /\ modeOf(target) = "open" /\ modeOf(source)' = "closed"
      /\ UNCHANGED <<locked_for_finding, server_id, serviceMap>>
  BY SameServices DEF merge, serverVars, modeOf, LiveEscrows, IInv, TypeOK
<1>2. modeMap' = [modeMap EXCEPT ![source] = "closed"]
  BY <1>1, OneModeMoves DEF merge, IInv, Existence
<1>3. balance' = [balance EXCEPT ![source] = 0, ![target] = @ + balance[source]]
  BY DEF merge, IInv, TypeOK
<1>4. source # target /\ locked_for_finding[source] = None
  BY DEF merge, is_unlocked, is_locked
<1> QED
  BY <1>1, <1>2, <1>3, <1>4 DEF Custody!Roll, Custody!IsFree, modeMap, modeOf,
     serviceMap, serviceOf

LEMMA LockIsHold ==
  ASSUME IInv, NEW cap, NEW s \in Servers, NEW e \in Escrows, NEW f \in Findings,
         lock_escrow(cap, s, e, f)
  PROVE  Custody!Hold(e, f)
<1>1. /\ modeMap[e] = "open"
      /\ UNCHANGED <<modeMap, balance, server_id, serviceMap>>
  BY SameModes, SameServices DEF serverVars, lock_escrow, modeMap, modeOf, LiveEscrows
<1>2. locked_for_finding[e] = None /\ locked_for_finding' = [locked_for_finding EXCEPT ![e] = f]
  BY DEF lock_escrow, is_locked
<1>3. serviceMap[server_id[e]] = "on"
  BY DEF lock_escrow, assert_server, LiveServers, serviceMap, serviceOf
<1> QED
  BY <1>1, <1>2, <1>3 DEF Custody!Hold, Custody!IsFree, modeMap, modeOf,
     serviceMap, serviceOf

LEMMA UnlockIsTake ==
  ASSUME IInv, NEW s \in Servers, NEW e \in Escrows, NEW n \in Nat,
         (\E cap \in Servers : unlock(cap, s, e, n)) \/ forced_unlock(s, e)
  PROVE  Custody!Take(e)
<1>1. modeMap[e] = "open" /\ UNCHANGED modeMap
  BY SameModes, SameServices DEF serverVars, unlock, forced_unlock, Unlocking, modeMap, modeOf, LiveEscrows
<1>2. locked_for_finding[e] # None /\ UNCHANGED <<locked_for_finding, server_id, serviceMap>>
  BY SameServices DEF unlock, forced_unlock, Unlocking, is_locked
<1>3. /\ balance'[e] <= balance[e] /\ balance'[e] \in Nat
      /\ balance' = [balance EXCEPT ![e] = balance'[e]]
  BY EscrowAssumption DEF unlock, forced_unlock, Unlocking, IInv, TypeOK
<1>4. serviceMap[server_id[e]] \in {"on", "off"}
  BY DEF unlock, forced_unlock, Unlocking, assert_server, LiveServers, serviceMap, serviceOf
<1> QED
  BY <1>1, <1>2, <1>3, <1>4 DEF Custody!Take, Custody!IsHeld, Custody!Fund, modeMap, modeOf,
     serviceMap, serviceOf

LEMMA InitIsInit == Init => Custody!Init
  BY DEF Init, Custody!Init, modeMap, modeOf, serviceMap, serviceOf

LEMMA StepIsStep ==
  ASSUME IInv, [Next]_vars
  PROVE  [Custody!Next]_(Custody!vars)
<1>1. CASE UNCHANGED vars
  BY <1>1, SameModes, SameServices
     DEF vars, escrowVars, serverVars, Custody!vars, modeMap, modeOf, serviceMap, serviceOf
<1>2. ASSUME NEW s \in Servers, create_server(s) \/ deactivate_server(s) \/ destroy_server(s)
      PROVE  Custody!Next \/ UNCHANGED Custody!vars
  BY <1>2, CreateServerIsEmploy, DeactivateIsRetire, DestroyServerIsLeave DEF Custody!Next
<1>3. ASSUME NEW e \in Escrows, NEW s \in Servers, NEW n \in 0 .. MAX_U64, create(s, e, n)
      PROVE  Custody!Next
  BY <1>3, CreateIsOpen DEF Custody!Next
<1>4. ASSUME NEW e \in Escrows, NEW n \in Nat, deposit(e, n)
      PROVE  Custody!Next
  BY <1>4, DepositIsPayIn DEF Custody!Next
<1>5. ASSUME NEW cap, NEW e \in Escrows, NEW n \in Nat, withdraw(cap, e, n)
      PROVE  Custody!Next
  BY <1>5, WithdrawIsTakeBack DEF Custody!Next
<1>6. ASSUME NEW cap, NEW e \in Escrows, destroy_escrow(cap, e)
      PROVE  Custody!Next
  BY <1>6, DestroyIsClose DEF Custody!Next
<1>7. ASSUME NEW cap, NEW target \in Escrows, NEW source \in Escrows, merge(cap, target, source)
      PROVE  Custody!Next
  BY <1>7, MergeIsRoll DEF Custody!Next
<1>8. ASSUME NEW cap, NEW s \in Servers, NEW e \in Escrows, NEW f \in Findings,
             lock_escrow(cap, s, e, f)
      PROVE  Custody!Next
  BY <1>8, LockIsHold DEF Custody!Next
<1>9. ASSUME NEW s \in Servers, NEW e \in Escrows, NEW n \in Nat,
             (\E cap \in Servers : unlock(cap, s, e, n)) \/ forced_unlock(s, e)
      PROVE  Custody!Next
  BY <1>9, UnlockIsTake DEF Custody!Next
<1>10. Amounts \subseteq Nat /\ 0 .. MAX_U64 \subseteq Nat /\ 0 \in Nat
  BY EscrowAssumption DEF Amounts
<1> QED
  BY <1>1, <1>2, <1>3, <1>4, <1>5, <1>6, <1>7, <1>8, <1>9, <1>10 DEF Next

\* Whatever caps and counters do, escrow.move and server.move keep the promise of
\* Custody: held money is its server's alone, a lock and a server are never
\* exchanged, and a deactivated or destroyed server gets no new ones.
THEOREM Refinement == Spec => ImplementsCustody
<1>1. IInv /\ [Next]_vars => [Custody!Next]_(Custody!vars)
  BY StepIsStep
<1> QED
  BY <1>1, InitIsInit, Invariance, PTL DEF Spec, ImplementsCustody, Custody!Spec
=============================================================================
