---------------------------- MODULE EscrowProofs ----------------------------
(***************************************************************************)
(* Proofs about Escrow: its types, the counter of locked escrows, the      *)
(* conservation of money, the draining of a deactivated server, and that   *)
(* it implements Custody, for any number of servers and escrows and any    *)
(* amounts.                                                                *)
(***************************************************************************)
EXTENDS Escrow, FiniteSetTheorems, TLAPS

\* What an id that is not in use yet, and the server of an escrow, look like.
FreshIds ==
  /\ \A e \in Escrows : escrow[e] = "unused" =>
       /\ server_id[e] = None
       /\ deposited[e] = 0 /\ withdrawn[e] = 0 /\ taken[e] = 0
  /\ \A e \in LiveEscrows : server_id[e] \in Servers
  /\ \A e \in Escrows, s \in Servers : server_id[e] = s => server[s] # "unused"
  /\ \A s \in Servers : server[s] = "unused" => unlocks[s] = 0

\* The inductive invariant.
IInv == /\ TypeOK
        /\ FreshIds
        /\ CountDrift
        /\ PledgeKept
        /\ FundsConserved

-----------------------------------------------------------------------------
(* Types *)

LEMMA InitTypes == Init => TypeOK
  BY EscrowAssumption DEF Init, TypeOK, Existence

LEMMA ServerCallTypes ==
  ASSUME TypeOK, NEW s \in Servers,
         create_server(s) \/ deactivate_server(s) \/ destroy_server(s)
  PROVE  TypeOK'
<1>1. CASE create_server(s)
  BY <1>1, EscrowAssumption DEF TypeOK, Existence, create_server, escrowVars, history
<1>2. CASE deactivate_server(s)
  BY <1>2 DEF TypeOK, deactivate_server, escrowVars, history
<1>3. CASE destroy_server(s)
  BY <1>3 DEF TypeOK, Existence, destroy_server, escrowVars, history
<1> QED
  BY <1>1, <1>2, <1>3

LEMMA CreateTypes ==
  ASSUME TypeOK, NEW s \in Servers, NEW e \in Escrows, NEW n \in 0 .. MAX_U64, create(s, e, n)
  PROVE  TypeOK'
  BY EscrowAssumption DEF TypeOK, Existence, create, serverVars

LEMMA DepositTypes ==
  ASSUME TypeOK, NEW e \in Escrows, NEW n \in Nat, deposit(e, n)
  PROVE  TypeOK'
  BY EscrowAssumption DEF TypeOK, deposit, serverVars

LEMMA WithdrawTypes ==
  ASSUME TypeOK, NEW cap, NEW e \in Escrows, NEW n \in Nat, withdraw(cap, e, n)
  PROVE  TypeOK'
  BY EscrowAssumption DEF TypeOK, withdraw, serverVars

LEMMA DestroyTypes ==
  ASSUME TypeOK, NEW cap, NEW e \in Escrows, destroy_escrow(cap, e)
  PROVE  TypeOK'
  BY EscrowAssumption DEF TypeOK, Existence, destroy_escrow, serverVars

LEMMA MergeTypes ==
  ASSUME TypeOK, NEW cap, NEW target \in Escrows, NEW source \in Escrows,
         merge(cap, target, source)
  PROVE  TypeOK'
  BY EscrowAssumption DEF TypeOK, Existence, merge, serverVars

LEMMA LockTypes ==
  ASSUME TypeOK, NEW cap, NEW s \in Servers, NEW e \in Escrows, NEW f \in Findings,
         lock_escrow(cap, s, e, f)
  PROVE  TypeOK'
  BY EscrowAssumption DEF TypeOK, lock_escrow, increment_locked_escrow_count

LEMMA UnlockTypes ==
  ASSUME TypeOK, NEW cap, NEW s \in Servers, NEW e \in Escrows, NEW n \in Nat,
         unlock(cap, s, e, n)
  PROVE  TypeOK'
  BY EscrowAssumption DEF TypeOK, unlock, Unlocking, decrement_locked_escrow_count

LEMMA ForcedUnlockTypes ==
  ASSUME TypeOK, NEW s \in Servers, NEW e \in Escrows, forced_unlock(s, e)
  PROVE  TypeOK'
  BY EscrowAssumption DEF TypeOK, forced_unlock, Unlocking, decrement_locked_escrow_count

LEMMA StepTypes ==
  ASSUME TypeOK, [Next]_vars
  PROVE  TypeOK'
<1>1. CASE UNCHANGED vars
  BY <1>1 DEF TypeOK, vars, serverVars, escrowVars, history
<1>2. CASE Next
  <2>1. Amounts \subseteq Nat
    BY EscrowAssumption DEF Amounts
  <2>2. 0 .. MAX_U64 \subseteq Nat
    OBVIOUS
  <2> QED
    BY <1>2, <2>1, <2>2, ServerCallTypes, CreateTypes, DepositTypes, WithdrawTypes, DestroyTypes,
       MergeTypes, LockTypes, UnlockTypes, ForcedUnlockTypes DEF Next
<1> QED
  BY <1>1, <1>2

\* Every reachable state is well typed: no balance and no counter ever leaves
\* the range of a u64, and no subtraction goes below zero.
THEOREM Typing == Spec => []TypeOK
<1>1. Init => TypeOK
  BY InitTypes
<1>2. TypeOK /\ [Next]_vars => TypeOK'
  BY StepTypes
<1> QED
  BY <1>1, <1>2, PTL DEF Spec

-----------------------------------------------------------------------------
(* The escrows a server has locked *)

LEMMA LockedIsFinite == ASSUME NEW s PROVE IsFiniteSet(LockedWith(s))
  BY EscrowAssumption, FS_Subset DEF LockedWith, LiveEscrows

\* Escrows that come or go without being locked do not count.
LEMMA SameLocks ==
  ASSUME NEW s, UNCHANGED locked_for_finding,
         \A e \in Escrows : is_locked(e) => escrow'[e] = escrow[e] /\ server_id'[e] = server_id[e]
  PROVE  LockedWith(s)' = LockedWith(s)
  BY DEF LockedWith, LiveEscrows, is_locked

\* The counters follow when no lock and no counter moves and no server starts.
LEMMA SameCount ==
  ASSUME CountDrift, UNCHANGED <<locked_escrow_count, unlocks, locked_for_finding>>,
         \A e \in Escrows : is_locked(e) => escrow'[e] = escrow[e] /\ server_id'[e] = server_id[e],
         \A s \in Servers : server'[s] = "live" => server[s] = "live"
  PROVE  CountDrift'
<1> SUFFICES ASSUME NEW s \in Servers, server'[s] = "live"
             PROVE  locked_escrow_count'[s] + unlocks'[s] = Cardinality(LockedWith(s)')
  BY DEF CountDrift, LiveServers
<1>1. LockedWith(s)' = LockedWith(s)
  BY SameLocks
<1>2. locked_escrow_count[s] + unlocks[s] = Cardinality(LockedWith(s))
  BY DEF CountDrift, LiveServers
<1> QED
  BY <1>1, <1>2

LEMMA OneMore ==
  ASSUME NEW s \in Servers, NEW e \in LiveEscrows, NEW f \in Findings,
         locked_for_finding \in [Escrows -> Findings \cup {None}],
         server_id[e] = s, ~is_locked(e), UNCHANGED <<escrow, server_id>>,
         locked_for_finding' = [locked_for_finding EXCEPT ![e] = f]
  PROVE  /\ Cardinality(LockedWith(s)') = Cardinality(LockedWith(s)) + 1
         /\ \A t \in Servers \ {s} : LockedWith(t)' = LockedWith(t)
<1>1. f # None
  BY EscrowAssumption
<1>2. LockedWith(s)' = LockedWith(s) \cup {e}
  BY <1>1 DEF LockedWith, LiveEscrows, is_locked
<1>3. e \notin LockedWith(s)
  BY DEF LockedWith
<1>4. \A t \in Servers \ {s} : LockedWith(t)' = LockedWith(t)
  BY DEF LockedWith, LiveEscrows, is_locked
<1> QED
  BY <1>2, <1>3, <1>4, LockedIsFinite, FS_AddElement

-----------------------------------------------------------------------------
(* The inductive step, for the conjuncts about servers and locks *)

Locks == FreshIds /\ CountDrift

LEMMA CreateServerLocks ==
  ASSUME IInv, NEW s \in Servers, create_server(s)
  PROVE  Locks'
<1>1. /\ server[s] = "unused" /\ UNCHANGED escrowVars /\ UNCHANGED history
      /\ server'[s] = "live" /\ locked_escrow_count'[s] = 0
      /\ \A t \in Servers \ {s} : /\ server'[t] = server[t]
                                  /\ locked_escrow_count'[t] = locked_escrow_count[t]
  BY DEF create_server, IInv, TypeOK
<1>2. UNCHANGED <<escrow, server_id, balance, locked_for_finding, deposited, withdrawn, taken,
                  unlocks>>
  BY <1>1 DEF escrowVars, history
<1>3. FreshIds'
  BY <1>1, <1>2 DEF IInv, FreshIds, LiveEscrows
<1>4. \A t \in Servers : LockedWith(t)' = LockedWith(t)
  BY <1>2, SameLocks
<1>5. LockedWith(s) = {} /\ unlocks[s] = 0
  BY <1>1 DEF IInv, FreshIds, LockedWith, LiveEscrows
<1>6. CountDrift'
  <2> SUFFICES ASSUME NEW t \in Servers, server'[t] = "live"
               PROVE  locked_escrow_count'[t] + unlocks'[t] = Cardinality(LockedWith(t)')
    BY DEF CountDrift, LiveServers
  <2>1. CASE t = s
    BY <2>1, <1>1, <1>2, <1>4, <1>5, FS_EmptySet
  <2>2. CASE t # s
    BY <2>2, <1>1, <1>2, <1>4 DEF IInv, CountDrift, LiveServers
  <2> QED
    BY <2>1, <2>2
<1> QED
  BY <1>3, <1>6 DEF Locks

LEMMA EndServerLocks ==
  ASSUME IInv, NEW s \in Servers, deactivate_server(s) \/ destroy_server(s)
  PROVE  Locks'
<1>1. /\ UNCHANGED <<locked_escrow_count, escrow, server_id, locked_for_finding,
                     deposited, withdrawn, taken, unlocks>>
      /\ \A t \in Servers : \/ server'[t] = server[t]
                            \/ server[t] = "live" /\ server'[t] = "deleted"
  BY DEF deactivate_server, destroy_server, escrowVars, history, LiveServers, IInv, TypeOK
<1>2. FreshIds'
  BY <1>1 DEF IInv, FreshIds, LiveEscrows
<1>3. CountDrift'
  BY <1>1, SameCount DEF IInv
<1> QED
  BY <1>2, <1>3 DEF Locks

LEMMA CreateLocks ==
  ASSUME IInv, NEW s \in Servers, NEW e \in Escrows, NEW n \in 0 .. MAX_U64, create(s, e, n)
  PROVE  Locks'
<1>1. /\ s \in LiveServers /\ escrow[e] = "unused"
      /\ UNCHANGED <<server, locked_escrow_count, withdrawn, taken, unlocks>>
      /\ escrow' = [escrow EXCEPT ![e] = "live"]
      /\ server_id' = [server_id EXCEPT ![e] = s]
      /\ locked_for_finding' = [locked_for_finding EXCEPT ![e] = None]
      /\ deposited' = [deposited EXCEPT ![e] = n]
  BY DEF create, serverVars
<1>2. ~is_locked(e)
  BY <1>1 DEF IInv, PledgeKept, LiveEscrows
<1>3. UNCHANGED locked_for_finding
  BY <1>1, <1>2 DEF IInv, TypeOK, is_locked
<1>4. /\ \A g \in Escrows \ {e} : /\ escrow'[g] = escrow[g] /\ server_id'[g] = server_id[g]
                                  /\ deposited'[g] = deposited[g]
      /\ escrow'[e] = "live" /\ server_id'[e] = s
  BY <1>1 DEF IInv, TypeOK
<1>5. FreshIds'
  BY <1>1, <1>4 DEF IInv, FreshIds, LiveEscrows, LiveServers
<1>6. CountDrift'
  BY <1>1, <1>2, <1>3, <1>4, SameCount DEF IInv
<1> QED
  BY <1>5, <1>6 DEF Locks

\* The calls that only move money, or end an escrow that is not locked.
LEMMA MoneyCallLocks ==
  ASSUME IInv, UNCHANGED <<serverVars, server_id, locked_for_finding, unlocks>>,
         \A e \in Escrows : \/ escrow'[e] = escrow[e]
                            \/ escrow[e] = "live" /\ escrow'[e] = "deleted" /\ ~is_locked(e),
         \A e \in Escrows : escrow[e] = "unused" =>
           deposited'[e] = deposited[e] /\ withdrawn'[e] = withdrawn[e] /\ taken'[e] = taken[e]
  PROVE  Locks'
<1>1. UNCHANGED <<server, locked_escrow_count>>
  BY DEF serverVars
<1>2. FreshIds'
  BY <1>1 DEF IInv, FreshIds, LiveEscrows
<1>3. CountDrift'
  BY <1>1, SameCount DEF IInv
<1> QED
  BY <1>2, <1>3 DEF Locks

LEMMA LockLocks ==
  ASSUME IInv, NEW cap, NEW s \in Servers, NEW e \in Escrows, NEW f \in Findings,
         lock_escrow(cap, s, e, f)
  PROVE  Locks'
<1>1. /\ e \in LiveEscrows /\ s \in LiveServers /\ server_id[e] = s /\ ~is_locked(e)
      /\ UNCHANGED <<server, escrow, server_id, deposited, withdrawn, taken, unlocks>>
      /\ locked_for_finding' = [locked_for_finding EXCEPT ![e] = f]
      /\ locked_escrow_count' = [locked_escrow_count EXCEPT ![s] = @ + 1]
  BY DEF lock_escrow, assert_server, increment_locked_escrow_count
<1>2. FreshIds'
  BY <1>1 DEF IInv, FreshIds, LiveEscrows
<1>3. /\ Cardinality(LockedWith(s)') = Cardinality(LockedWith(s)) + 1
      /\ \A t \in Servers \ {s} : LockedWith(t)' = LockedWith(t)
  BY <1>1, OneMore DEF IInv, TypeOK
<1>4. /\ \A t \in Servers : locked_escrow_count[t] \in Nat /\ unlocks[t] \in Nat
      /\ locked_escrow_count'[s] = locked_escrow_count[s] + 1
      /\ \A t \in Servers \ {s} : locked_escrow_count'[t] = locked_escrow_count[t]
  BY <1>1, EscrowAssumption DEF IInv, TypeOK
<1>5. CountDrift'
  <2> SUFFICES ASSUME NEW t \in LiveServers
               PROVE  locked_escrow_count'[t] + unlocks'[t] = Cardinality(LockedWith(t)')
    BY <1>1 DEF CountDrift, LiveServers
  <2>1. t \in Servers /\ locked_escrow_count[t] + unlocks[t] = Cardinality(LockedWith(t))
    BY DEF IInv, CountDrift, LiveServers
  <2>2. CASE t = s
    BY <2>1, <2>2, <1>1, <1>3, <1>4
  <2>3. CASE t # s
    BY <2>1, <2>3, <1>1, <1>3, <1>4
  <2> QED
    BY <2>2, <2>3
<1> QED
  BY <1>2, <1>5 DEF Locks

\* Every unlocking call takes one from the counter and leaves the locks as they are.
LEMMA UnlockingLocks ==
  ASSUME IInv, NEW s \in Servers, NEW e \in Escrows, Unlocking(s, e),
         UNCHANGED <<server, escrow, server_id, deposited, withdrawn>>,
         \A g \in Escrows : escrow[g] = "unused" => taken'[g] = taken[g]
  PROVE  Locks'
<1>1. /\ s \in LiveServers /\ UNCHANGED locked_for_finding
      /\ locked_escrow_count' = [locked_escrow_count EXCEPT ![s] = @ - 1]
      /\ unlocks' = [unlocks EXCEPT ![s] = @ + 1]
  BY DEF Unlocking, assert_server, decrement_locked_escrow_count
<1>2. /\ \A t \in Servers : locked_escrow_count[t] \in Nat /\ unlocks[t] \in Nat
      /\ locked_escrow_count'[s] = locked_escrow_count[s] - 1
      /\ unlocks'[s] = unlocks[s] + 1
      /\ \A t \in Servers \ {s} : /\ locked_escrow_count'[t] = locked_escrow_count[t]
                                  /\ unlocks'[t] = unlocks[t]
  BY <1>1, EscrowAssumption DEF IInv, TypeOK
<1>3. FreshIds'
  BY <1>1, <1>2 DEF IInv, FreshIds, LiveEscrows, LiveServers
<1>4. \A t \in Servers : LockedWith(t)' = LockedWith(t)
  BY <1>1, SameLocks
<1>5. CountDrift'
  <2> SUFFICES ASSUME NEW t \in LiveServers
               PROVE  locked_escrow_count'[t] + unlocks'[t] = Cardinality(LockedWith(t)')
    BY DEF CountDrift, LiveServers
  <2>1. t \in Servers /\ locked_escrow_count[t] + unlocks[t] = Cardinality(LockedWith(t))
    BY DEF IInv, CountDrift, LiveServers
  <2>2. locked_escrow_count'[t] + unlocks'[t] = locked_escrow_count[t] + unlocks[t]
    BY <2>1, <1>2
  <2> QED
    BY <2>1, <2>2, <1>4
<1> QED
  BY <1>3, <1>5 DEF Locks

LEMMA UnlockLocks ==
  ASSUME IInv, NEW cap, NEW s \in Servers, NEW e \in Escrows, NEW n \in Nat,
         unlock(cap, s, e, n)
  PROVE  Locks'
<1>1. Unlocking(s, e) /\ e \in LiveEscrows
      /\ UNCHANGED <<server, escrow, server_id, deposited, withdrawn>>
      /\ taken' = [taken EXCEPT ![e] = @ + n]
  BY DEF unlock, Unlocking
<1>2. \A g \in Escrows : escrow[g] = "unused" => taken'[g] = taken[g]
  BY <1>1 DEF LiveEscrows, IInv, TypeOK
<1> QED
  BY <1>1, <1>2, UnlockingLocks

LEMMA ForcedUnlockLocks ==
  ASSUME IInv, NEW s \in Servers, NEW e \in Escrows, forced_unlock(s, e)
  PROVE  Locks'
  BY UnlockingLocks DEF forced_unlock

-----------------------------------------------------------------------------
(* The inductive step, for the conjuncts about money *)

Funds == PledgeKept /\ FundsConserved

\* The books of one escrow.
FundsOf(e) ==
  /\ is_locked(e) => e \in LiveEscrows /\ balance[e] + taken[e] >= pledge[e]
  /\ deposited[e] = balance[e] + withdrawn[e] + taken[e]
  /\ e \notin LiveEscrows => balance[e] = 0

LEMMA FundsByEscrow == Funds <=> \A e \in Escrows : FundsOf(e)
  BY DEF Funds, PledgeKept, FundsConserved, FundsOf

\* An escrow a call does not touch keeps its books.
SameBooks(e) ==
  /\ escrow'[e] = escrow[e]
  /\ locked_for_finding'[e] = locked_for_finding[e]
  /\ balance'[e] = balance[e]
  /\ deposited'[e] = deposited[e]
  /\ withdrawn'[e] = withdrawn[e]
  /\ taken'[e] = taken[e]
  /\ pledge'[e] = pledge[e]

LEMMA FundsFrame ==
  ASSUME IInv, \A g \in Escrows : SameBooks(g) \/ FundsOf(g)'
  PROVE  Funds'
<1>1. \A g \in Escrows : FundsOf(g)
  BY FundsByEscrow DEF IInv, Funds
<1>2. \A g \in Escrows : SameBooks(g) => FundsOf(g)'
  BY <1>1 DEF FundsOf, SameBooks, is_locked, LiveEscrows
<1>3. \A g \in Escrows : FundsOf(g)'
  BY <1>2
<1>4. Funds' <=> \A g \in Escrows : FundsOf(g)'
  BY DEF Funds, PledgeKept, FundsConserved, FundsOf
<1> QED
  BY <1>3, <1>4

LEMMA CreateFunds ==
  ASSUME IInv, NEW s \in Servers, NEW e \in Escrows, NEW n \in 0 .. MAX_U64,
         create(s, e, n)
  PROVE  Funds'
<1>1. \A g \in Escrows \ {e} : SameBooks(g)
  BY DEF create, serverVars, SameBooks, IInv, TypeOK
<1>2. FundsOf(e)
  BY FundsByEscrow DEF IInv, Funds
<1>3. FundsOf(e)'
  BY <1>2, EscrowAssumption
     DEF create, serverVars, FundsOf, IInv, TypeOK, FreshIds, is_unlocked, is_locked, LiveEscrows
<1> QED
  BY <1>1, <1>3, FundsFrame

LEMMA DepositFunds ==
  ASSUME IInv, NEW e \in Escrows, NEW n \in Nat,
         deposit(e, n)
  PROVE  Funds'
<1>1. \A g \in Escrows \ {e} : SameBooks(g)
  BY DEF deposit, serverVars, SameBooks, IInv, TypeOK
<1>2. FundsOf(e)
  BY FundsByEscrow DEF IInv, Funds
<1>3. FundsOf(e)'
  BY <1>2, EscrowAssumption
     DEF deposit, serverVars, FundsOf, IInv, TypeOK, FreshIds, is_unlocked, is_locked, LiveEscrows
<1> QED
  BY <1>1, <1>3, FundsFrame

LEMMA WithdrawFunds ==
  ASSUME IInv, NEW cap, NEW e \in Escrows, NEW n \in Nat,
         withdraw(cap, e, n)
  PROVE  Funds'
<1>1. \A g \in Escrows \ {e} : SameBooks(g)
  BY DEF withdraw, serverVars, SameBooks, IInv, TypeOK
<1>2. FundsOf(e)
  BY FundsByEscrow DEF IInv, Funds
<1>3. FundsOf(e)'
  BY <1>2, EscrowAssumption
     DEF withdraw, serverVars, FundsOf, IInv, TypeOK, FreshIds, is_unlocked, is_locked, LiveEscrows
<1> QED
  BY <1>1, <1>3, FundsFrame

LEMMA DestroyFunds ==
  ASSUME IInv, NEW cap, NEW e \in Escrows,
         destroy_escrow(cap, e)
  PROVE  Funds'
<1>1. \A g \in Escrows \ {e} : SameBooks(g)
  BY DEF destroy_escrow, serverVars, SameBooks, IInv, TypeOK
<1>2. FundsOf(e)
  BY FundsByEscrow DEF IInv, Funds
<1>3. FundsOf(e)'
  BY <1>2, EscrowAssumption
     DEF destroy_escrow, serverVars, FundsOf, IInv, TypeOK, FreshIds, is_unlocked, is_locked, LiveEscrows
<1> QED
  BY <1>1, <1>3, FundsFrame

LEMMA LockFunds ==
  ASSUME IInv, NEW cap, NEW s \in Servers, NEW e \in Escrows, NEW f \in Findings,
         lock_escrow(cap, s, e, f)
  PROVE  Funds'
<1>1. \A g \in Escrows \ {e} : SameBooks(g)
  BY DEF lock_escrow, SameBooks, IInv, TypeOK
<1>2. FundsOf(e)
  BY FundsByEscrow DEF IInv, Funds
<1>3. FundsOf(e)'
  BY <1>2, EscrowAssumption
     DEF lock_escrow, FundsOf, IInv, TypeOK, FreshIds, is_unlocked, is_locked, LiveEscrows
<1> QED
  BY <1>1, <1>3, FundsFrame

LEMMA UnlockFunds ==
  ASSUME IInv, NEW cap, NEW s \in Servers, NEW e \in Escrows, NEW n \in Nat,
         unlock(cap, s, e, n)
  PROVE  Funds'
<1>1. \A g \in Escrows \ {e} : SameBooks(g)
  BY DEF unlock, Unlocking, SameBooks, IInv, TypeOK
<1>2. FundsOf(e)
  BY FundsByEscrow DEF IInv, Funds
<1>3. FundsOf(e)'
  BY <1>2, EscrowAssumption
     DEF unlock, Unlocking, FundsOf, IInv, TypeOK, FreshIds, is_unlocked, is_locked, LiveEscrows
<1> QED
  BY <1>1, <1>3, FundsFrame

LEMMA ForcedUnlockFunds ==
  ASSUME IInv, NEW s \in Servers, NEW e \in Escrows,
         forced_unlock(s, e)
  PROVE  Funds'
<1>1. \A g \in Escrows \ {e} : SameBooks(g)
  BY DEF forced_unlock, Unlocking, SameBooks, IInv, TypeOK
<1>2. FundsOf(e)
  BY FundsByEscrow DEF IInv, Funds
<1>3. FundsOf(e)'
  BY <1>2, EscrowAssumption
     DEF forced_unlock, Unlocking, FundsOf, IInv, TypeOK, FreshIds, is_unlocked, is_locked, LiveEscrows
<1> QED
  BY <1>1, <1>3, FundsFrame

LEMMA MergeFunds ==
  ASSUME IInv, NEW cap, NEW target \in Escrows, NEW source \in Escrows,
         merge(cap, target, source)
  PROVE  Funds'
<1>1. \A g \in Escrows \ {target, source} : SameBooks(g)
  BY DEF merge, SameBooks, IInv, TypeOK, serverVars
<1>2. FundsOf(source) /\ FundsOf(target)
  BY FundsByEscrow DEF IInv, Funds
<1>3. FundsOf(source)'
  BY <1>2, EscrowAssumption
     DEF merge, FundsOf, IInv, TypeOK, is_unlocked, is_locked, LiveEscrows
<1>4. FundsOf(target)'
  BY <1>2, EscrowAssumption DEF merge, FundsOf, IInv, TypeOK, is_locked, LiveEscrows
<1> QED
  BY <1>1, <1>3, <1>4, FundsFrame

LEMMA ServerCallFunds ==
  ASSUME IInv, UNCHANGED <<escrowVars, history>>
  PROVE  Funds'
<1>1. \A g \in Escrows : SameBooks(g)
  BY DEF escrowVars, history, SameBooks
<1> QED
  BY <1>1, FundsFrame

-----------------------------------------------------------------------------
(* The theorems *)

LEMMA InitInvariant == Init => IInv
<1> SUFFICES ASSUME Init PROVE IInv
  OBVIOUS
<1>1. TypeOK
  BY InitTypes
<1>2. \A e \in Escrows : ~is_locked(e)
  BY DEF Init, is_locked
<1>3. LiveServers = {} /\ LiveEscrows = {}
  BY DEF Init, LiveServers, LiveEscrows
<1>4. FreshIds
  BY <1>3, EscrowAssumption DEF Init, FreshIds
<1>5. CountDrift /\ PledgeKept
  BY <1>2, <1>3 DEF CountDrift, PledgeKept
<1>6. FundsConserved
  BY DEF Init, FundsConserved
<1> QED
  BY <1>1, <1>4, <1>5, <1>6 DEF IInv

LEMMA StepInvariant ==
  ASSUME IInv, [Next]_vars
  PROVE  IInv'
<1>1. TypeOK'
  BY StepTypes DEF IInv
<1> SUFFICES Locks' /\ Funds'
  BY <1>1 DEF IInv, Locks, Funds
<1>2. CASE UNCHANGED vars
  <2>1. UNCHANGED <<serverVars, escrowVars, history>>
    BY <1>2 DEF vars
  <2>2. Locks'
    BY <2>1, MoneyCallLocks DEF escrowVars, history
  <2> QED
    BY <2>1, <2>2, ServerCallFunds
<1>3. ASSUME NEW s \in Servers, create_server(s) \/ deactivate_server(s) \/ destroy_server(s)
      PROVE  Locks' /\ Funds'
  <2>1. UNCHANGED <<escrowVars, history>>
    BY <1>3 DEF create_server, deactivate_server, destroy_server
  <2> QED
    BY <1>3, <2>1, ServerCallFunds, CreateServerLocks, EndServerLocks
<1>4. ASSUME NEW s \in Servers, NEW e \in Escrows, NEW n \in 0 .. MAX_U64, create(s, e, n)
      PROVE  Locks' /\ Funds'
  BY <1>4, CreateLocks, CreateFunds
<1>5. ASSUME NEW e \in Escrows, NEW n \in Nat, deposit(e, n)
      PROVE  Locks' /\ Funds'
  <2>1. Locks'
    BY <1>5, MoneyCallLocks DEF deposit, IInv, TypeOK, LiveEscrows
  <2> QED
    BY <1>5, <2>1, DepositFunds
<1>6. ASSUME NEW cap \in Escrows, NEW e \in Escrows, NEW n \in Nat, withdraw(cap, e, n)
      PROVE  Locks' /\ Funds'
  <2>1. Locks'
    BY <1>6, MoneyCallLocks DEF withdraw, IInv, TypeOK, LiveEscrows
  <2> QED
    BY <1>6, <2>1, WithdrawFunds
<1>7. ASSUME NEW cap \in Escrows, NEW e \in Escrows, destroy_escrow(cap, e)
      PROVE  Locks' /\ Funds'
  <2>1. Locks'
    BY <1>7, MoneyCallLocks DEF destroy_escrow, IInv, TypeOK, LiveEscrows, is_unlocked
  <2> QED
    BY <1>7, <2>1, DestroyFunds
<1>8. ASSUME NEW cap \in Escrows, NEW target \in Escrows, NEW source \in Escrows,
             merge(cap, target, source)
      PROVE  Locks' /\ Funds'
  <2>1. Locks'
    BY <1>8, MoneyCallLocks DEF merge, IInv, TypeOK, LiveEscrows, is_unlocked
  <2> QED
    BY <1>8, <2>1, MergeFunds
<1>9. ASSUME NEW cap \in Servers, NEW s \in Servers, NEW e \in Escrows, NEW f \in Findings,
             lock_escrow(cap, s, e, f)
      PROVE  Locks' /\ Funds'
  BY <1>9, LockLocks, LockFunds
<1>10. ASSUME NEW cap \in Servers, NEW s \in Servers, NEW e \in Escrows, NEW n \in Nat,
              unlock(cap, s, e, n)
       PROVE  Locks' /\ Funds'
  BY <1>10, UnlockLocks, UnlockFunds
<1>11. ASSUME NEW s \in Servers, NEW e \in Escrows, forced_unlock(s, e)
       PROVE  Locks' /\ Funds'
  BY <1>11, ForcedUnlockLocks, ForcedUnlockFunds
<1>12. Amounts \subseteq Nat /\ 0 .. MAX_U64 \subseteq Nat
  BY EscrowAssumption DEF Amounts
<1> QED
  BY <1>2, <1>3, <1>4, <1>5, <1>6, <1>7, <1>8, <1>9, <1>10, <1>11, <1>12 DEF Next

\* The strengthening from which the safety theorems follow is invariant.
THEOREM Invariance == Spec => []IInv
<1>1. IInv /\ [Next]_vars => IInv'
  BY StepInvariant
<1> QED
  BY <1>1, InitInvariant, PTL DEF Spec

\* A server's counter is the number of escrows it has locked less the number of
\* unlocking calls: it never goes below zero, and never blocks more than its
\* locks do.
THEOREM CounterDrifts == Spec => []CountDrift
<1>1. IInv => CountDrift
  BY DEF IInv
<1> QED
  BY <1>1, Invariance, PTL

\* What was pledged stays in the escrow but for what the server takes.
THEOREM PledgesAreKept == Spec => []PledgeKept
<1>1. IInv => PledgeKept
  BY DEF IInv
<1> QED
  BY <1>1, Invariance, PTL

\* The money of every escrow is accounted for.
THEOREM Conservation == Spec => []FundsConserved
<1>1. IInv => FundsConserved
  BY DEF IInv
<1> QED
  BY <1>1, Invariance, PTL

-----------------------------------------------------------------------------
(* Draining *)

\* What DeactivationDrains says of a step, for one server.
Drains(s) ==
  /\ ~is_active'[s]
  /\ LockedWith(s)' \subseteq LockedWith(s)
  /\ \A e \in Escrows : server_id'[e] = s => server_id[e] = s

LEMMA DrainsWithoutLock ==
  ASSUME NEW s \in Servers, ~is_active'[s],
         \A e \in Escrows : /\ server_id'[e] = s => server_id[e] = s
                            /\ escrow'[e] = "live" /\ server_id'[e] = s => escrow[e] = "live"
                            /\ is_locked(e)' => is_locked(e) \/ server_id'[e] # s
  PROVE  Drains(s)
  BY DEF Drains, LockedWith, LiveEscrows

LEMMA StepDrains ==
  ASSUME IInv, [Next]_vars, NEW s \in Servers, server[s] # "unused", ~is_active[s]
  PROVE  Drains(s)
<1> USE DEF IInv, TypeOK, is_locked
<1>1. CASE UNCHANGED vars
  BY <1>1, DrainsWithoutLock DEF vars, serverVars, escrowVars
<1>2. ASSUME NEW t \in Servers, create_server(t) \/ deactivate_server(t) \/ destroy_server(t)
      PROVE  Drains(s)
  <2>1. ~is_active'[s] /\ UNCHANGED escrowVars
    BY <1>2 DEF create_server, deactivate_server, destroy_server
  <2> QED
    BY <2>1, DrainsWithoutLock DEF escrowVars
<1>3. ASSUME NEW t \in Servers, NEW e \in Escrows, NEW n \in 0 .. MAX_U64, create(t, e, n)
      PROVE  Drains(s)
  <2>1. t # s /\ UNCHANGED is_active
    BY <1>3 DEF create, serverVars
  <2>2. \A g \in Escrows \ {e} : /\ server_id'[g] = server_id[g] /\ escrow'[g] = escrow[g]
                                 /\ locked_for_finding'[g] = locked_for_finding[g]
    BY <1>3 DEF create
  <2>3. server_id'[e] = t
    BY <1>3 DEF create
  <2> QED
    BY <2>1, <2>2, <2>3, DrainsWithoutLock
<1>4. ASSUME NEW e \in Escrows, NEW n \in Nat, deposit(e, n)
      PROVE  Drains(s)
  BY <1>4, DrainsWithoutLock DEF deposit, serverVars
<1>5. ASSUME NEW cap \in Escrows, NEW e \in Escrows, NEW n \in Nat, withdraw(cap, e, n)
      PROVE  Drains(s)
  BY <1>5, DrainsWithoutLock DEF withdraw, serverVars
<1>6. ASSUME NEW cap \in Escrows, NEW e \in Escrows, destroy_escrow(cap, e)
      PROVE  Drains(s)
  BY <1>6, DrainsWithoutLock DEF destroy_escrow, serverVars
<1>7. ASSUME NEW cap \in Escrows, NEW target \in Escrows, NEW source \in Escrows,
             merge(cap, target, source)
      PROVE  Drains(s)
  BY <1>7, DrainsWithoutLock DEF merge, serverVars, LiveEscrows
<1>8. ASSUME NEW cap \in Servers, NEW t \in Servers, NEW e \in Escrows, NEW f \in Findings,
             lock_escrow(cap, t, e, f)
      PROVE  Drains(s)
  <2>1. server_id[e] # s /\ UNCHANGED <<is_active, server_id, escrow>>
    BY <1>8 DEF lock_escrow, assert_server
  <2>2. \A g \in Escrows \ {e} : locked_for_finding'[g] = locked_for_finding[g]
    BY <1>8 DEF lock_escrow
  <2> QED
    BY <2>1, <2>2, DrainsWithoutLock
<1>9. ASSUME NEW cap \in Servers, NEW t \in Servers, NEW e \in Escrows, NEW n \in Nat,
             unlock(cap, t, e, n)
      PROVE  Drains(s)
  BY <1>9, DrainsWithoutLock DEF unlock, Unlocking
<1>10. ASSUME NEW t \in Servers, NEW e \in Escrows, forced_unlock(t, e)
       PROVE  Drains(s)
  BY <1>10, DrainsWithoutLock DEF forced_unlock, Unlocking
<1>11. Amounts \subseteq Nat /\ 0 .. MAX_U64 \subseteq Nat
  BY EscrowAssumption DEF Amounts
<1> QED
  BY <1>1, <1>2, <1>3, <1>4, <1>5, <1>6, <1>7, <1>8, <1>9, <1>10, <1>11 DEF Next

\* A deactivated server gets neither escrows nor locks any more.
THEOREM Draining == Spec => DeactivationDrains
<1>1. IInv /\ [Next]_vars =>
        [\A s \in Servers : server[s] # "unused" /\ ~is_active[s] =>
           /\ ~is_active'[s]
           /\ LockedWith(s)' \subseteq LockedWith(s)
           /\ \A e \in Escrows : server_id'[e] = s => server_id[e] = s]_vars
  BY StepDrains DEF Drains
<1> QED
  BY <1>1, Invariance, PTL DEF Spec, DeactivationDrains
=============================================================================
