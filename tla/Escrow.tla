------------------------------- MODULE Escrow -------------------------------
(***************************************************************************)
(* The runner's contracts, sui/dominion_lancer_runner/sources/server.move  *)
(* and escrow.move: a finder puts money into an escrow with a server, the  *)
(* server's operator locks it for the finding the server works on, and     *)
(* calls unlock to take the fee.  Each action is one Move call; a call     *)
(* that aborts is a disabled action.  The calls are public, and any of     *)
(* them may be made with any cap by whoever holds it, in any order.        *)
(*                                                                         *)
(* The two unlocking calls do not unlock: Option::destroy_some takes the   *)
(* option by value, and a field reached through a reference cannot be      *)
(* moved, so escrow.locked_for_finding.destroy_some() consumes a copy (an  *)
(* Option<ID> can be copied) and the field keeps its value.                *)
(*                                                                         *)
(* The caps made with escrow e and with server s are named e and s; no     *)
(* function deletes a cap.  The escrows of one coin type are modelled:     *)
(* those of different types share nothing but the counter of their server. *)
(***************************************************************************)
EXTENDS Integers, FiniteSets

CONSTANTS
  Servers,      \* object ids that servers can get
  Escrows,      \* object ids that escrows can get
  Findings,     \* the ids lock_escrow is called with
  None,         \* option::none
  MAX_U64,      \* largest u64
  MaxDeposited  \* bound: total paid into one escrow

ASSUME EscrowAssumption ==
  /\ IsFiniteSet(Escrows)
  /\ None \notin Findings \cup Servers
  /\ MAX_U64 \in Nat
  /\ MaxDeposited \in Nat

VARIABLES
  server,               \* server[s]: "unused", "live" or "deleted"
  is_active,            \* fields of Server
  locked_escrow_count,
  escrow,               \* escrow[e]: "unused", "live" or "deleted"
  server_id,            \* fields of Escrow
  balance,
  locked_for_finding,
  deposited,            \* history of an escrow, read by properties only:
  withdrawn,            \*   money in, out to the owner and out to the
  taken,                \*   server; the balance when it was locked
  pledge,
  unlocks               \* history of a server: unlocking calls it was used in

serverVars == <<server, is_active, locked_escrow_count>>
escrowVars == <<escrow, server_id, balance, locked_for_finding>>
history == <<deposited, withdrawn, taken, pledge, unlocks>>
vars == <<serverVars, escrowVars, history>>

Existence == {"unused", "live", "deleted"}

LiveServers == {s \in Servers : server[s] = "live"}
LiveEscrows == {e \in Escrows : escrow[e] = "live"}
OperatorCaps == {s \in Servers : server[s] # "unused"}
OwnerCaps == {e \in Escrows : escrow[e] # "unused"}

-----------------------------------------------------------------------------
(* server.move *)

Init == /\ server = [s \in Servers |-> "unused"]
        /\ is_active = [s \in Servers |-> FALSE]
        /\ locked_escrow_count = [s \in Servers |-> 0]
        /\ escrow = [e \in Escrows |-> "unused"]
        /\ server_id = [e \in Escrows |-> None]
        /\ balance = [e \in Escrows |-> 0]
        /\ locked_for_finding = [e \in Escrows |-> None]
        /\ deposited = [e \in Escrows |-> 0]
        /\ withdrawn = [e \in Escrows |-> 0]
        /\ taken = [e \in Escrows |-> 0]
        /\ pledge = [e \in Escrows |-> 0]
        /\ unlocks = [s \in Servers |-> 0]

create_server(s) ==
  /\ server[s] = "unused"
  /\ server' = [server EXCEPT ![s] = "live"]
  /\ is_active' = [is_active EXCEPT ![s] = TRUE]
  /\ locked_escrow_count' = [locked_escrow_count EXCEPT ![s] = 0]
  /\ UNCHANGED <<escrowVars, history>>

deactivate_server(s) ==
  /\ s \in LiveServers
  /\ is_active' = [is_active EXCEPT ![s] = FALSE]
  /\ UNCHANGED <<server, locked_escrow_count, escrowVars, history>>

destroy_server(s) ==
  /\ s \in LiveServers
  /\ locked_escrow_count[s] = 0
  /\ server' = [server EXCEPT ![s] = "deleted"]
  /\ UNCHANGED <<is_active, locked_escrow_count, escrowVars, history>>

assert_operator_cap(s, cap) == cap \in OperatorCaps /\ cap = s

increment_locked_escrow_count(s) ==
  /\ locked_escrow_count[s] < MAX_U64
  /\ locked_escrow_count' = [locked_escrow_count EXCEPT ![s] = @ + 1]

decrement_locked_escrow_count(s) ==
  /\ locked_escrow_count[s] > 0
  /\ locked_escrow_count' = [locked_escrow_count EXCEPT ![s] = @ - 1]

-----------------------------------------------------------------------------
(* escrow.move, the owner's side *)

assert_owner_cap(e, cap) == cap \in OwnerCaps /\ cap = e

assert_server(e, s) == s \in LiveServers /\ server_id[e] = s

is_locked(e) == locked_for_finding[e] # None

\* Variant: any escrow can be drained.
is_unlocked_always(e) == TRUE

\* The check of the owner's calls, assert!(locked_for_finding.is_none()).
is_unlocked(e) == ~is_locked(e)

\* The new escrow is shared by the transaction that creates it.
create(s, e, n) ==
  /\ s \in LiveServers
  /\ is_active[s]
  /\ escrow[e] = "unused"
  /\ escrow' = [escrow EXCEPT ![e] = "live"]
  /\ server_id' = [server_id EXCEPT ![e] = s]
  /\ balance' = [balance EXCEPT ![e] = n]
  /\ locked_for_finding' = [locked_for_finding EXCEPT ![e] = None]
  /\ deposited' = [deposited EXCEPT ![e] = n]
  /\ UNCHANGED <<serverVars, withdrawn, taken, pledge, unlocks>>

\* Anyone may deposit, also while the escrow is locked.
deposit(e, n) ==
  /\ e \in LiveEscrows
  /\ balance[e] + n <= MAX_U64
  /\ deposited[e] + n <= MaxDeposited
  /\ balance' = [balance EXCEPT ![e] = @ + n]
  /\ deposited' = [deposited EXCEPT ![e] = @ + n]
  /\ UNCHANGED <<serverVars, escrow, server_id, locked_for_finding, withdrawn, taken, pledge,
                 unlocks>>

withdraw(cap, e, n) ==
  /\ e \in LiveEscrows
  /\ assert_owner_cap(e, cap)
  /\ is_unlocked(e)
  /\ n <= balance[e]
  /\ balance' = [balance EXCEPT ![e] = @ - n]
  /\ withdrawn' = [withdrawn EXCEPT ![e] = @ + n]
  /\ UNCHANGED <<serverVars, escrow, server_id, locked_for_finding, deposited, taken, pledge,
                 unlocks>>

\* The cap is borrowed, not deleted; the whole balance goes to the caller.
destroy_escrow(cap, e) ==
  /\ e \in LiveEscrows
  /\ assert_owner_cap(e, cap)
  /\ is_unlocked(e)
  /\ escrow' = [escrow EXCEPT ![e] = "deleted"]
  /\ balance' = [balance EXCEPT ![e] = 0]
  /\ withdrawn' = [withdrawn EXCEPT ![e] = @ + balance[e]]
  /\ UNCHANGED <<serverVars, server_id, locked_for_finding, deposited, taken, pledge, unlocks>>

\* Variant: the money of the source is added to the target a second time.
merge_twice(cap, target, source) ==
  /\ target # source
  /\ {target, source} \subseteq LiveEscrows
  /\ assert_owner_cap(source, cap)
  /\ is_unlocked(source)
  /\ balance[target] + balance[source] <= MAX_U64
  /\ deposited[target] + balance[source] <= MaxDeposited
  /\ escrow' = [escrow EXCEPT ![source] = "deleted"]
  /\ balance' = [balance EXCEPT ![target] = @ + 2 * balance[source], ![source] = 0]
  /\ withdrawn' = [withdrawn EXCEPT ![source] = @ + balance[source]]
  /\ deposited' = [deposited EXCEPT ![target] = @ + balance[source]]
  /\ UNCHANGED <<serverVars, server_id, locked_for_finding, taken, pledge, unlocks>>

\* destroy_escrow of the source and deposit into the target: only the cap and
\* the lock of the source are looked at.  A transaction cannot take one object
\* both by value and by reference, so the two differ.
merge(cap, target, source) ==
  /\ target # source
  /\ {target, source} \subseteq LiveEscrows
  /\ assert_owner_cap(source, cap)
  /\ is_unlocked(source)
  /\ balance[target] + balance[source] <= MAX_U64
  /\ deposited[target] + balance[source] <= MaxDeposited
  /\ escrow' = [escrow EXCEPT ![source] = "deleted"]
  /\ balance' = [balance EXCEPT ![target] = @ + balance[source], ![source] = 0]
  /\ withdrawn' = [withdrawn EXCEPT ![source] = @ + balance[source]]
  /\ deposited' = [deposited EXCEPT ![target] = @ + balance[source]]
  /\ UNCHANGED <<serverVars, server_id, locked_for_finding, taken, pledge, unlocks>>

-----------------------------------------------------------------------------
(* escrow.move, the server's side *)

\* Variant: a deactivated server still takes on work.
lock_escrow_inactive(cap, s, e, f) ==
  /\ e \in LiveEscrows
  /\ assert_operator_cap(s, cap)
  /\ assert_server(e, s)
  /\ ~is_locked(e)
  /\ locked_for_finding' = [locked_for_finding EXCEPT ![e] = f]
  /\ increment_locked_escrow_count(s)
  /\ pledge' = [pledge EXCEPT ![e] = balance[e]]
  /\ UNCHANGED <<server, is_active, escrow, server_id, balance, deposited, withdrawn, taken,
                 unlocks>>

\* Option::fill aborts when the escrow is locked already.
lock_escrow(cap, s, e, f) ==
  /\ e \in LiveEscrows
  /\ assert_operator_cap(s, cap)
  /\ assert_server(e, s)
  /\ is_active[s]
  /\ ~is_locked(e)
  /\ locked_for_finding' = [locked_for_finding EXCEPT ![e] = f]
  /\ increment_locked_escrow_count(s)
  /\ pledge' = [pledge EXCEPT ![e] = balance[e]]
  /\ UNCHANGED <<server, is_active, escrow, server_id, balance, deposited, withdrawn, taken,
                 unlocks>>

\* What unlock and forced_unlock do first: it aborts when the escrow is not locked
\* or the counter is 0, and leaves the lock alone.
Unlocking(s, e) ==
  /\ e \in LiveEscrows
  /\ assert_server(e, s)
  /\ is_locked(e)
  /\ UNCHANGED locked_for_finding
  /\ decrement_locked_escrow_count(s)
  /\ unlocks' = [unlocks EXCEPT ![s] = @ + 1]

\* split aborts when the amount is larger than the balance.  The server need not
\* be active.
unlock(cap, s, e, n) ==
  /\ assert_operator_cap(s, cap)
  /\ Unlocking(s, e)
  /\ n <= balance[e]
  /\ balance' = [balance EXCEPT ![e] = @ - n]
  /\ taken' = [taken EXCEPT ![e] = @ + n]
  /\ UNCHANGED <<server, is_active, escrow, server_id, deposited, withdrawn, pledge>>

\* Variant: the administrator's unlock forgets the counter.
forced_unlock_uncounted(s, e) ==
  /\ e \in LiveEscrows
  /\ assert_server(e, s)
  /\ is_locked(e)
  /\ unlocks' = [unlocks EXCEPT ![s] = @ + 1]
  /\ UNCHANGED <<serverVars, escrowVars, deposited, withdrawn, taken, pledge>>

\* The administrator's unlock, which takes nothing.
forced_unlock(s, e) ==
  /\ Unlocking(s, e)
  /\ UNCHANGED <<server, is_active, escrow, server_id, balance, deposited, withdrawn, taken,
                 pledge>>

-----------------------------------------------------------------------------

Amounts == 0 .. MaxDeposited

Next ==
  \/ \E s \in Servers : create_server(s) \/ deactivate_server(s) \/ destroy_server(s)
  \/ \E s \in Servers, e \in Escrows, n \in Amounts \cap (0 .. MAX_U64) : create(s, e, n)
  \/ \E e \in Escrows, n \in Amounts : deposit(e, n)
  \/ \E cap \in Escrows, e \in Escrows :
       destroy_escrow(cap, e) \/ \E n \in Amounts : withdraw(cap, e, n)
  \/ \E cap \in Escrows, target \in Escrows, source \in Escrows : merge(cap, target, source)
  \/ \E s \in Servers, e \in Escrows :
       \/ forced_unlock(s, e)
       \/ \E cap \in Servers :
            \/ \E f \in Findings : lock_escrow(cap, s, e, f)
            \/ \E n \in 0 .. MAX_U64 : unlock(cap, s, e, n)

Spec == Init /\ [][Next]_vars

-----------------------------------------------------------------------------
(* Properties *)

TypeOK ==
  /\ server \in [Servers -> Existence]
  /\ is_active \in [Servers -> BOOLEAN]
  /\ locked_escrow_count \in [Servers -> 0 .. MAX_U64]
  /\ escrow \in [Escrows -> Existence]
  /\ server_id \in [Escrows -> Servers \cup {None}]
  /\ balance \in [Escrows -> 0 .. MAX_U64]
  /\ locked_for_finding \in [Escrows -> Findings \cup {None}]
  /\ deposited \in [Escrows -> Nat]
  /\ withdrawn \in [Escrows -> Nat]
  /\ taken \in [Escrows -> Nat]
  /\ pledge \in [Escrows -> Nat]
  /\ unlocks \in [Servers -> Nat]

LockedWith(s) == {e \in LiveEscrows : is_locked(e) /\ server_id[e] = s}

\* The counter of a server is the number of its locked escrows less the number of
\* unlocking calls made with it, whichever escrows those were made for.  It never
\* exceeds what is locked, and it is 0 while escrows are locked after as many
\* unlocking calls, which then abort.
CountDrift ==
  \A s \in LiveServers : locked_escrow_count[s] + unlocks[s] = Cardinality(LockedWith(s))

\* What was in an escrow when it was locked stays there but for what the server
\* takes in unlock: no withdrawal, merge or destruction by the owner takes from
\* what the server counts on, and a deleted escrow is never a locked one.
PledgeKept ==
  \A e \in Escrows : is_locked(e) => e \in LiveEscrows /\ balance[e] + taken[e] >= pledge[e]

\* A locked escrow can be released: the server whose object both unlocking
\* calls take as an argument still exists, and its counter does not make them
\* abort.  destroy_server relies on it: src/sui/dominion_lancer_runner/sources/server.move:101
\* asserts that nothing is locked with the server.
LockCanBeReleased ==
  \A e \in LiveEscrows :
    is_locked(e) => server_id[e] \in LiveServers /\ locked_escrow_count[server_id[e]] > 0

\* No coin is lost or made by the calls of an escrow's owner, of the servers and
\* of those who merge into it, and a destroyed escrow holds nothing.
FundsConserved ==
  \A e \in Escrows :
    /\ deposited[e] = balance[e] + withdrawn[e] + taken[e]
    /\ e \notin LiveEscrows => balance[e] = 0

\* Deactivating a server drains it: it is not activated again, and it gets no new
\* escrow and no new lock from calls that were prepared before.
DeactivationDrains ==
  [][\A s \in Servers : server[s] # "unused" /\ ~is_active[s] =>
       /\ ~is_active'[s]
       /\ LockedWith(s)' \subseteq LockedWith(s)
       /\ \A e \in Escrows : server_id'[e] = s => server_id[e] = s]_vars

\* The contract keeps the promise of an escrow stated in Custody.
Custody == INSTANCE Custody
  WITH Accounts <- Escrows, Holders <- Servers, Claims <- Findings,
       NoClaim <- None, NoHolder <- None,
       service <- [s \in Servers |-> CASE server[s] = "unused" -> "none"
                                       [] server[s] = "live" -> IF is_active[s] THEN "on" ELSE "off"
                                       [] server[s] = "deleted" -> "gone"],
       mode <- [e \in Escrows |-> CASE escrow[e] = "unused" -> "none"
                                    [] escrow[e] = "live" -> "open"
                                    [] escrow[e] = "deleted" -> "closed"],
       holder <- server_id,
       claim <- locked_for_finding,
       funds <- balance

\* Escrow implements Custody: held money is not the owner's to take, the finding
\* it is held for and the server it is with do not change, and a deactivated
\* server gets neither escrows nor locks from calls that were prepared before.
ImplementsCustody == Custody!Spec
=============================================================================
