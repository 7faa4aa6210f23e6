------------------------- MODULE CreateFindingProofs -------------------------
(***************************************************************************)
(* Proofs about CreateFinding: the server is only told of an escrow opened *)
(* with it, a finding is only ever made from a list of at most one escrow, *)
(* the escrow holds the budget, and who ends without an escrow to name     *)
(* lost a race.  Every transaction that succeeds is one call of the escrow *)
(* contract, so what the contract promises holds under the client.         *)
(***************************************************************************)
EXTENDS CreateFinding, EscrowCustodyProofs, SequenceTheorems, WellFoundedInduction

\* A list has an entry of its own for every escrow, and a first entry if it has any.
IsListing(l) ==
  /\ \A i, j \in DOMAIN l : l[i].id = l[j].id => i = j
  /\ l = <<>> \/ 1 \in DOMAIN l

\* Escrow e was opened with the server.
WithServer(e) == e \in Escrows /\ escrow[e] # "unused" /\ server_id[e] = TheServer

AllWithServer(l) == \A i \in DOMAIN l : WithServer(l[i].id)

Shapes ==
  /\ escrow \in [Escrows -> Existence]
  /\ server_id \in [Escrows -> Servers \cup {None}]
  /\ stage = [f \in Forms |-> stage[f]]
  /\ listed = [f \in Forms |-> listed[f]]
  /\ made = [f \in Forms |-> made[f]]
  /\ finding = [f \in Forms |-> finding[f]]
  /\ escrowId = [f \in Forms |-> escrowId[f]]

CacheIsGood == escrows # NoData => IsListing(escrows) /\ AllWithServer(escrows)

FormIsGood(f) ==
  /\ IsListing(listed[f])
  /\ AllWithServer(listed[f])
  /\ made[f] # None => WithServer(made[f])
  /\ stage[f] = "executed" => finding[f]
  /\ stage[f] \in {"open", "clicked", "listed"} => ~finding[f]
  /\ finding[f] => Sources(listed[f]) = {}
  /\ escrowId[f] # None => finding[f] /\ WithServer(escrowId[f])

\* The inductive invariant: the cache and the forms know only escrows of the
\* server, each once.
CInv == Shapes /\ CacheIsGood /\ \A f \in Forms : FormIsGood(f)

-----------------------------------------------------------------------------
(* Lists *)

\* What the query returns is a list of escrows opened with the server.
LEMMA Listed ==
  ASSUME NEW l \in getOwnedEscrows
  PROVE  IsListing(l) /\ AllWithServer(l)
<1> DEFINE S == {e \in LiveEscrows : server_id[e] = TheServer}
           n == Cardinality(S)
<1>1. IsFiniteSet(S)
  BY EscrowAssumption, FS_Subset DEF EscrowAssumption, LiveEscrows
<1>2. n \in Nat
  BY <1>1, FS_CardinalityType
<1>3. PICK p \in [1 .. n -> S] :
        /\ \A i, j \in DOMAIN p : p[i] = p[j] => i = j
        /\ l = [i \in 1 .. n |-> Entry(p[i])]
  BY DEF getOwnedEscrows, ListingsOf
<1>4. DOMAIN l = 1 .. n /\ \A i \in 1 .. n : l[i].id = p[i]
  BY <1>3 DEF Entry
<1>5. IsListing(l)
  <2>1. CASE n = 0
    <3>1. l \in Seq({l[i] : i \in {}}) /\ Len(l) = 0
      BY <1>3, <2>1
    <3> QED
      BY <3>1, EmptySeq DEF IsListing
  <2>2. CASE n > 0
    BY <1>2, <1>3, <1>4, <2>2 DEF IsListing
  <2> QED
    BY <1>2, <2>1, <2>2
<1>6. \A i \in 1 .. n : p[i] \in S
  BY <1>3
<1>7. AllWithServer(l)
  BY <1>4, <1>6 DEF AllWithServer, WithServer, LiveEscrows
<1> QED
  BY <1>5, <1>7

\* The cap of the first escrow opens no other one, so a transaction that goes
\* through merges nothing.
LEMMA NothingMerged ==
  ASSUME NEW l, NEW n, IsListing(l), l # <<>>, DepositAndMerge(l, n)
  PROVE  Sources(l) = {}
<1>1. \A e \in Sources(l) : assert_owner_cap(e, l[1].id)
  BY DEF DepositAndMerge, ownerCap
<1>2. SUFFICES ASSUME NEW i \in DOMAIN l \ {1} PROVE FALSE
  BY DEF Sources
<1>3. l[i].id = l[1].id
  BY <1>1 DEF Sources, assert_owner_cap
<1> QED
  BY <1>3 DEF IsListing

\* The empty list has no sources.
LEMMA EmptyList == Sources(<<>>) = {} /\ IsListing(<<>>) /\ AllWithServer(<<>>)
  BY DEF Sources, IsListing, AllWithServer

-----------------------------------------------------------------------------
(* The contract *)

Stays == \A e : WithServer(e) => WithServer(e)'

ContractShapes == escrow \in [Escrows -> Existence] /\ server_id \in [Escrows -> Servers \cup {None}]

\* An escrow keeps its server, whoever calls the contract.
LEMMA CreateStays ==
  ASSUME ContractShapes, NEW s \in Servers, NEW e \in Escrows, NEW n, create(s, e, n)
  PROVE  ContractShapes' /\ Stays /\ (s = TheServer => WithServer(e)')
  BY DEF ContractShapes, create, Stays, WithServer, Existence

LEMMA MergeStays ==
  ASSUME ContractShapes, NEW l, NEW n, DepositAndMerge(l, n)
  PROVE  ContractShapes' /\ Stays
<1>1. server_id' = server_id /\ escrow' = [e \in Escrows |-> IF e \in Sources(l) THEN "deleted" ELSE escrow[e]]
  BY DEF DepositAndMerge
<1> QED
  BY <1>1 DEF ContractShapes, Stays, WithServer, Existence

LEMMA ContractStays ==
  ASSUME ContractShapes, Next
  PROVE  ContractShapes' /\ Stays
<1>1. CASE UNCHANGED <<escrow, server_id>>
  BY <1>1 DEF ContractShapes, Stays, WithServer
<1>2. CASE \E s \in Servers, e \in Escrows, n \in Amounts \cap (0 .. MAX_U64) : create(s, e, n)
  BY <1>2, CreateStays
<1>3. CASE \E cap \in Escrows, e \in Escrows : destroy_escrow(cap, e)
  BY <1>3 DEF destroy_escrow, ContractShapes, Stays, WithServer, Existence
<1>4. CASE \E cap \in Escrows, t \in Escrows, s \in Escrows : merge(cap, t, s)
  BY <1>4 DEF merge, ContractShapes, Stays, WithServer, Existence
<1>5. CASE \E s \in Servers : create_server(s) \/ deactivate_server(s) \/ destroy_server(s)
  BY <1>1, <1>5 DEF create_server, deactivate_server, destroy_server, escrowVars
<1>6. CASE \E e \in Escrows, n \in Amounts : deposit(e, n) \/ \E cap \in Escrows : withdraw(cap, e, n)
  BY <1>1, <1>6 DEF deposit, withdraw
<1>7. CASE \E s \in Servers, e \in Escrows : forced_unlock(s, e)
  BY <1>1, <1>7 DEF forced_unlock
<1>8. CASE \E s \in Servers, e \in Escrows, cap \in Servers, f \in Findings : lock_escrow(cap, s, e, f)
  BY <1>1, <1>8 DEF lock_escrow
<1>9. CASE \E s \in Servers, e \in Escrows, cap \in Servers, n \in 0 .. MAX_U64 : unlock(cap, s, e, n)
  BY <1>1, <1>9 DEF unlock
<1> QED
  BY <1>2, <1>3, <1>4, <1>5, <1>6, <1>7, <1>8, <1>9 DEF Next

-----------------------------------------------------------------------------
(* The invariant *)

LEMMA Initially == ClientInit => CInv
<1> SUFFICES ASSUME ClientInit PROVE CInv
  OBVIOUS
<1>1. Shapes
  BY DEF ClientInit, Init, Shapes, Existence
<1>2. CacheIsGood
  BY DEF ClientInit, CacheIsGood
<1>3. ASSUME NEW f \in Forms PROVE FormIsGood(f)
  <2>1. listed[f] = <<>> /\ made[f] = None /\ stage[f] = "open" /\ ~finding[f] /\ escrowId[f] = None
    BY DEF ClientInit
  <2> QED
    BY <2>1, EmptyList DEF FormIsGood
<1> QED
  BY <1>1, <1>2, <1>3 DEF CInv

\* What is known of an escrow stays known while the contract keeps its server.
LEMMA ListStays ==
  ASSUME NEW l, AllWithServer(l), Stays
  PROVE  \A i \in DOMAIN l : WithServer(l[i].id)'
  BY DEF AllWithServer, Stays

\* A form that does not move stays good.
LEMMA RestingForm ==
  ASSUME NEW f \in Forms, FormIsGood(f), Stays,
         listed'[f] = listed[f], made'[f] = made[f], finding'[f] = finding[f],
         escrowId'[f] = escrowId[f],
         \/ stage'[f] \in {stage[f], "failed"}
         \/ /\ stage[f] = "open"
            /\ stage'[f] = "clicked"
  PROVE  FormIsGood(f)'
<1>1. AllWithServer(listed[f])'
  BY ListStays DEF FormIsGood, AllWithServer
<1>2. made'[f] # None => WithServer(made[f])'
  BY DEF FormIsGood, Stays
<1>3. escrowId'[f] # None => finding'[f] /\ WithServer(escrowId[f])'
  BY DEF FormIsGood, Stays
<1>4. IsListing(listed[f])'
  BY DEF FormIsGood, IsListing
<1>5. finding'[f] => Sources(listed[f])' = {}
  BY DEF FormIsGood, Sources
<1>6. /\ stage'[f] = "executed" => finding'[f]
      /\ stage'[f] \in {"open", "clicked", "listed"} => ~finding'[f]
  BY DEF FormIsGood
<1> QED
  BY <1>1, <1>2, <1>3, <1>4, <1>5, <1>6 DEF FormIsGood

LEMMA RestingCache ==
  ASSUME CacheIsGood, Stays, escrows' = escrows
  PROVE  CacheIsGood'
<1>1. SUFFICES ASSUME escrows # NoData PROVE (IsListing(escrows) /\ AllWithServer(escrows))'
  BY DEF CacheIsGood
<1>2. IsListing(escrows) /\ AllWithServer(escrows)
  BY <1>1 DEF CacheIsGood
<1>3. \A i \in DOMAIN escrows : WithServer(escrows[i].id)'
  BY <1>2, ListStays
<1> QED
  BY <1>2, <1>3 DEF IsListing, AllWithServer

\* A step that leaves the contract alone keeps every escrow's server.
LEMMA QuietStays == UNCHANGED vars => Stays
  BY DEF vars, escrowVars, Stays, WithServer

LEMMA FetchKeeps == CInv /\ Fetch => CInv'
<1> SUFFICES ASSUME CInv, Fetch PROVE CInv'
  OBVIOUS
<1>1. Stays
  BY QuietStays DEF Fetch
<1>2. CacheIsGood'
  <2>1. IsListing(escrows') /\ AllWithServer(escrows')
    BY Listed DEF Fetch
  <2> QED
    BY <2>1 DEF CacheIsGood, Fetch, AllWithServer, IsListing, WithServer, vars, escrowVars
<1>3. ASSUME NEW f \in Forms PROVE FormIsGood(f)'
  BY <1>1, RestingForm DEF CInv, Fetch
<1>4. Shapes'
  BY DEF CInv, Shapes, Fetch, vars, escrowVars
<1> QED
  BY <1>2, <1>3, <1>4 DEF CInv

LEMMA ReloadKeeps == CInv /\ Reload => CInv'
<1> SUFFICES ASSUME CInv, Reload PROVE CInv'
  OBVIOUS
<1>1. Stays
  BY QuietStays DEF Reload
<1>2. CacheIsGood'
  BY DEF CacheIsGood, Reload
<1>3. ASSUME NEW f \in Forms PROVE FormIsGood(f)'
  <2>1. stage'[f] \in {stage[f], "failed"}
    BY DEF Reload
  <2> QED
    BY <1>1, <2>1, RestingForm DEF CInv, Reload
<1>4. Shapes'
  BY DEF CInv, Shapes, Reload, vars, escrowVars
<1> QED
  BY <1>2, <1>3, <1>4 DEF CInv

LEMMA SubmitKeeps == ASSUME NEW f \in Forms, NEW b, CInv, onSubmit(f, b) PROVE CInv'
<1>1. Stays
  BY QuietStays DEF onSubmit
<1>2. CacheIsGood'
  BY <1>1, RestingCache DEF CInv, onSubmit
<1>3. ASSUME NEW g \in Forms PROVE FormIsGood(g)'
  <2>1. CASE g # f
    <3>1. stage'[g] = stage[g]
      BY <2>1 DEF onSubmit, CInv, Shapes
    <3> QED
      BY <1>1, <3>1, RestingForm DEF CInv, onSubmit
  <2>2. CASE g = f
    <3>1. stage[g] = "open" /\ stage'[g] = "clicked"
      BY <2>2 DEF onSubmit, CInv, Shapes
    <3> QED
      BY <1>1, <3>1, RestingForm DEF CInv, onSubmit
  <2> QED
    BY <2>1, <2>2
<1>4. Shapes'
  BY DEF CInv, Shapes, onSubmit, vars, escrowVars
<1> QED
  BY <1>2, <1>3, <1>4 DEF CInv

LEMMA FailKeeps == ASSUME NEW f \in Forms, CInv, Fail(f) PROVE CInv'
<1>1. Stays
  BY QuietStays DEF Fail
<1>2. CacheIsGood'
  BY <1>1, RestingCache DEF CInv, Fail
<1>3. ASSUME NEW g \in Forms PROVE FormIsGood(g)'
  <2>1. stage'[g] \in {stage[g], "failed"}
    BY DEF Fail, CInv, Shapes
  <2> QED
    BY <1>1, <2>1, RestingForm DEF CInv, Fail
<1>4. Shapes'
  BY DEF CInv, Shapes, Fail, vars, escrowVars
<1> QED
  BY <1>2, <1>3, <1>4 DEF CInv

LEMMA GatherKeeps == ASSUME NEW f \in Forms, CInv, ensureQueryData(f) PROVE CInv'
<1>1. Stays
  BY QuietStays DEF ensureQueryData
<1>2. UNCHANGED <<escrow, server_id>>
  BY DEF ensureQueryData, vars, escrowVars
<1>3. IsListing(escrows') /\ AllWithServer(escrows')
  <2>1. CASE escrows = NoData
    BY <2>1, Listed DEF ensureQueryData
  <2>2. CASE escrows # NoData
    BY <2>2 DEF ensureQueryData, CInv, CacheIsGood
  <2> QED
    BY <2>1, <2>2
<1>4. IsListing(escrows)' /\ AllWithServer(escrows)'
  BY <1>2, <1>3 DEF IsListing, AllWithServer, WithServer
<1>5. CacheIsGood'
  BY <1>4 DEF CacheIsGood
<1>6. ASSUME NEW g \in Forms PROVE FormIsGood(g)'
  <2>1. CASE g # f
    <3>1. listed'[g] = listed[g] /\ stage'[g] = stage[g]
      BY <2>1 DEF ensureQueryData, CInv, Shapes
    <3> QED
      BY <1>1, <3>1, RestingForm DEF CInv, ensureQueryData
  <2>2. CASE g = f
    <3>1. listed'[f] = escrows' /\ stage'[f] = "listed"
      BY DEF ensureQueryData, CInv, Shapes
    <3>2. IsListing(listed[f])' /\ AllWithServer(listed[f])'
      BY <1>4, <3>1 DEF IsListing, AllWithServer
    <3>3. ~finding[f]
      BY DEF ensureQueryData, CInv, FormIsGood
    <3> QED
      BY <1>1, <2>2, <3>1, <3>2, <3>3 DEF FormIsGood, CInv, ensureQueryData, Stays
  <2> QED
    BY <2>1, <2>2
<1>7. Shapes'
  BY DEF CInv, Shapes, ensureQueryData, vars, escrowVars
<1> QED
  BY <1>5, <1>6, <1>7 DEF CInv

LEMMA PostKeeps == ASSUME NEW f \in Forms, CInv, post(f) PROVE CInv'
<1>1. Stays
  BY QuietStays DEF post
<1>2. CacheIsGood'
  BY <1>1, RestingCache DEF CInv, post
<1>3. FormIsGood(f)
  BY DEF CInv
<1>4. Named(f) # None => WithServer(Named(f))
  <2>1. CASE listed[f] = <<>>
    BY <1>3, <2>1 DEF FormIsGood, Named
  <2>2. CASE listed[f] # <<>> /\ 1 \in DOMAIN listed[f]
    BY <1>3, <2>2 DEF FormIsGood, Named, AllWithServer
  <2> QED
    BY <1>3, <2>1, <2>2 DEF FormIsGood, IsListing
<1>5. ASSUME NEW g \in Forms PROVE FormIsGood(g)'
  <2>1. CASE g # f
    <3>1. escrowId'[g] = escrowId[g] /\ stage'[g] = stage[g]
      BY <2>1 DEF post, CInv, Shapes
    <3> QED
      BY <1>1, <3>1, RestingForm DEF CInv, post
  <2>2. CASE g = f
    <3>1. escrowId'[f] = Named(f) /\ stage'[f] \in {"thrown", "posted"}
      BY DEF post, CInv, Shapes
    <3>2. escrowId'[f] # None => finding'[f] /\ WithServer(escrowId[f])'
      BY <1>1, <1>3, <1>4, <3>1 DEF Stays, post, FormIsGood
    <3>3. IsListing(listed[f])' /\ AllWithServer(listed[f])'
      BY <1>1, <1>3, ListStays DEF FormIsGood, post, IsListing, AllWithServer
    <3>4. made'[f] # None => WithServer(made[f])'
      BY <1>1, <1>3 DEF FormIsGood, post, Stays
    <3> QED
      BY <1>3, <2>2, <3>1, <3>2, <3>3, <3>4 DEF FormIsGood, post, Sources
  <2> QED
    BY <2>1, <2>2
<1>6. Shapes'
  BY DEF CInv, Shapes, post, vars, escrowVars
<1> QED
  BY <1>2, <1>5, <1>6 DEF CInv

\* What the transaction does to the escrows: it merges nothing, and what it makes
\* is with the server.
LEMMA CallsStay ==
  ASSUME NEW f \in Forms, NEW e \in Escrows \cup {None}, ContractShapes,
         IsListing(listed[f]), EscrowCalls(f, e)
  PROVE  /\ ContractShapes' /\ Stays
         /\ Sources(listed[f]) = {}
         /\ e # None => WithServer(e)'
<1>1. CASE listed[f] # <<>> /\ e = None /\ DepositAndMerge(listed[f], Topup(f))
  BY <1>1, MergeStays, NothingMerged
<1>2. CASE listed[f] = <<>> /\ e # None /\ create(TheServer, e, Topup(f))
  BY <1>2, CreateStays, EmptyList, CreateFindingAssumption DEF CreateFindingAssumption
<1>3. CASE listed[f] = <<>> /\ e = None /\ UNCHANGED vars
  BY <1>3, QuietStays, EmptyList DEF ContractShapes, vars, escrowVars
<1> QED
  BY <1>1, <1>2, <1>3 DEF EscrowCalls

LEMMA ExecKeeps ==
  ASSUME NEW f \in Forms, NEW e \in Escrows \cup {None}, CInv, execTx(f, e)
  PROVE  CInv'
<1>1. FormIsGood(f) /\ ContractShapes
  BY DEF CInv, Shapes, ContractShapes
<1>2. /\ ContractShapes' /\ Stays
      /\ Sources(listed[f]) = {}
      /\ e # None => WithServer(e)'
  BY <1>1, CallsStay DEF execTx, FormIsGood
<1>3. CacheIsGood'
  BY <1>2, RestingCache DEF CInv, execTx
<1>4. ASSUME NEW g \in Forms PROVE FormIsGood(g)'
  <2>1. CASE g # f
    <3>1. made'[g] = made[g] /\ finding'[g] = finding[g] /\ stage'[g] = stage[g]
      BY <2>1 DEF execTx, CInv, Shapes
    <3> QED
      BY <1>2, <3>1, RestingForm DEF CInv, execTx
  <2>2. CASE g = f
    <3>1. made'[f] = e /\ finding'[f]
      BY DEF execTx, CInv, Shapes
    <3>2. made'[f] # None => WithServer(made[f])'
      BY <1>2, <3>1
    <3>3. IsListing(listed[f])' /\ AllWithServer(listed[f])'
      BY <1>1, <1>2, ListStays DEF FormIsGood, execTx, IsListing, AllWithServer
    <3>4. escrowId'[f] # None => WithServer(escrowId[f])'
      BY <1>1, <1>2 DEF FormIsGood, execTx, Stays
    <3>5. Sources(listed[f])' = {}
      BY <1>2 DEF execTx, Sources
    <3>6. stage'[f] \in {"executed", "failed"}
      BY DEF execTx, CInv, Shapes
    <3> QED
      BY <2>2, <3>1, <3>2, <3>3, <3>4, <3>5, <3>6 DEF FormIsGood
  <2> QED
    BY <2>1, <2>2
<1>5. Shapes'
  BY <1>2 DEF CInv, Shapes, execTx, ContractShapes
<1> QED
  BY <1>3, <1>4, <1>5 DEF CInv

LEMMA ContractKeeps == CInv /\ Next /\ UNCHANGED cvars => CInv'
<1> SUFFICES ASSUME CInv, Next, UNCHANGED cvars PROVE CInv'
  OBVIOUS
<1>1. ContractShapes' /\ Stays
  BY ContractStays DEF CInv, Shapes, ContractShapes
<1>2. CacheIsGood'
  BY <1>1, RestingCache DEF CInv, cvars
<1>3. ASSUME NEW f \in Forms PROVE FormIsGood(f)'
  BY <1>1, RestingForm DEF CInv, cvars
<1>4. Shapes'
  BY <1>1 DEF CInv, Shapes, ContractShapes, cvars
<1> QED
  BY <1>2, <1>3, <1>4 DEF CInv

LEMMA StutterKeeps == CInv /\ UNCHANGED allVars => CInv'
<1> SUFFICES ASSUME CInv, UNCHANGED allVars PROVE CInv'
  OBVIOUS
<1>1. Stays
  BY QuietStays DEF allVars
<1>2. CacheIsGood'
  BY <1>1, RestingCache DEF CInv, allVars, cvars
<1>3. ASSUME NEW f \in Forms PROVE FormIsGood(f)'
  BY <1>1, RestingForm DEF CInv, allVars, cvars
<1>4. Shapes'
  BY DEF CInv, Shapes, allVars, cvars, vars, escrowVars
<1> QED
  BY <1>2, <1>3, <1>4 DEF CInv

\* The invariant holds in every state the client and the contract can reach.
THEOREM ClientInvariance == ClientSpec => []CInv
<1>1. CInv /\ [ClientNext]_allVars => CInv'
  <2> SUFFICES ASSUME CInv, [ClientNext]_allVars PROVE CInv'
    OBVIOUS
  <2>1. ASSUME NEW f \in Forms, FormStep(f) PROVE CInv'
    BY <2>1, SubmitKeeps, GatherKeeps, ExecKeeps, PostKeeps, FailKeeps DEF FormStep
  <2> QED
    BY <2>1, FetchKeeps, ReloadKeeps, ContractKeeps, StutterKeeps DEF ClientNext
<1> QED
  BY <1>1, Initially, PTL DEF ClientSpec

\* The escrow the server is told of was opened with this server.
THEOREM ServersOwnEscrow == ClientSpec => []EscrowIsWithServer
<1>1. CInv => EscrowIsWithServer
  BY DEF CInv, FormIsGood, EscrowIsWithServer, WithServer
<1> QED
  BY <1>1, ClientInvariance, PTL

-----------------------------------------------------------------------------
(* Who ends without an escrow to name *)

\* What is known of form f before it throws.  A form that saw no escrow asks for
\* the whole budget; without a list, an escrow is made unless nothing was asked for.
Raced(f) ==
  /\ budget[f] \in Nat
  /\ seen[f] = <<>> => topupSui[f] = budget[f]
  /\ stage[f] \in {"executed", "thrown"} =>
       listed[f] # <<>> \/ made[f] # None \/ Topup(f) = 0
  /\ stage[f] = "thrown" => finding[f] /\ listed[f] = <<>> /\ made[f] = None

FormShapes ==
  /\ topupSui = [f \in Forms |-> topupSui[f]]
  /\ budget = [f \in Forms |-> budget[f]]
  /\ seen = [f \in Forms |-> seen[f]]

RInv == FormShapes /\ \A f \in Forms : Raced(f)

\* An empty list, or none, adds up to nothing.
LEMMA EmptyTotal ==
  ASSUME NEW l, DataOr(l, <<>>) = <<>>
  PROVE  escrowsBalanceTotal(l) = 0
<1> DEFINE list == DataOr(l, <<>>)
           S == {i \in DOMAIN list : ~list[i].isLocked}
<1>1. S = {}
  OBVIOUS
<1>2. MapThenSumSet(LAMBDA i : list[i].balance, S) = 0
  <2> HIDE DEF S, list
  <2> QED
    BY <1>1 DEF MapThenSumSet, MapThenFoldSet
<1>3. escrowsBalanceTotal(l) = MapThenSumSet(LAMBDA i : list[i].balance, S)
  BY Zenon DEF escrowsBalanceTotal
<1> QED
  BY <1>2, <1>3

\* A form that does not move, or fails.
LEMMA RestingRaced ==
  ASSUME NEW f \in Forms, Raced(f),
         budget'[f] = budget[f], seen'[f] = seen[f], topupSui'[f] = topupSui[f],
         listed'[f] = listed[f], made'[f] = made[f], finding'[f] = finding[f],
         stage'[f] \in {stage[f], "failed"}
  PROVE  Raced(f)'
BY DEF Raced, Topup

LEMMA SubmitRaced ==
  ASSUME CInv, RInv, NEW g \in Forms, NEW b \in Budgets, onSubmit(g, b), NEW f \in Forms
  PROVE  Raced(f)'
<1>1. Raced(f) /\ b \in Nat
  BY CreateFindingAssumption DEF RInv
<1>2. CASE f = g
  <2>1. /\ budget'[f] = b /\ seen'[f] = DataOr(escrows, <<>>) /\ stage'[f] = "clicked"
        /\ topupSui'[f] = b - escrowsBalanceTotal(escrows)
    BY <1>2 DEF onSubmit, RInv, FormShapes, CInv, Shapes
  <2>2. seen'[f] = <<>> => topupSui'[f] = b
    BY <1>1, <2>1, EmptyTotal
  <2> QED
    BY <1>1, <2>1, <2>2 DEF Raced
<1>3. CASE f # g
  BY <1>1, <1>3, RestingRaced DEF onSubmit, RInv, FormShapes, CInv, Shapes
<1> QED
  BY <1>2, <1>3

LEMMA GatherRaced ==
  ASSUME CInv, RInv, NEW g \in Forms, ensureQueryData(g), NEW f \in Forms
  PROVE  Raced(f)'
<1>1. Raced(f)
  BY DEF RInv
<1>2. CASE f = g
  <2>1. /\ budget'[f] = budget[f] /\ seen'[f] = seen[f] /\ topupSui'[f] = topupSui[f]
        /\ stage'[f] = "listed"
    BY <1>2 DEF ensureQueryData, CInv, Shapes
  <2> QED
    BY <1>1, <2>1 DEF Raced
<1>3. CASE f # g
  BY <1>1, <1>3, RestingRaced DEF ensureQueryData, CInv, Shapes
<1> QED
  BY <1>2, <1>3

LEMMA ExecRaced ==
  ASSUME CInv, RInv, NEW g \in Forms, NEW e \in Escrows \cup {None}, execTx(g, e),
         NEW f \in Forms
  PROVE  Raced(f)'
<1>1. Raced(f)
  BY DEF RInv
<1>2. CASE f = g
  <2>1. /\ budget'[f] = budget[f] /\ seen'[f] = seen[f] /\ topupSui'[f] = topupSui[f]
        /\ listed'[f] = listed[f] /\ made'[f] = e
        /\ stage'[f] \in {"executed", "failed"}
    BY <1>2 DEF execTx, CInv, Shapes
  <2>2. listed[f] # <<>> \/ e # None \/ Topup(f) = 0
    BY <1>2 DEF execTx, EscrowCalls
  <2>3. Topup(f)' = Topup(f)
    BY <2>1 DEF Topup
  <2> QED
    BY <1>1, <2>1, <2>2, <2>3 DEF Raced
<1>3. CASE f # g
  <2>1. /\ budget'[f] = budget[f] /\ seen'[f] = seen[f] /\ topupSui'[f] = topupSui[f]
        /\ listed'[f] = listed[f] /\ made'[f] = made[f] /\ finding'[f] = finding[f]
        /\ stage'[f] = stage[f]
    BY <1>3 DEF execTx, CInv, Shapes
  <2> QED
    BY <1>1, <2>1, RestingRaced
<1> QED
  BY <1>2, <1>3

\* The one step that throws: the list is empty and the event is not there.
LEMMA PostRaced ==
  ASSUME CInv, RInv, NEW g \in Forms, post(g), NEW f \in Forms
  PROVE  Raced(f)'
<1>1. Raced(f)
  BY DEF RInv
<1>2. CASE f = g
  <2>1. /\ budget'[f] = budget[f] /\ seen'[f] = seen[f] /\ topupSui'[f] = topupSui[f]
        /\ listed'[f] = listed[f] /\ made'[f] = made[f] /\ finding'[f] = finding[f]
        /\ stage'[f] = IF Named(f) = None THEN "thrown" ELSE "posted"
        /\ stage[f] = "executed"
    BY <1>2 DEF post, CInv, Shapes
  <2>2. Topup(f)' = Topup(f)
    BY <2>1 DEF Topup
  <2>3. finding[f] /\ IsListing(listed[f]) /\ AllWithServer(listed[f])
    BY <2>1 DEF CInv, FormIsGood
  <2>4. listed[f] # <<>> => Named(f) # None
    BY <2>3, CreateFindingAssumption DEF IsListing, AllWithServer, WithServer, Named
  <2>5. Named(f) = None => listed[f] = <<>> /\ made[f] = None
    BY <2>4 DEF Named
  <2> QED
    BY <1>1, <2>1, <2>2, <2>3, <2>5 DEF Raced
<1>3. CASE f # g
  BY <1>1, <1>3, RestingRaced DEF post, CInv, Shapes
<1> QED
  BY <1>2, <1>3

LEMMA StepRaced == CInv /\ RInv /\ [ClientNext]_allVars => RInv'
<1> SUFFICES ASSUME CInv, RInv, [ClientNext]_allVars PROVE RInv'
  OBVIOUS
<1>1. FormShapes'
  <2>1. CASE UNCHANGED <<topupSui, budget, seen>>
    BY <2>1 DEF RInv, FormShapes
  <2>2. ASSUME NEW f \in Forms, NEW b \in Budgets, onSubmit(f, b) PROVE FormShapes'
    BY <2>2 DEF RInv, FormShapes, onSubmit
  <2> QED
    BY <2>1, <2>2 DEF ClientNext, FormStep, Fetch, Reload, Fail, ensureQueryData, execTx, post,
                      allVars, cvars
<1>2. ASSUME NEW f \in Forms PROVE Raced(f)'
  <2>0. Raced(f)
    BY DEF RInv
  <2>1. ASSUME NEW g \in Forms, FormStep(g) PROVE Raced(f)'
    <3>1. ASSUME Fail(g) PROVE Raced(f)'
      BY <2>0, <3>1, RestingRaced DEF Fail, CInv, Shapes
    <3> QED
      BY <2>1, <3>1, SubmitRaced, GatherRaced, ExecRaced, PostRaced DEF FormStep
  <2>2. CASE Fetch
    BY <2>0, <2>2, RestingRaced DEF Fetch
  <2>3. CASE Reload
    BY <2>0, <2>3, RestingRaced DEF Reload
  <2>4. CASE UNCHANGED cvars
    BY <2>0, <2>4, RestingRaced DEF cvars
  <2> QED
    BY <2>1, <2>2, <2>3, <2>4 DEF ClientNext, allVars
<1> QED
  BY <1>1, <1>2 DEF RInv

\* A submission that made its finding and then found no escrow to name had no
\* budget, or its list lost an escrow between the form and the transaction.
THEOREM ThrowsAreRaces == ClientSpec => []ThrownByRace
<1>1. ClientInit => RInv
  <2> SUFFICES ASSUME ClientInit PROVE RInv
    OBVIOUS
  <2>1. FormShapes
    BY DEF ClientInit, FormShapes
  <2>2. ASSUME NEW f \in Forms PROVE Raced(f)
    <3>1. budget[f] = 0 /\ topupSui[f] = 0 /\ stage[f] = "open"
      BY DEF ClientInit
    <3> QED
      BY <3>1 DEF Raced
  <2> QED
    BY <2>1, <2>2 DEF RInv
<1>2. RInv => ThrownByRace
  <2> SUFFICES ASSUME RInv, NEW f \in Forms, stage[f] = "thrown"
               PROVE  finding[f] /\ (budget[f] > 0 => seen[f] # <<>> /\ listed[f] = <<>>)
    BY DEF ThrownByRace
  <2>1. Raced(f)
    BY DEF RInv
  <2> QED
    BY <2>1 DEF Raced, Topup
<1> QED
  BY <1>1, <1>2, StepRaced, ClientInvariance, PTL DEF ClientSpec

-----------------------------------------------------------------------------
(* What the named escrow holds *)

\* The entries of a list: money that is not locked, as far as the client knows.
Plain(l) == /\ IsFiniteSet(DOMAIN l)
            /\ \A i \in DOMAIN l : ~l[i].isLocked /\ l[i].balance \in Nat

\* What a form puts in is what its list lacks of the budget.
Priced(f) ==
  /\ Plain(listed[f])
  /\ budget[f] \in Nat /\ topupSui[f] \in Int
  /\ topupSui[f] = budget[f] - escrowsBalanceTotal(seen[f])

BInv ==
  /\ FormShapes
  /\ balance \in [Escrows -> Nat]
  /\ escrows # NoData => Plain(escrows)
  /\ \A f \in Forms : Priced(f)

LEMMA PlainList ==
  ASSUME balance \in [Escrows -> Nat], NEW l \in getOwnedEscrows
  PROVE  Plain(l)
<1> DEFINE S == {e \in LiveEscrows : server_id[e] = TheServer}
           n == Cardinality(S)
<1>1. PICK p \in [1 .. n -> S] : l = [i \in 1 .. n |-> Entry(p[i])]
  BY DEF getOwnedEscrows, ListingsOf
<1>2. \A i \in 1 .. n : p[i] \in Escrows
  BY DEF LiveEscrows
<1>3. IsFiniteSet(1 .. n)
  <2>1. IsFiniteSet(S)
    BY EscrowAssumption, FS_Subset DEF LiveEscrows
  <2> QED
    BY <2>1, FS_CardinalityType, FS_Interval
<1> QED
  BY <1>1, <1>2, <1>3 DEF Plain, Entry

\* The same sum, whether no data or an empty list is shown.
LEMMA TotalOfSeen ==
  ASSUME NEW l
  PROVE  escrowsBalanceTotal(DataOr(l, <<>>)) = escrowsBalanceTotal(l)
<1>1. CASE DataOr(l, <<>>) = l
  BY <1>1
<1>2. CASE DataOr(l, <<>>) = <<>>
  <2>1. DataOr(<<>>, <<>>) = <<>>
    BY DEF DataOr
  <2>2. escrowsBalanceTotal(l) = 0 /\ escrowsBalanceTotal(<<>>) = 0
    BY <1>2, <2>1, EmptyTotal
  <2> QED
    BY <1>2, <2>2
<1> QED
  BY <1>1, <1>2 DEF DataOr

\* The sum over no escrow.
LEMMA NoSources ==
  ASSUME NEW S, S = {}
  PROVE  MapThenSumSet(LAMBDA e : balance[e], S) = 0
BY DEF MapThenSumSet, MapThenFoldSet

\* A set of natural numbers has a least one: an induction that needs no operator.
LEMMA FirstNatural ==
  ASSUME NEW T, T \subseteq Nat, T # {}
  PROVE  \E n \in T : \A m \in T : ~(m < n)
<1>1. PICK n \in T : \A m \in T : ~(<<m, n>> \in OpToRel(<, Nat))
  BY NatLessThanWellFounded, WFMin
<1>2. \A m \in T : m < n => <<m, n>> \in OpToRel(<, Nat)
  BY DEF OpToRel
<1> QED
  BY <1>1, <1>2

\* The sum of the balances of the entries in S of list l.
TotalOf(l, S) == MapThenSumSet(LAMBDA i : l[i].balance, S)

\* h adds up the balances of the entries in each set of D.  There is such an h
\* for the subsets of S with n elements at most, by induction on n.
Upto(S, n) == {s \in SUBSET S : Cardinality(s) <= n}
First(s) == CHOOSE x \in s : TRUE
AddsUp(h, l, D) ==
  h = [s \in D |-> IF s = {} THEN 0 ELSE l[First(s)].balance + h[s \ {First(s)}]]

LEMMA FoldExists ==
  ASSUME NEW S, IsFiniteSet(S), NEW l
  PROVE  \E h : AddsUp(h, l, SUBSET S) 
<1> DEFINE D(n) == Upto(S, n)
           Good(n) == \E h : AddsUp(h, l, D(n))
           Bad == {n \in Nat : ~Good(n)}
<1>f. ASSUME NEW s \in SUBSET S, s # {}
      PROVE  /\ Cardinality(s) \in Nat /\ Cardinality(s) # 0
             /\ s \ {First(s)} \in SUBSET S /\ Cardinality(s \ {First(s)}) = Cardinality(s) - 1
  <2>1. First(s) \in s
    BY <1>f DEF First
  <2>2. IsFiniteSet(s)
    BY FS_Subset
  <2> QED
    BY <1>f, <2>1, <2>2, FS_EmptySet, FS_RemoveElement, FS_CardinalityType
<1>1. Good(0)
  <2> DEFINE h == [s \in D(0) |-> 0]
  <2>1. ASSUME NEW s \in D(0), s # {} PROVE FALSE
    <3>1. s \in SUBSET S /\ Cardinality(s) <= 0
      BY DEF Upto
    <3>2. Cardinality(s) \in Nat /\ Cardinality(s) # 0
      BY <1>f, <2>1, <3>1
    <3> QED
      BY <3>1, <3>2
  <2>2. AddsUp(h, l, D(0))
    BY <2>1 DEF AddsUp
  <2> QED
    BY <2>2
<1>2. ASSUME NEW n \in Nat, Good(n) PROVE Good(n + 1)
  <2>1. PICK h : AddsUp(h, l, D(n))
    BY <1>2
  <2> DEFINE k == [s \in D(n + 1) |-> IF s = {} THEN 0 ELSE l[First(s)].balance + h[s \ {First(s)}]]
  <2>2. ASSUME NEW s \in D(n + 1), s # {}
        PROVE  s \ {First(s)} \in D(n)
    BY <1>f, <2>2 DEF Upto
  <2>3. \A s \in D(n) : s \in D(n + 1) /\ k[s] = h[s]
    <3>1. ASSUME NEW s \in D(n) PROVE s \in D(n + 1)
      <4>1. Cardinality(s) \in Nat
        BY FS_Subset, FS_CardinalityType DEF Upto
      <4> QED
        BY <4>1 DEF Upto
    <3>2. ASSUME NEW s \in D(n) PROVE k[s] = h[s]
      BY <2>1, <3>1 DEF AddsUp
    <3> QED
      BY <3>1, <3>2
  <2>4. AddsUp(k, l, D(n + 1))
    <3>1. ASSUME NEW s \in D(n + 1), s # {}
          PROVE  k[s \ {First(s)}] = h[s \ {First(s)}]
      BY <2>2, <2>3, <3>1
    <3>2. k = [s \in D(n + 1) |-> IF s = {} THEN 0 ELSE l[First(s)].balance + k[s \ {First(s)}]]
      <4> HIDE DEF k
      <4>1. k = [s \in D(n + 1) |-> IF s = {} THEN 0 ELSE l[First(s)].balance + h[s \ {First(s)}]]
        BY DEF k
      <4> QED
        BY <3>1, <4>1
    <3> QED
      BY <3>2 DEF AddsUp
  <2> HIDE DEF k
  <2> QED
    BY <2>4
<1>3. Bad = {}
  <2> SUFFICES ASSUME Bad # {} PROVE FALSE
    OBVIOUS
  <2>1. PICK n \in Bad : \A m \in Bad : ~(m < n)
    BY FirstNatural
  <2> HIDE DEF Good
  <2>2. n \in Nat /\ n # 0
    BY <1>1
  <2>3. n - 1 \in Nat /\ n - 1 \notin Bad
    BY <2>1, <2>2
  <2>4. Good((n - 1) + 1)
    BY <1>2, <2>3
  <2> QED
    BY <2>2, <2>4
<1>4. Good(Cardinality(S))
  BY <1>3, FS_CardinalityType
<1>5. D(Cardinality(S)) = SUBSET S
  BY FS_Subset DEF Upto
<1> QED
  BY <1>4, <1>5

\* What is added up of natural numbers is one: there is no least subset for which
\* it is not.
LEMMA AddedType ==
  ASSUME NEW S, IsFiniteSet(S), NEW l, \A i \in S : l[i].balance \in Nat,
         NEW h, AddsUp(h, l, SUBSET S)
  PROVE  h[S] \in Nat
<1> DEFINE Bad == {s \in SUBSET S : h[s] \notin Nat}
           Sizes == {Cardinality(s) : s \in Bad}
<1>1. SUFFICES ASSUME Bad # {} PROVE FALSE
  OBVIOUS
<1>2. Sizes \subseteq Nat /\ Sizes # {}
  BY <1>1, FS_Subset, FS_CardinalityType
<1>3. PICK s \in Bad : \A t \in Bad : ~(Cardinality(t) < Cardinality(s))
  <2>1. PICK n \in Sizes : \A m \in Sizes : ~(m < n)
    BY <1>2, FirstNatural
  <2> QED
    BY <2>1
<1>4. h[s] = IF s = {} THEN 0 ELSE l[First(s)].balance + h[s \ {First(s)}]
  BY DEF AddsUp
<1>5. s # {} /\ First(s) \in s /\ IsFiniteSet(s)
  BY <1>4, FS_Subset DEF First
<1>6. Cardinality(s \ {First(s)}) = Cardinality(s) - 1 /\ Cardinality(s) \in Nat
  BY <1>5, FS_RemoveElement, FS_CardinalityType
<1>7. h[s \ {First(s)}] \in Nat
  BY <1>3, <1>6
<1>8. l[First(s)].balance \in Nat
  BY <1>5
<1> QED
  BY <1>4, <1>5, <1>7, <1>8

\* The fold of the community modules is such an h, since there is one.
LEMMA TotalAddsUp ==
  ASSUME NEW l, NEW S, IsFiniteSet(S)
  PROVE  \E h : AddsUp(h, l, SUBSET S) /\ TotalOf(l, S) = h[S]
<1> DEFINE F(h) == [s \in SUBSET S |->
             IF s = {} THEN 0
             ELSE l[CHOOSE x \in s : TRUE].balance + h[s \ {CHOOSE x \in s : TRUE}]]
           sum == CHOOSE h : h = F(h)
<1>1. TotalOf(l, S) = sum[S]
  BY Zenon DEF TotalOf, MapThenSumSet, MapThenFoldSet
<1>2. PICK h : AddsUp(h, l, SUBSET S)
  BY FoldExists
<1>3. \A k : AddsUp(k, l, SUBSET S) <=> k = F(k)
  BY DEF AddsUp, First
<1>4. sum = F(sum)
  <2> HIDE DEF F
  <2> QED
    BY <1>2, <1>3
<1> QED
  <2> HIDE DEF sum, F
  <2> QED
    BY <1>1, <1>3, <1>4

\* The sum over one entry of a list.
LEMMA OneEntry ==
  ASSUME NEW l, NEW S, S = {1}, l[1].balance \in Nat
  PROVE  TotalOf(l, S) = l[1].balance
<1>1. IsFiniteSet(S)
  BY FS_Singleton
<1>2. PICK h : AddsUp(h, l, SUBSET S) /\ TotalOf(l, S) = h[S]
  BY <1>1, TotalAddsUp
<1>3. First(S) = 1 /\ S \ {First(S)} = {}
  BY DEF First
<1>4. h[{}] = 0 /\ h[S] = l[1].balance + h[{}]
  BY <1>2, <1>3 DEF AddsUp
<1> QED
  BY <1>2, <1>4

\* A list of plain entries adds up to a natural number.
LEMMA TotalIsNat ==
  ASSUME NEW l, Plain(l)
  PROVE  escrowsBalanceTotal(l) \in Nat
<1> DEFINE list == DataOr(l, <<>>)
           S == {i \in DOMAIN list : ~list[i].isLocked}
<1>1. CASE list = <<>>
  BY <1>1, EmptyTotal
<1>2. CASE list = l
  <2>1. IsFiniteSet(S) /\ \A i \in S : list[i].balance \in Nat
    BY <1>2, FS_Subset DEF Plain
  <2>2. TotalOf(list, S) \in Nat
    <3> HIDE DEF list, S
    <3>1. PICK h : AddsUp(h, list, SUBSET S) /\ TotalOf(list, S) = h[S]
      BY <2>1, TotalAddsUp
    <3> QED
      BY <2>1, <3>1, AddedType
  <2>3. escrowsBalanceTotal(l) = TotalOf(list, S)
    BY Zenon DEF escrowsBalanceTotal, TotalOf
  <2> QED
    BY <2>2, <2>3
<1> QED
  BY <1>1, <1>2 DEF DataOr

\* A list of one escrow adds up to what that one has, and to nothing if the list
\* counts as no data.
LEMMA SingleTotal ==
  ASSUME NEW l, IsListing(l), Plain(l), l # <<>>, Sources(l) = {}
  PROVE  escrowsBalanceTotal(l) \in {0, l[1].balance} /\ l[1].balance \in Nat
<1> DEFINE list == DataOr(l, <<>>)
           S == {i \in DOMAIN list : ~list[i].isLocked}
<1>1. 1 \in DOMAIN l /\ DOMAIN l = {1}
  BY DEF IsListing, Sources
<1>2. ~l[1].isLocked /\ l[1].balance \in Nat
  BY <1>1 DEF Plain
<1>3. CASE list = <<>>
  BY <1>2, <1>3, EmptyTotal
<1>4. CASE list = l
  <2>1. S = {1}
    BY <1>1, <1>2, <1>4
  <2>2. list[1].balance \in Nat /\ list[1].balance = l[1].balance
    BY <1>2, <1>4
  <2>3. TotalOf(list, S) = list[1].balance
    <3> HIDE DEF list, S
    <3> QED
      BY <2>1, <2>2, OneEntry
  <2>4. escrowsBalanceTotal(l) = TotalOf(list, S)
    BY Zenon DEF escrowsBalanceTotal, TotalOf
  <2> QED
    BY <1>2, <2>2, <2>3, <2>4
<1> QED
  BY <1>3, <1>4 DEF DataOr

\* Balances are natural numbers, whoever calls the contract.
LEMMA CallsBalance ==
  ASSUME balance \in [Escrows -> Nat], Next
  PROVE  balance' \in [Escrows -> Nat]
<1>1. CASE UNCHANGED balance
  BY <1>1
<1>2. ASSUME NEW s \in Servers, NEW e \in Escrows, NEW n \in 0 .. MAX_U64, create(s, e, n)
      PROVE  balance' \in [Escrows -> Nat]
  <2>1. n \in Nat /\ balance' = [balance EXCEPT ![e] = n]
    BY <1>2, EscrowAssumption DEF create
  <2> QED
    BY <2>1
<1>3. ASSUME NEW e \in Escrows, NEW n \in Amounts, deposit(e, n)
      PROVE  balance' \in [Escrows -> Nat]
  BY <1>3, EscrowAssumption DEF deposit, Amounts
<1>4. ASSUME NEW cap \in Escrows, NEW e \in Escrows, NEW n \in Amounts, withdraw(cap, e, n)
      PROVE  balance' \in [Escrows -> Nat]
  BY <1>4, EscrowAssumption DEF withdraw, Amounts
<1>5. ASSUME NEW cap \in Escrows, NEW e \in Escrows, destroy_escrow(cap, e)
      PROVE  balance' \in [Escrows -> Nat]
  BY <1>5 DEF destroy_escrow
<1>6. ASSUME NEW cap \in Escrows, NEW t \in Escrows, NEW s \in Escrows, merge(cap, t, s)
      PROVE  balance' \in [Escrows -> Nat]
  <2>1. balance[t] + balance[s] \in Nat
    OBVIOUS
  <2> QED
    BY <1>6, <2>1 DEF merge
<1>7. ASSUME NEW cap \in Servers, NEW s \in Servers, NEW e \in Escrows, NEW n \in 0 .. MAX_U64,
             unlock(cap, s, e, n)
      PROVE  balance' \in [Escrows -> Nat]
  BY <1>7, EscrowAssumption DEF unlock
<1>8. CASE \E s \in Servers : create_server(s) \/ deactivate_server(s) \/ destroy_server(s)
  BY <1>8 DEF create_server, deactivate_server, destroy_server, escrowVars
<1>9. ASSUME NEW s \in Servers, NEW e \in Escrows,
             forced_unlock(s, e) \/ \E cap \in Servers, f \in Findings : lock_escrow(cap, s, e, f)
      PROVE  balance' \in [Escrows -> Nat]
  BY <1>9 DEF forced_unlock, lock_escrow
<1> QED
  BY <1>2, <1>3, <1>4, <1>5, <1>6, <1>7, <1>8, <1>9 DEF Next

\* What the transaction of a form leaves in the escrow it names; nothing is merged.
LEMMA ExecBalance ==
  ASSUME CInv, BInv, NEW f \in Forms, NEW e \in Escrows \cup {None}, execTx(f, e)
  PROVE  /\ balance' \in [Escrows -> Nat]
         /\ listed[f] # <<>> =>
              /\ listed[f][1].id \in Escrows
              /\ balance'[listed[f][1].id] = balance[listed[f][1].id] + Topup(f)
         /\ listed[f] = <<>> /\ Topup(f) > 0 => e \in Escrows /\ balance'[e] = Topup(f)
<1> DEFINE l == listed[f]
<1>1. IsListing(l) /\ AllWithServer(l) /\ EscrowCalls(f, e)
  BY DEF CInv, FormIsGood, execTx
<1>2. balance \in [Escrows -> Nat] /\ Topup(f) \in Nat
  <2>1. topupSui[f] \in Int
    BY DEF BInv, Priced
  <2> QED
    BY <2>1 DEF BInv, Topup
<1>3. CASE l # <<>>
  <2>1. DepositAndMerge(l, Topup(f))
    BY <1>1, <1>3 DEF EscrowCalls
  <2>2. Sources(l) = {}
    BY <1>1, <1>3, <2>1, NothingMerged
  <2>3. l[1].id \in Escrows
    BY <1>1, <1>3 DEF IsListing, AllWithServer, WithServer
  <2>4. MapThenSumSet(LAMBDA d : balance[d], Sources(l)) = 0
    BY <2>2, NoSources
  <2>5. balance' = [d \in Escrows |->
          IF d \in Sources(l) THEN 0
          ELSE IF d = l[1].id
          THEN balance[d] + (Topup(f) + MapThenSumSet(LAMBDA x : balance[x], Sources(l)))
          ELSE balance[d]]
    BY <2>1 DEF DepositAndMerge
  <2>6. balance' = [d \in Escrows |-> IF d = l[1].id THEN balance[d] + (Topup(f) + 0) ELSE balance[d]]
    <3> HIDE DEF l
    <3> QED
      BY <2>2, <2>4, <2>5
  <2>7. /\ balance' \in [Escrows -> Nat]
        /\ balance'[l[1].id] = balance[l[1].id] + Topup(f)
    <3> HIDE DEF l
    <3> QED
      BY <1>2, <2>3, <2>6
  <2> QED
    BY <1>3, <2>3, <2>7
<1>4. CASE l = <<>>
  <2>1. CASE Topup(f) > 0
    <3>1. e \in Escrows /\ balance' = [balance EXCEPT ![e] = Topup(f)]
      BY <1>1, <1>4, <2>1 DEF EscrowCalls, create
    <3> QED
      BY <1>2, <1>4, <3>1
  <2>2. CASE ~(Topup(f) > 0)
    <3>1. balance' = balance
      BY <1>1, <1>2, <1>4, <2>2 DEF EscrowCalls, vars, escrowVars
    <3> QED
      BY <1>2, <1>4, <2>2, <3>1
  <2> QED
    BY <2>1, <2>2
<1> QED
  BY <1>3, <1>4

LEMMA RestingPriced ==
  ASSUME NEW f \in Forms, Priced(f), listed'[f] = listed[f], budget'[f] = budget[f],
         seen'[f] = seen[f], topupSui'[f] = topupSui[f]
  PROVE  Priced(f)'
<1>1. escrowsBalanceTotal(seen[f])' = escrowsBalanceTotal(seen'[f])
  OBVIOUS
<1> QED
  BY <1>1 DEF Priced, Plain

LEMMA PricedCalls ==
  ASSUME CInv, BInv, NEW g \in Forms, FormStep(g), NEW f \in Forms
  PROVE  Priced(f)'
<1>0. Priced(f)
  BY DEF BInv
<1>1. ASSUME listed'[f] = listed[f], budget'[f] = budget[f], seen'[f] = seen[f],
             topupSui'[f] = topupSui[f]
      PROVE  Priced(f)'
  BY <1>0, <1>1, RestingPriced
<1>2. ASSUME NEW b \in Budgets, onSubmit(g, b) PROVE Priced(f)'
  <2>1. CASE f = g
    <3>1. /\ budget'[f] = b /\ seen'[f] = DataOr(escrows, <<>>) /\ listed'[f] = listed[f]
          /\ topupSui'[f] = b - escrowsBalanceTotal(escrows)
      BY <1>2, <2>1 DEF onSubmit, BInv, FormShapes, CInv, Shapes
    <3>2. escrowsBalanceTotal(escrows) = escrowsBalanceTotal(seen'[f])
      BY <3>1, TotalOfSeen
    <3>3. escrowsBalanceTotal(escrows) \in Nat
      <4>1. CASE escrows = NoData
        <5>1. DataOr(escrows, <<>>) = <<>>
          BY <4>1 DEF DataOr
        <5> QED
          BY <5>1, EmptyTotal
      <4>2. CASE escrows # NoData
        BY <4>2, TotalIsNat DEF BInv
      <4> QED
        BY <4>1, <4>2
    <3>4. b \in Nat
      BY CreateFindingAssumption
    <3>5. escrowsBalanceTotal(seen[f])' = escrowsBalanceTotal(seen'[f])
      OBVIOUS
    <3> QED
      BY <1>0, <3>1, <3>2, <3>3, <3>4, <3>5 DEF Priced, Plain
  <2>2. CASE f # g
    BY <1>1, <1>2, <2>2 DEF onSubmit, BInv, FormShapes
  <2> QED
    BY <2>1, <2>2
<1>3. ASSUME ensureQueryData(g) PROVE Priced(f)'
  <2>1. CASE f = g
    <3>1. /\ budget'[f] = budget[f] /\ seen'[f] = seen[f] /\ topupSui'[f] = topupSui[f]
          /\ listed'[f] = escrows'
      BY <1>3, <2>1 DEF ensureQueryData, CInv, Shapes
    <3>2. Plain(escrows')
      BY <1>3, PlainList DEF ensureQueryData, BInv
    <3> QED
      BY <1>0, <3>1, <3>2 DEF Priced, Plain
  <2>2. CASE f # g
    BY <1>1, <1>3, <2>2 DEF ensureQueryData, CInv, Shapes
  <2> QED
    BY <2>1, <2>2
<1>4. ASSUME NEW e \in Escrows \cup {None}, execTx(g, e) PROVE Priced(f)'
  BY <1>1, <1>4 DEF execTx
<1>5. CASE post(g)
  BY <1>1, <1>5 DEF post
<1>6. CASE Fail(g)
  BY <1>1, <1>6 DEF Fail
<1> QED
  BY <1>2, <1>3, <1>4, <1>5, <1>6 DEF FormStep

LEMMA PlainCache == ASSUME CInv, BInv, ClientNext PROVE (escrows # NoData => Plain(escrows))'
<1>1. CASE escrows' = escrows
  BY <1>1 DEF BInv, Plain
<1>2. CASE escrows' \in getOwnedEscrows
  <2>1. Plain(escrows')
    BY <1>2, PlainList DEF BInv
  <2> QED
    BY <2>1 DEF Plain
<1>3. CASE escrows' = NoData
  BY <1>3
<1>4. \/ escrows' = escrows \/ escrows' \in getOwnedEscrows \/ escrows' = NoData
  BY DEF ClientNext, FormStep, Fetch, Reload, onSubmit, ensureQueryData, execTx, post, Fail, cvars
<1> QED
  BY <1>1, <1>2, <1>3, <1>4

LEMMA InitiallyPriced == ClientInit => BInv
<1> SUFFICES ASSUME ClientInit PROVE BInv
  OBVIOUS
<1>1. FormShapes /\ balance \in [Escrows -> Nat] /\ escrows = NoData
  BY DEF ClientInit, FormShapes, Init
<1>2. ASSUME NEW f \in Forms PROVE Priced(f)
  <2>1. budget[f] = 0 /\ topupSui[f] = 0 /\ listed[f] = <<>> /\ seen[f] = <<>>
    BY DEF ClientInit
  <2>2. escrowsBalanceTotal(<<>>) = 0
    BY EmptyTotal DEF DataOr
  <2>3. Plain(<<>>)
    BY FS_EmptySet DEF Plain
  <2> QED
    BY <2>1, <2>2, <2>3 DEF Priced
<1> QED
  BY <1>1, <1>2 DEF BInv

LEMMA StepPriced == ASSUME CInv, BInv, [ClientNext]_allVars PROVE BInv'
<1>1. CASE UNCHANGED allVars
  <2>1. ASSUME NEW f \in Forms PROVE Priced(f)'
    BY <1>1, RestingPriced DEF BInv, allVars, cvars
  <2> QED
    BY <1>1, <2>1 DEF BInv, FormShapes, Plain, allVars, vars, escrowVars, cvars
<1>2. CASE ClientNext
  <2>1. FormShapes'
    <3>1. CASE UNCHANGED <<topupSui, budget, seen>>
      BY <3>1 DEF BInv, FormShapes
    <3>2. ASSUME NEW f \in Forms, NEW b \in Budgets, onSubmit(f, b) PROVE FormShapes'
      BY <3>2 DEF BInv, FormShapes, onSubmit
    <3> QED
      BY <1>2, <3>1, <3>2 DEF ClientNext, FormStep, Fetch, Reload, Fail, ensureQueryData, execTx,
                              post, cvars
  <2>2. balance' \in [Escrows -> Nat]
    <3>1. CASE UNCHANGED vars
      BY <3>1 DEF BInv, vars, escrowVars
    <3>2. ASSUME NEW f \in Forms, NEW e \in Escrows \cup {None}, execTx(f, e)
          PROVE  balance' \in [Escrows -> Nat]
      BY <3>2, ExecBalance
    <3>3. CASE Next
      BY <3>3, CallsBalance DEF BInv
    <3> QED
      BY <1>2, <3>1, <3>2, <3>3 DEF ClientNext, FormStep, Fetch, Reload, Fail, ensureQueryData,
                                    onSubmit, post
  <2>3. ASSUME NEW f \in Forms PROVE Priced(f)'
    <3>1. CASE \E g \in Forms : FormStep(g)
      BY <3>1, PricedCalls
    <3>2. CASE Fetch \/ Reload \/ UNCHANGED cvars
      <4>1. UNCHANGED <<listed, budget, seen, topupSui>>
        BY <3>2 DEF Fetch, Reload, cvars
      <4> QED
        BY <4>1, RestingPriced DEF BInv
    <3> QED
      BY <1>2, <3>1, <3>2 DEF ClientNext
  <2> QED
    BY <1>2, <2>1, <2>2, <2>3, PlainCache DEF BInv
<1> QED
  BY <1>1, <1>2

\* The conclusion of BudgetIsThere, for a form whose transaction is executed.
LEMMA BudgetInEscrow ==
  ASSUME CInv, BInv, NEW f \in Forms, NEW e \in Escrows \cup {None}, execTx(f, e),
         listed[f] = seen[f], budget[f] > 0,
         \A i \in DOMAIN listed[f] : balance[listed[f][i].id] >= listed[f][i].balance
  PROVE  Named(f)' # None /\ balance'[Named(f)'] >= budget[f]
<1> DEFINE l == listed[f]
<1>1. /\ IsListing(l) /\ AllWithServer(l) /\ Plain(l)
      /\ budget[f] \in Nat /\ topupSui[f] \in Int
      /\ topupSui[f] = budget[f] - escrowsBalanceTotal(l)
      /\ balance \in [Escrows -> Nat]
  BY DEF CInv, FormIsGood, BInv, Priced
<1>2. listed'[f] = l /\ made'[f] = e
  BY DEF execTx, CInv, Shapes
<1>3. CASE l # <<>>
  <2>1. DepositAndMerge(l, Topup(f))
    BY <1>3 DEF execTx, EscrowCalls
  <2>2. Sources(l) = {}
    BY <1>1, <1>3, <2>1, NothingMerged
  <2>3. escrowsBalanceTotal(l) \in {0, l[1].balance} /\ l[1].balance \in Nat
    BY <1>1, <1>3, <2>2, SingleTotal
  <2>4. l[1].id \in Escrows /\ balance[l[1].id] >= l[1].balance /\ balance[l[1].id] \in Nat
    BY <1>1, <1>3 DEF IsListing, AllWithServer, WithServer
  <2>5. balance'[l[1].id] = balance[l[1].id] + Topup(f)
    BY <1>3, ExecBalance
  <2>6. Named(f)' = l[1].id
    BY <1>2, <1>3 DEF Named
  <2>7. Topup(f) \in Nat /\ Topup(f) >= topupSui[f]
    BY <1>1 DEF Topup
  <2>8. balance'[l[1].id] >= budget[f]
    <3> HIDE DEF l
    <3> QED
      BY <1>1, <2>3, <2>4, <2>5, <2>7
  <2> QED
    BY <2>4, <2>6, <2>8, CreateFindingAssumption
<1>4. CASE l = <<>>
  <2>1. escrowsBalanceTotal(l) = 0
    BY <1>4, EmptyTotal DEF DataOr
  <2>2. Topup(f) = budget[f]
    BY <1>1, <2>1 DEF Topup
  <2>3. e \in Escrows /\ balance'[e] = budget[f]
    BY <1>4, <2>2, ExecBalance
  <2>4. Named(f)' = e
    BY <1>2, <1>4 DEF Named
  <2> QED
    BY <1>1, <2>3, <2>4, CreateFindingAssumption
<1> QED
  BY <1>3, <1>4

\* The escrow that is named holds the budget that was entered when the finding is
\* made, unless the list changed after the form was sent off or money left the
\* escrow after the list was fetched.
THEOREM BudgetIsPutThere == ClientSpec => BudgetIsThere
<1> DEFINE Kept == \A f \in Forms :
       (/\ finding'[f] /\ ~finding[f]
        /\ listed[f] = seen[f]
        /\ \A i \in DOMAIN listed[f] : balance[listed[f][i].id] >= listed[f][i].balance
        /\ budget[f] > 0)
       => Named(f)' # None /\ balance'[Named(f)'] >= budget[f]
<1>1. ClientInit => BInv
  BY InitiallyPriced
<1>2. CInv /\ BInv /\ [ClientNext]_allVars => BInv'
  BY StepPriced
<1>3. CInv /\ BInv /\ [ClientNext]_allVars => [Kept]_allVars
  <2> SUFFICES ASSUME CInv, BInv, ClientNext PROVE Kept
    OBVIOUS
  <2>1. ASSUME NEW f \in Forms, finding'[f], ~finding[f]
        PROVE  \E e \in Escrows \cup {None} : execTx(f, e)
    <3>1. PICK g \in Forms, e \in Escrows \cup {None} : execTx(g, e)
      BY <2>1 DEF ClientNext, FormStep, Fetch, Reload, Fail, ensureQueryData, onSubmit, post, cvars
    <3>2. g = f
      BY <2>1, <3>1 DEF execTx, CInv, Shapes
    <3> QED
      BY <3>1, <3>2
  <2> QED
    BY <2>1, BudgetInEscrow
<1> QED
  BY <1>1, <1>2, <1>3, ClientInvariance, PTL DEF ClientSpec, BudgetIsThere

-----------------------------------------------------------------------------
(* The client uses the contract, and does no more *)

\* A transaction that merges nothing is a deposit into the first escrow.
LEMMA TopupIsDeposit ==
  ASSUME IInv, NEW l, NEW n \in Nat, IsListing(l), AllWithServer(l), l # <<>>,
         Ids(l) \subseteq LiveEscrows, DepositAndMerge(l, n)
  PROVE  Next
<1> DEFINE e == l[1].id
<1>1. Sources(l) = {}
  BY NothingMerged
<1>2. e \in LiveEscrows /\ e \in Escrows
  BY DEF IsListing, Ids, LiveEscrows
<1>3. MapThenSumSet(LAMBDA d : balance[d], Sources(l)) = 0
  BY <1>1, NoSources
<1> DEFINE added == n + MapThenSumSet(LAMBDA d : balance[d], Sources(l))
<1>4. added = n
  BY <1>3
<1>5. /\ balance[e] + added <= MAX_U64
      /\ deposited[e] + added <= MaxDeposited
      /\ escrow' = [d \in Escrows |-> IF d \in Sources(l) THEN "deleted" ELSE escrow[d]]
      /\ balance' = [d \in Escrows |-> IF d \in Sources(l) THEN 0
                                       ELSE IF d = e THEN balance[d] + added ELSE balance[d]]
      /\ deposited' = [deposited EXCEPT ![e] = @ + added]
      /\ withdrawn' = [d \in Escrows |-> IF d \in Sources(l) THEN withdrawn[d] + balance[d]
                                         ELSE withdrawn[d]]
      /\ UNCHANGED <<serverVars, server_id, locked_for_finding, taken, pledge, unlocks>>
  BY DEF DepositAndMerge
<1> HIDE DEF e, added
<1>6. TypeOK
  BY DEF IInv
<1>7. UNCHANGED <<escrow, withdrawn>> /\ balance' = [balance EXCEPT ![e] = @ + n]
  BY <1>1, <1>2, <1>4, <1>5, <1>6 DEF TypeOK
<1>8. n \in Amounts
  <2>1. deposited[e] \in Nat
    BY <1>2, <1>6 DEF TypeOK
  <2> QED
    BY <1>4, <1>5, <2>1, EscrowAssumption DEF Amounts
<1>9. deposit(e, n)
  BY <1>2, <1>4, <1>5, <1>7 DEF deposit
<1> QED
  BY <1>2, <1>8, <1>9 DEF Next

LEMMA ExecIsCall ==
  ASSUME IInv, CInv, BInv, NEW f \in Forms, NEW e \in Escrows \cup {None}, execTx(f, e)
  PROVE  [Next]_vars
<1>1. IsListing(listed[f]) /\ AllWithServer(listed[f]) /\ EscrowCalls(f, e)
  BY DEF CInv, FormIsGood, execTx
<1>2. Topup(f) \in Nat
  BY DEF BInv, Priced, Topup
<1>3. CASE listed[f] # <<>> /\ DepositAndMerge(listed[f], Topup(f))
  BY <1>1, <1>2, <1>3, TopupIsDeposit DEF EscrowCalls
<1>4. CASE e # None /\ create(TheServer, e, Topup(f)) /\ Topup(f) \in Amounts \cap (0 .. MAX_U64)
  BY <1>4, CreateFindingAssumption DEF Next
<1>5. CASE UNCHANGED vars
  BY <1>5
<1> QED
  BY <1>1, <1>3, <1>4, <1>5 DEF EscrowCalls

LEMMA ClientStepIsCall ==
  ASSUME IInv, CInv, BInv, [ClientNext]_allVars
  PROVE  [Next]_vars
<1>1. CASE UNCHANGED vars
  BY <1>1
<1>2. ASSUME NEW f \in Forms, NEW e \in Escrows \cup {None}, execTx(f, e) PROVE [Next]_vars
  BY <1>2, ExecIsCall
<1>3. CASE Next
  BY <1>3
<1> QED
  BY <1>1, <1>2, <1>3 DEF ClientNext, FormStep, Fetch, Reload, Fail, ensureQueryData, onSubmit, post,
                          allVars

\* Every transaction of createFinding.ts that succeeds is at most one call of the
\* contract, for any list of any age: the merges it is built with never happen.
THEOREM ClientCallsContract == ClientSpec => Spec
<1>1. ClientInit => Init /\ IInv /\ CInv /\ BInv
  BY InitInvariant, Initially, InitiallyPriced DEF ClientInit
<1>2. IInv /\ CInv /\ BInv /\ [ClientNext]_allVars => [Next]_vars
  BY ClientStepIsCall
<1>3. IInv /\ [Next]_vars => IInv'
  BY StepInvariant
<1>4. CInv /\ BInv /\ [ClientNext]_allVars => BInv'
  BY StepPriced
<1> QED
  BY <1>1, <1>2, <1>3, <1>4, ClientInvariance, PTL DEF ClientSpec, Spec

\* So what the contract promises holds while clients submit: held money is not
\* theirs to take, no coin is lost or made, and the counter drifts no further than
\* by unlocking calls.
THEOREM PromisesUnderClient ==
  ClientSpec => ImplementsCustody /\ [](CountDrift /\ PledgeKept /\ FundsConserved)
<1> QED
  BY ClientCallsContract, Refinement, CounterDrifts, PledgesAreKept, Conservation, PTL
=============================================================================
