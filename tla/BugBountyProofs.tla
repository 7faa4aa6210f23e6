-------------------------- MODULE BugBountyProofs --------------------------
(***************************************************************************)
(* Proofs about the pages of the bug bounties: what the status of the      *)
(* connection and the user of the page mean, for any number of wallets and *)
(* accounts and every order of the wallets' answers, that the cached lists *)
(* have the bounties that the page made, that these are approved when they *)
(* should be, and that the state of the pages is well typed.               *)
(***************************************************************************)
EXTENDS BugBounty, FiniteSetTheorems, TLAPS

-----------------------------------------------------------------------------
(* The session *)

\* No step of the pages changes the session but the steps of the controller.
LEMMA PageStep ==
  ASSUME [PageNext]_allVars
  PROVE  WalletNext \/ UNCHANGED session
<1>1. CASE Session /\ UNCHANGED bountyVars
  BY <1>1 DEF WalletNext
<1>2. CASE Reloaded
  BY <1>2 DEF Reloaded, WalletNext
<1>3. CASE Others
  BY <1>3 DEF Others
<1>4. CASE \E k \in Keys : FetchIds(k) \/ LandIds(k) \/ FetchFails(k)
  BY <1>4 DEF FetchIds, LandIds, FetchFails, walletVars
<1>5. CASE FetchPackages
  BY <1>5 DEF FetchPackages
<1>6. CASE \E p \in Packages : onSubmit(p)
  BY <1>6 DEF onSubmit
<1>7. CASE \E job \in jobs : JobSteps(job)
  BY <1>7 DEF JobSteps, Sign, Decline, Execute, Abort, WaitFails, onSuccess, Timer, walletVars
<1>8. CASE UNCHANGED allVars
  BY <1>8 DEF allVars, walletVars
<1> QED BY <1>1, <1>2, <1>3, <1>4, <1>5, <1>6, <1>7, <1>8 DEF PageNext

CallsType == calls \in [Wallets -> [CallKinds -> Nat]]

\* Without a wallet there is nobody to wait for.
NoWallet == wallet = None => status = "not-connected" /\ NoCalls

Typed == wallet \in Wallets \cup {None} /\ CallsType /\ NoWallet

LEMMA OneMoreType ==
  ASSUME NEW cs \in [Wallets -> [CallKinds -> Nat]], NEW w \in Wallets, NEW k \in CallKinds
  PROVE  OneMore(cs, w, k) \in [Wallets -> [CallKinds -> Nat]]
BY DEF OneMore

LEMMA OneLessType ==
  ASSUME CallsType, NEW w \in Wallets, NEW k \in CallKinds, Asked(w, k)
  PROVE  OneLess(calls, w, k) \in [Wallets -> [CallKinds -> Nat]]
BY DEF OneLess, CallsType, Asked

LEMMA BecomeType ==
  ASSUME NEW cs \in [Wallets -> [CallKinds -> Nat]], NEW s, NEW w \in Wallets \cup {None},
         Become(s, w, cs)
  PROVE  calls' \in [Wallets -> [CallKinds -> Nat]]
BY OneMoreType DEF Become, CallKinds

\* The page is opened with the one call that the connect effect makes.
LEMMA CallsInit ==
  ASSUME PageInit
  PROVE  /\ CallsType
         /\ \A w \in Wallets, k \in CallKinds :
              calls[w][k] = IF w = wallet /\ k = "connect" THEN 1 ELSE 0
BY DEF PageInit, WalletInit, CallsType

LEMMA TypedInit == PageInit => Typed
<1> SUFFICES ASSUME PageInit PROVE Typed
  OBVIOUS
<1>0. None \notin Wallets
  BY WalletAssumption
<1>1. wallet = None => NoCalls
  BY <1>0, CallsInit DEF NoCalls, Asked
<1> QED BY <1>1, CallsInit DEF PageInit, WalletInit, Typed, NoWallet

\* A call is under way only when a wallet is selected.
LEMMA AskedWallet ==
  ASSUME Typed, NEW w \in Wallets, NEW k \in CallKinds, Asked(w, k)
  PROVE  wallet \in Wallets
BY DEF Typed, NoWallet, NoCalls

LEMMA TypedStep ==
  ASSUME Typed, WalletNext
  PROVE  Typed'
<1>0. None \notin Wallets
  BY WalletAssumption
<1>1. ASSUME NEW w \in Wallets, SelectWallet(w) PROVE Typed'
  <2>1. CallsType'
    BY <1>1, OneMoreType, BecomeType DEF SelectWallet, Typed, CallsType, CallKinds
  <2> QED BY <1>0, <1>1, <2>1 DEF SelectWallet, Typed, NoWallet
<1>2. ASSUME NEW w \in Wallets, Answers(w) PROVE Typed'
  <2>1. PICK k \in CallKinds : Asked(w, k) /\ \E s : Become(s, wallet, OneLess(calls, w, k))
    BY <1>2 DEF Answers, Connected, Refused, Disconnected, CallKinds
  <2>2. wallet \in Wallets
    BY <2>1, AskedWallet
  <2>3. CallsType'
    BY <2>1, <2>2, OneLessType, BecomeType DEF CallsType, Typed
  <2>4. wallet' = wallet
    BY <1>2 DEF Answers, Connected, Refused, Disconnected
  <2> QED BY <1>0, <2>2, <2>3, <2>4 DEF Typed, NoWallet
<1>3. ASSUME NEW w \in Wallets, onChange(w) PROVE Typed'
  BY <1>3 DEF onChange, Typed, CallsType, NoWallet, NoCalls, Asked
<1>4. ASSUME NEW w \in Wallets, NEW A \in SUBSET Accounts, ChangeAccounts(w, A) PROVE Typed'
  BY <1>4 DEF ChangeAccounts, page, Typed, CallsType, NoWallet, NoCalls, Asked
<1>5. CASE connect
  <2>1. CallsType'
    BY <1>5, OneMoreType, BecomeType DEF connect, Typed, CallsType, CallKinds
  <2> QED BY <1>5, <2>1 DEF connect, Typed, NoWallet
<1>6. CASE disconnect
  <2>1. CallsType'
    BY <1>6, OneMoreType, BecomeType DEF disconnect, Typed, CallsType, CallKinds
  <2> QED BY <1>6, <2>1 DEF disconnect, Typed, NoWallet
<1>7. CASE Reload
  <2> DEFINE none == [v \in Wallets |-> [k \in CallKinds |-> 0]]
  <2>1. PICK w \in {wallet, None}, u \in Accounts \cup {None} : Opened(w, u)
    BY <1>7 DEF Reload
  <2>2. wallet' = w /\ w \in Wallets \cup {None} /\ Become("not-connected", w, none)
    BY <2>1 DEF Opened, Typed
  <2>3. none \in [Wallets -> [CallKinds -> Nat]]
    OBVIOUS
  <2>4. CallsType'
    BY <2>2, <2>3, BecomeType DEF CallsType
  <2>5. NoWallet'
    BY <2>2, <1>0 DEF NoWallet, Become, NoCalls, Asked
  <2> QED BY <2>2, <2>4, <2>5 DEF Typed
<1>8. CASE Navigate
  BY <1>8 DEF Navigate, Typed, CallsType, NoWallet, NoCalls, Asked
<1> QED BY <1>1, <1>2, <1>3, <1>4, <1>5, <1>6, <1>7, <1>8 DEF WalletNext, Session

LEMMA TypedAlways == PageSpec => []Typed
<1>1. Typed /\ UNCHANGED session => Typed'
  BY DEF Typed, CallsType, NoWallet, NoCalls, Asked, session, page, extension
<1>2. Typed /\ [PageNext]_allVars => Typed'
  BY <1>1, PageStep, TypedStep
<1> QED BY TypedInit, <1>2, PTL DEF PageSpec

-----------------------------------------------------------------------------
(* Who is waited for *)

LEMMA ConnectingStep ==
  ASSUME Typed, ConnectingIsAsked, WalletNext
  PROVE  ConnectingIsAsked'
<1>0. None \notin Wallets
  BY WalletAssumption
<1> USE DEF Typed, CallsType
<1>1. ASSUME NEW w \in Wallets, SelectWallet(w) PROVE ConnectingIsAsked'
  <2>1. CASE wallet # None /\ Active /\ wallet \in CanDisconnect
    <3>1. Become(status, w, OneMore(calls, wallet, "switch")) /\ wallet \in Wallets
      BY <1>1, <2>1 DEF SelectWallet
    <3>2. calls'[wallet]["switch"] > 0
      BY <3>1, <2>1, <1>0 DEF Become, Active, OneMore, CallKinds
    <3> QED BY <3>1, <3>2 DEF ConnectingIsAsked, Asked
  <2>2. CASE wallet # None /\ Active /\ wallet \notin CanDisconnect
    BY <1>1, <2>2, <1>0 DEF SelectWallet, Become, OneMore, Asked, CallKinds, ConnectingIsAsked
  <2>3. CASE wallet = None \/ ~Active
    BY <1>1, <2>3, <1>0 DEF SelectWallet, Become, OneMore, Asked, CallKinds, ConnectingIsAsked,
                            Active, NoWallet
  <2> QED BY <2>1, <2>2, <2>3
<1>2. ASSUME NEW w \in Wallets, Answers(w) PROVE ConnectingIsAsked'
  <2>1. CASE Refused(w) \/ \E A \in SUBSET Accounts : Connected(w, A)
    BY <2>1, <1>0 DEF Refused, Connected, Become, ConnectingIsAsked
  <2>2. ASSUME NEW k \in CallKinds, Disconnected(w, k) PROVE ConnectingIsAsked'
    <3>1. wallet \in Wallets /\ wallet' = wallet
      BY <2>2, AskedWallet DEF Disconnected
    <3>2. OneLess(calls, w, k) \in [Wallets -> [CallKinds -> Nat]]
      BY <2>2, OneLessType DEF Disconnected
    <3>3. CASE k = "switch"
      BY <2>2, <3>1, <3>2, <3>3, <1>0
         DEF Disconnected, Become, OneMore, Asked, CallKinds, ConnectingIsAsked
    <3>4. CASE k # "switch"
      BY <2>2, <3>4 DEF Disconnected, Become, ConnectingIsAsked
    <3> QED BY <3>3, <3>4
  <2> QED BY <1>2, <2>1, <2>2 DEF Answers
<1>3. ASSUME NEW w \in Wallets, onChange(w) PROVE ConnectingIsAsked'
  BY <1>3 DEF onChange, ConnectingIsAsked, Asked
<1>4. ASSUME NEW w \in Wallets, NEW A \in SUBSET Accounts, ChangeAccounts(w, A)
      PROVE  ConnectingIsAsked'
  BY <1>4 DEF ChangeAccounts, page, ConnectingIsAsked, Asked
<1>5. CASE connect
  BY <1>5, <1>0 DEF connect, Become, OneMore, Asked, CallKinds, ConnectingIsAsked
<1>6. CASE disconnect
  <2>1. CASE wallet \in CanDisconnect
    BY <1>6, <2>1, <1>0 DEF disconnect, Become, Active, OneMore, Asked, CallKinds, ConnectingIsAsked
  <2>2. CASE wallet \notin CanDisconnect
    BY <1>6, <2>2 DEF disconnect, Become, ConnectingIsAsked
  <2> QED BY <2>1, <2>2
<1>7. CASE Reload
  BY <1>7, <1>0 DEF Reload, Opened, Become, OneMore, Asked, CallKinds, ConnectingIsAsked
<1>8. CASE Navigate
  BY <1>8 DEF Navigate, ConnectingIsAsked, Asked
<1> QED BY <1>1, <1>2, <1>3, <1>4, <1>5, <1>6, <1>7, <1>8 DEF WalletNext, Session

\* A page that shows "connecting" is waiting for an answer: the switch effect
\* and the promises of SuiWalletController.tsx leave it so in no order.
THEOREM ConnectingTheorem == PageSpec => []ConnectingIsAsked
<1>1. PageInit => ConnectingIsAsked
  BY CallsInit DEF PageInit, WalletInit, ConnectingIsAsked, Asked, CallKinds
<1>2. ConnectingIsAsked /\ UNCHANGED session => ConnectingIsAsked'
  BY DEF ConnectingIsAsked, Asked, session, page, extension
<1>3. Typed /\ ConnectingIsAsked /\ [PageNext]_allVars => ConnectingIsAsked'
  BY <1>2, PageStep, ConnectingStep
<1> QED BY <1>1, <1>3, TypedAlways, PTL DEF PageSpec

-----------------------------------------------------------------------------
(* Whose the page is *)

\* The page's copy of a wallet lacks nothing but what is on its way.
Copied == \A w \in Wallets : w \in news \/ Listed(w) = granted[w]

\* A user that the selected wallet does not have is still to be looked at: there is
\* an event on its way, and the effect listens -- or it is the excuse.
Looked ==
  wallet # None /\ user # None /\ ~missed /\ granted[wallet] # {} =>
    user \in granted[wallet] \/ (listening /\ wallet \in news)

UserInv ==
  /\ Copied /\ Looked
  /\ granted \in [Wallets -> SUBSET Accounts] /\ known = [w \in Wallets |-> known[w]]

\* The user that the effect on the accounts leaves is one of the wallet's, or the
\* effect listens to the event on its way.
LEMMA FollowLooks ==
  ASSUME NEW u, Follow(u), Copied', wallet' \in Wallets \cup {None}
  PROVE  Looked'
<1>1. CASE wallet' = None
  BY <1>1 DEF Looked
<1>2. CASE wallet' \in Wallets
  <2>1. CASE wallet' \in news' /\ known'[wallet'] # Unheard
    BY <1>2, <2>1 DEF Follow, Looked
  <2>2. CASE ~(wallet' \in news' /\ known'[wallet'] # Unheard)
    <3>1. Listed(wallet)' = granted'[wallet']
      BY <1>2, <2>2 DEF Copied, Listed
    <3>2. user' \in Followed(u)
      BY DEF Follow
    <3> QED BY <3>1, <3>2 DEF Followed, Looked
  <2> QED BY <2>1, <2>2
<1> QED BY <1>1, <1>2

\* A grant is news unless it changes nothing.
LEMMA GrantCopied ==
  ASSUME UserInv, NEW w \in Wallets, NEW A \in SUBSET Accounts, Grant(w, A), known' = known
  PROVE  Copied' /\ granted' \in [Wallets -> SUBSET Accounts]
BY DEF UserInv, Copied, Grant, Listed

LEMMA UserStep ==
  ASSUME Typed, UserInv, WalletNext
  PROVE  UserInv'
<1>0. None \notin Wallets
  BY WalletAssumption
<1>1. ASSUME NEW w \in Wallets, SelectWallet(w) PROVE UserInv'
  <2>1. Copied' /\ UNCHANGED <<granted, known, news>> /\ Follow(user) /\ wallet' = w
    BY <1>1 DEF SelectWallet, UserInv, Copied, Listed
  <2> QED BY <2>1, FollowLooks DEF UserInv
<1>2. ASSUME NEW w \in Wallets, Answers(w) PROVE UserInv'
  <2>1. ASSUME NEW A \in SUBSET Accounts, Connected(w, A) PROVE UserInv'
    <3>1. /\ Copied' /\ granted' \in [Wallets -> SUBSET Accounts]
          /\ UNCHANGED <<wallet, known>>
      BY <2>1, GrantCopied DEF Connected
    <3>2. PICK u \in UserOf(A) :
            IF u = user
            THEN UNCHANGED <<user, listening>> /\ missed' = (missed /\ w # wallet)
            ELSE Follow(u)
      BY <2>1 DEF Connected
    <3>3. CASE u = user
      <4>1. Grant(w, A) /\ UNCHANGED <<user, listening>> /\ missed' = (missed /\ w # wallet)
        BY <2>1, <3>2, <3>3 DEF Connected
      <4>2. CASE w = wallet
        <5>1. user # None => user \in A
          BY <3>2, <3>3 DEF UserOf
        <5> QED BY <3>1, <4>1, <4>2, <5>1 DEF Grant, UserInv, Looked
      <4>3. CASE w # wallet
        BY <3>1, <4>1, <4>3 DEF Grant, UserInv, Looked, Typed
      <4> QED BY <4>2, <4>3
    <3>4. CASE u # user
      BY <3>1, <3>2, <3>4, FollowLooks DEF UserInv, Typed
    <3> QED BY <3>3, <3>4
  <2>2. CASE Refused(w)
    BY <2>2 DEF Refused, UserInv, Copied, Listed, Looked
  <2>3. ASSUME NEW k \in CallKinds, Disconnected(w, k) PROVE UserInv'
    <3>1. PICK A \in {granted[w], {}} : Grant(w, A)
      BY <2>3 DEF Disconnected
    <3>2. /\ A \in SUBSET Accounts /\ UNCHANGED <<wallet, known>>
          /\ UNCHANGED <<user, listening, missed>> \/ Follow(None)
      BY <2>3, <3>1 DEF Disconnected, SetUser, UserInv
    <3>3. Copied' /\ granted' \in [Wallets -> SUBSET Accounts]
      BY <3>1, <3>2, GrantCopied
    <3>4. Looked'
      <4>1. CASE Follow(None)
        BY <3>2, <3>3, <4>1, FollowLooks DEF Typed
      <4>2. CASE UNCHANGED <<user, listening, missed>>
        BY <3>1, <3>2, <4>2 DEF Grant, UserInv, Looked, Typed
      <4> QED BY <3>2, <4>1, <4>2
    <3> QED BY <3>2, <3>3, <3>4 DEF UserInv
  <2> QED BY <1>2, <2>1, <2>2, <2>3 DEF Answers
<1>3. ASSUME NEW w \in Wallets, onChange(w) PROVE UserInv'
  <2>1. /\ UNCHANGED <<wallet, granted>> /\ news' = news \ {w}
        /\ known' = [known EXCEPT ![w] = granted[w]]
        /\ IF w = wallet /\ listening THEN Follow(user) ELSE UNCHANGED <<user, listening, missed>>
    BY <1>3 DEF onChange
  <2>2. Copied'
    BY <2>1 DEF UserInv, Copied, Listed
  <2>3. Looked'
    <3>1. CASE w = wallet /\ listening
      BY <2>1, <2>2, <3>1, FollowLooks DEF Typed
    <3>2. CASE ~(w = wallet /\ listening)
      BY <2>1, <3>2 DEF UserInv, Looked
    <3> QED BY <3>1, <3>2
  <2> QED BY <2>1, <2>2, <2>3 DEF UserInv
<1>4. ASSUME NEW w \in Wallets, NEW A \in SUBSET Accounts, ChangeAccounts(w, A) PROVE UserInv'
  <2>1. /\ Grant(w, A) /\ A # granted[w] /\ UNCHANGED <<wallet, user, listening, known>>
        /\ missed' = (missed \/ (w = wallet /\ ~listening))
    BY <1>4 DEF ChangeAccounts, page
  <2>2. Copied' /\ granted' \in [Wallets -> SUBSET Accounts]
    BY <2>1, GrantCopied
  <2>3. Looked'
    BY <2>1 DEF Grant, UserInv, Looked, Typed
  <2> QED BY <2>1, <2>2, <2>3 DEF UserInv
<1>5. CASE connect
  BY <1>5 DEF connect, UserInv, Copied, Listed, Looked
<1>6. CASE disconnect \/ Navigate
  <2>1. Copied' /\ UNCHANGED <<wallet, granted, known, news>>
    BY <1>6 DEF disconnect, Navigate, UserInv, Copied, Listed
  <2>2. UNCHANGED <<user, listening, missed>> \/ \E u : Follow(u)
    BY <1>6 DEF disconnect, Navigate, SetUser
  <2>3. Looked'
    <3>1. CASE UNCHANGED <<user, listening, missed>>
      BY <2>1, <3>1 DEF UserInv, Looked
    <3>2. CASE \E u : Follow(u)
      BY <2>1, <3>2, FollowLooks DEF Typed
    <3> QED BY <2>2, <3>1, <3>2
  <2> QED BY <2>1, <2>3 DEF UserInv
<1>7. CASE Reload
  <2>1. PICK w \in {wallet, None}, u \in Accounts \cup {None} : Opened(w, u)
    BY <1>7 DEF Reload
  <2>2. /\ Copied' /\ granted' = granted /\ wallet' = w /\ Follow(u)
        /\ known' = [v \in Wallets |-> Unheard]
    BY <2>1 DEF Opened, UserInv, Copied, Listed
  <2> QED BY <2>2, FollowLooks DEF UserInv, Typed
<1> QED BY <1>1, <1>2, <1>3, <1>4, <1>5, <1>6, <1>7 DEF WalletNext, Session

\* Once the change events are in, the user of the page is one of the selected
\* wallet's, unless nobody has looked since a change that the effect on the accounts
\* (SuiWalletController.tsx) was deaf to: wherever it listens, or runs for another
\* reason, it makes up for every late answer.
THEOREM UserTheorem == PageSpec => []UserIsOfWallet
<1>1. PageInit => UserInv
  BY DEF PageInit, WalletInit, UserInv, Copied, Listed, Looked
<1>2. UserInv /\ UNCHANGED session => UserInv'
  BY DEF UserInv, Copied, Listed, Looked, session, page, extension
<1>3. Typed /\ UserInv /\ [PageNext]_allVars => UserInv'
  BY <1>2, PageStep, UserStep
<1>4. UserInv => UserIsOfWallet
  BY DEF UserInv, Looked, UserIsOfWallet
<1> QED BY <1>1, <1>3, <1>4, TypedAlways, PTL DEF PageSpec

-----------------------------------------------------------------------------
(* What "connected" means *)

\* Connected to the wallet that is selected, but for a wallet that is still to
\* let go and the two excuses.
ConnectedInv ==
  status = "connected" =>
    \/ granted[wallet] # {} \/ wallet \in emptied \/ stray
    \/ \E w \in Wallets : Asked(w, "switch")

LEMMA ConnectedStep ==
  ASSUME Typed, UserInv, ConnectedInv, WalletNext
  PROVE  ConnectedInv'
<1>0. None \notin Wallets
  BY WalletAssumption
<1> USE DEF Typed, CallsType
<1>1. ASSUME NEW w \in Wallets, SelectWallet(w) PROVE ConnectedInv'
  <2>1. CASE wallet # None /\ Active /\ wallet \in CanDisconnect
    <3>1. Become(status, w, OneMore(calls, wallet, "switch")) /\ wallet \in Wallets
      BY <1>1, <2>1 DEF SelectWallet
    <3>2. calls'[wallet]["switch"] > 0
      BY <3>1, <2>1, <1>0 DEF Become, Active, OneMore, CallKinds
    <3> QED BY <3>1, <3>2 DEF ConnectedInv, Asked
  <2>2. CASE ~(wallet # None /\ Active /\ wallet \in CanDisconnect)
    BY <1>1, <2>2, <1>0 DEF SelectWallet, Become, ConnectedInv, Active, NoWallet
  <2> QED BY <2>1, <2>2
<1>2. ASSUME NEW w \in Wallets, Answers(w) PROVE ConnectedInv'
  <2>1. ASSUME NEW A \in SUBSET Accounts, Connected(w, A) PROVE ConnectedInv'
    BY <2>1 DEF Connected, Grant, UserInv, ConnectedInv
  <2>2. CASE Refused(w)
    BY <2>2 DEF Refused, Become, ConnectedInv
  <2>3. ASSUME NEW k \in CallKinds, Disconnected(w, k) PROVE ConnectedInv'
    BY <2>3 DEF Disconnected, Become, ConnectedInv
  <2> QED BY <1>2, <2>1, <2>2, <2>3 DEF Answers
<1>3. ASSUME NEW w \in Wallets, onChange(w) PROVE ConnectedInv'
  BY <1>3 DEF onChange, ConnectedInv, Asked
<1>4. ASSUME NEW w \in Wallets, NEW A \in SUBSET Accounts, ChangeAccounts(w, A) PROVE ConnectedInv'
  <2>1. UNCHANGED <<wallet, status, calls, stray>> /\ Grant(w, A)
        /\ emptied' = IF A = {} THEN emptied \cup {w} ELSE emptied \ {w}
    BY <1>4 DEF ChangeAccounts, page
  <2>2. CASE w = wallet
    BY <2>1, <2>2 DEF Grant, UserInv, ConnectedInv, Asked
  <2>3. CASE w # wallet
    BY <2>1, <2>3 DEF Grant, UserInv, ConnectedInv, Asked
  <2> QED BY <2>2, <2>3
<1>5. CASE connect
  BY <1>5 DEF connect, Become, ConnectedInv
<1>6. CASE disconnect
  <2>1. CASE wallet \in CanDisconnect
    BY <1>6, <2>1, <1>0 DEF disconnect, Become, Active, OneMore, Asked, CallKinds, ConnectedInv
  <2>2. CASE wallet \notin CanDisconnect
    BY <1>6, <2>2 DEF disconnect, Become, ConnectedInv
  <2> QED BY <2>1, <2>2
<1>7. CASE Reload
  BY <1>7 DEF Reload, Opened, Become, ConnectedInv
<1>8. CASE Navigate
  BY <1>8 DEF Navigate, ConnectedInv, Asked
<1> QED BY <1>1, <1>2, <1>3, <1>4, <1>5, <1>6, <1>7, <1>8 DEF WalletNext, Session

\* When all is answered, "connected" means that the selected wallet lets the
\* page use accounts, but for what the user took back in the wallet and for the
\* late answer of a wallet that had been left.
THEOREM ConnectedTheorem == PageSpec => []ConnectedIsGranted
<1>1. PageInit => UserInv /\ ConnectedInv
  BY DEF PageInit, WalletInit, UserInv, Copied, Listed, Looked, ConnectedInv
<1>2. UserInv /\ ConnectedInv /\ UNCHANGED session => UserInv' /\ ConnectedInv'
  BY DEF UserInv, Copied, Listed, Looked, ConnectedInv, Asked, session, page, extension
<1>3. Typed /\ UserInv /\ ConnectedInv /\ [PageNext]_allVars => UserInv' /\ ConnectedInv'
  BY <1>2, PageStep, UserStep, ConnectedStep
<1>4. ConnectedInv => ConnectedIsGranted
  BY DEF ConnectedInv, ConnectedIsGranted, NoCalls, CallKinds
<1> QED BY <1>1, <1>3, <1>4, TypedAlways, PTL DEF PageSpec

-----------------------------------------------------------------------------
(* The end of a connection *)

\* After the user has disconnected only calls to disconnect are under way, and
\* when there is none the connection has ended.
OffInv ==
  off => /\ \A w \in Wallets : ~Asked(w, "connect") /\ ~Asked(w, "switch")
         /\ \/ status = "disconnected" /\ user = None
            \/ \E w \in Wallets : Asked(w, "disconnect")

LEMMA OffStep ==
  ASSUME Typed, OffInv, WalletNext
  PROVE  OffInv'
<1>0. None \notin Wallets
  BY WalletAssumption
<1> USE DEF Typed, CallsType
<1>1. ASSUME NEW w \in Wallets, SelectWallet(w) PROVE OffInv'
  BY <1>1 DEF SelectWallet, OffInv
<1>2. ASSUME NEW w \in Wallets, Answers(w) PROVE OffInv'
  <2>1. CASE \E A \in SUBSET Accounts : Connected(w, A)
    BY <2>1 DEF Connected, OffInv
  <2>2. CASE Refused(w)
    BY <2>2 DEF Refused, OffInv
  <2>3. ASSUME NEW k \in CallKinds, Disconnected(w, k) PROVE OffInv'
    <3>1. CASE k = "switch"
      BY <2>3, <3>1 DEF Disconnected, OffInv
    <3>2. CASE k = "disconnect"
      BY <2>3, <3>2 DEF Disconnected, SetUser, Follow, Followed, Become, OneLess, OffInv, Asked, CallKinds
    <3> QED BY <2>3, <3>1, <3>2 DEF Disconnected, CallKinds
  <2> QED BY <1>2, <2>1, <2>2, <2>3 DEF Answers
<1>3. ASSUME NEW w \in Wallets, onChange(w) PROVE OffInv'
  BY <1>3 DEF onChange, Follow, Followed, OffInv, Asked
<1>4. ASSUME NEW w \in Wallets, NEW A \in SUBSET Accounts, ChangeAccounts(w, A) PROVE OffInv'
  BY <1>4 DEF ChangeAccounts, page, OffInv, Asked
<1>5. CASE connect
  BY <1>5 DEF connect, OffInv
<1>6. CASE disconnect
  <2>0. wallet \in Wallets /\ status # "not-connected"
    BY <1>6 DEF disconnect, Active
  <2>1. off' => \A w \in Wallets : ~Asked(w, "connect") /\ ~Asked(w, "switch")
    BY <1>6 DEF disconnect, OffInv, NoCalls, CallKinds
  <2>2. CASE wallet \in CanDisconnect
    <3>1. calls' = OneMore(calls, wallet, "disconnect") /\ UNCHANGED wallet
      BY <1>6, <2>0, <2>2 DEF disconnect, Become
    <3> QED BY <2>0, <2>1, <3>1 DEF OneMore, OffInv, Asked, CallKinds
  <2>3. CASE wallet \notin CanDisconnect
    <3>1. calls' = calls /\ status' = "disconnected" /\ user' = None
      BY <1>6, <2>3 DEF disconnect, SetUser, Follow, Followed, Become
    <3> QED BY <2>1, <3>1 DEF OffInv, Asked
  <2> QED BY <2>2, <2>3
<1>7. CASE Reload
  BY <1>7 DEF Reload, Opened, OffInv
<1>8. CASE Navigate
  BY <1>8 DEF Navigate, Follow, Followed, OffInv, Asked
<1> QED BY <1>1, <1>2, <1>3, <1>4, <1>5, <1>6, <1>7, <1>8 DEF WalletNext, Session

\* Who disconnects while no call is under way stays disconnected until the user
\* asks for something else: autoconnect does not bring the connection back.
THEOREM DisconnectTheorem == PageSpec => []DisconnectIsFinal
<1>1. PageInit => OffInv
  BY DEF PageInit, WalletInit, OffInv
<1>2. OffInv /\ UNCHANGED session => OffInv'
  BY DEF OffInv, Asked, session, page, extension
<1>3. Typed /\ OffInv /\ [PageNext]_allVars => OffInv'
  BY <1>2, PageStep, OffStep
<1>4. OffInv => DisconnectIsFinal
  BY DEF OffInv, DisconnectIsFinal, NoCalls, CallKinds
<1> QED BY <1>1, <1>3, <1>4, TypedAlways, PTL DEF PageSpec

-----------------------------------------------------------------------------
(* The user is an account *)

UserTyped ==
  /\ user \in Accounts \cup {None}
  /\ granted \in [Wallets -> SUBSET Accounts]
  /\ known \in [Wallets -> (SUBSET Accounts) \cup {Unheard}]

\* The effect on the accounts makes an account the user.
LEMMA FollowedType ==
  ASSUME NEW u \in Accounts \cup {None}, user' \in Followed(u),
         wallet' \in Wallets \cup {None},
         granted' \in [Wallets -> SUBSET Accounts],
         known' \in [Wallets -> (SUBSET Accounts) \cup {Unheard}]
  PROVE  user' \in Accounts \cup {None}
BY DEF Followed, Listed

LEMMA UserTypedStep ==
  ASSUME Typed, Typed', UserTyped, WalletNext
  PROVE  UserTyped'
<1>0. wallet' \in Wallets \cup {None}
  BY DEF Typed
<1>1. ASSUME NEW w \in Wallets, SelectWallet(w) PROVE UserTyped'
  <2>1. UNCHANGED <<granted, known>> /\ user' \in Followed(user)
    BY <1>1 DEF SelectWallet, Follow
  <2> QED BY <1>0, <2>1, FollowedType DEF UserTyped
<1>2. ASSUME NEW w \in Wallets, Answers(w) PROVE UserTyped'
  <2>1. ASSUME NEW A \in SUBSET Accounts, Connected(w, A) PROVE UserTyped'
    <3>1. granted' \in [Wallets -> SUBSET Accounts] /\ UNCHANGED known
      BY <2>1 DEF Connected, Grant, UserTyped
    <3>2. PICK u \in UserOf(A) : user' = user \/ user' \in Followed(u)
      BY <2>1 DEF Connected, Follow
    <3>3. u \in Accounts \cup {None}
      BY <3>2 DEF UserOf, UserTyped
    <3> QED BY <1>0, <3>1, <3>2, <3>3, FollowedType DEF UserTyped
  <2>2. CASE Refused(w)
    BY <2>2 DEF Refused, UserTyped
  <2>3. ASSUME NEW k \in CallKinds, Disconnected(w, k) PROVE UserTyped'
    <3>1. granted' \in [Wallets -> SUBSET Accounts] /\ UNCHANGED known
      BY <2>3 DEF Disconnected, Grant, UserTyped
    <3>2. user' \in {user, None}
      BY <2>3 DEF Disconnected, SetUser, Follow, Followed
    <3> QED BY <3>1, <3>2 DEF UserTyped
  <2> QED BY <1>2, <2>1, <2>2, <2>3 DEF Answers
<1>3. ASSUME NEW w \in Wallets, onChange(w) PROVE UserTyped'
  <2>1. /\ UNCHANGED granted
        /\ known' = [known EXCEPT ![w] = granted[w]]
        /\ user' = user \/ user' \in Followed(user)
    BY <1>3 DEF onChange, Follow
  <2>2. known' \in [Wallets -> (SUBSET Accounts) \cup {Unheard}]
    BY <2>1 DEF UserTyped
  <2>3. user' \in Accounts \cup {None}
    <3>1. CASE user' \in Followed(user)
      BY <1>0, <2>1, <2>2, <3>1, FollowedType DEF UserTyped
    <3>2. CASE user' = user
      BY <3>2 DEF UserTyped
    <3> QED BY <2>1, <3>1, <3>2
  <2> QED BY <2>1, <2>2, <2>3 DEF UserTyped
<1>4. ASSUME NEW w \in Wallets, NEW A \in SUBSET Accounts, ChangeAccounts(w, A) PROVE UserTyped'
  BY <1>4 DEF ChangeAccounts, Grant, page, UserTyped
<1>5. CASE connect
  BY <1>5 DEF connect, UserTyped
<1>6. CASE disconnect
  BY <1>6 DEF disconnect, SetUser, Follow, Followed, UserTyped
<1>7. CASE Reload
  <2>1. PICK w \in {wallet, None}, u \in Accounts \cup {None} : Opened(w, u)
    BY <1>7 DEF Reload
  <2>2. UNCHANGED granted /\ user' \in Followed(u) /\ known' = [v \in Wallets |-> Unheard]
    BY <2>1 DEF Opened, Follow
  <2>3. known' \in [Wallets -> (SUBSET Accounts) \cup {Unheard}]
    BY <2>2
  <2> QED BY <1>0, <2>2, <2>3, FollowedType DEF UserTyped
<1>8. CASE Navigate
  BY <1>0, <1>8, FollowedType DEF Navigate, Follow, UserTyped
<1> QED BY <1>1, <1>2, <1>3, <1>4, <1>5, <1>6, <1>7, <1>8 DEF WalletNext, Session

LEMMA UserTypedAlways == PageSpec => []UserTyped
<1>1. PageInit => UserTyped
  BY DEF PageInit, WalletInit, UserTyped
<1>2. UserTyped /\ UNCHANGED session => UserTyped'
  BY DEF UserTyped, session, page, extension
<1>3. Typed /\ Typed' /\ UserTyped /\ [PageNext]_allVars => UserTyped'
  BY <1>2, PageStep, UserTypedStep
<1> QED BY <1>1, <1>3, TypedAlways, PTL DEF PageSpec

-----------------------------------------------------------------------------
(* The lists *)

BountyRecord == [package : Packages, owner : Accounts, approved : BOOLEAN]

ContractType ==
  /\ bounty = [b \in Bounties |-> bounty[b]]
  /\ \A b \in Live : bounty[b] \in BountyRecord

\* A job that has made its bounty.
HasMade(j) == j.stage \in {"executed", "timer"}

Shape(j) == j = [id |-> j.id, by |-> j.by, wallet |-> j.wallet, package |-> j.package,
                 cap |-> j.cap, seen |-> j.seen, bounty |-> j.bounty, stage |-> j.stage]

JobOK(j) == Shape(j) /\ j.by \in Accounts /\ j.package \in Packages /\ (HasMade(j) => j.bounty \in Live)

JobsInv == \A j \in jobs : JobOK(j)

\* No two jobs have made the same bounty.
Distinct == \A i, j \in jobs : HasMade(i) /\ HasMade(j) /\ i.bounty = j.bounty => i = j

ListsType ==
  /\ lists = [k \in Keys |-> lists[k]]
  /\ \A k \in Keys : lists[k] # Missing => lists[k] \in [Bounties -> Nat]

\* What is listed, or on its way into a list, is there.
OnlyLive ==
  /\ \A k \in DOMAIN reads : reads[k] \subseteq Live
  /\ \A k \in Keys : \A b \in Bounties : lists[k] # Missing /\ lists[k][b] > 0 => b \in Live
  /\ \A m \in made : m.bounty \in Live /\ m.by \in Accounts

\* A bounty that waits for the timer is in no list, but early.
Once ==
  \A k \in Keys : \A b \in Bounties :
    lists[k] # Missing /\ <<k, b>> \notin early =>
      lists[k][b] <= 1 /\ (b \in Unlisted => lists[k][b] = 0)

ListInv ==
  ContractType /\ JobsInv /\ Distinct /\ ListsType /\ OnlyLive /\ Once /\ CreatedIsListed

LEMMA ListInit == PageInit => ListInv
BY DEF PageInit, ListInv, ContractType, Live, JobsInv, Distinct, ListsType, OnlyLive, Once,
       CreatedIsListed

\* Steps that leave contract, lists and jobs alone.
LEMMA ListStutter ==
  ASSUME ListInv, UNCHANGED <<bounty, lists, reads, jobs, history>>
  PROVE  ListInv'
BY DEF ListInv, ContractType, Live, JobsInv, JobOK, Shape, HasMade, Distinct, ListsType, OnlyLive, Once,
       Unlisted, CreatedIsListed, history

\* A new bounty disturbs nothing that is listed.
LEMMA CreateKeeps ==
  ASSUME ListInv, NEW b \in Bounties, NEW p \in Packages, NEW u \in Accounts, NEW a \in BOOLEAN,
         create_v1(b, p, u, a)
  PROVE  /\ ContractType'
         /\ Live' = Live \cup {b} /\ b \notin Live
         /\ \A c \in Live : bounty'[c] = bounty[c]
<1>1. [package |-> p, owner |-> u, approved |-> a] # Free
  BY BountyAssumption
<1> QED BY <1>1 DEF create_v1, ListInv, ContractType, Live, BountyRecord

\* What others do: they make bounties, approve them and give their caps away.
LEMMA OthersKeep ==
  ASSUME ListInv, Others
  PROVE  ListInv'
<1> USE DEF ListInv
<1>0. UNCHANGED <<lists, reads, jobs, made, early>>
  BY DEF Others, cached
<1>1. ASSUME NEW b \in Bounties, NEW p \in Packages, NEW u \in Accounts,
             create_v1(b, p, u, FALSE), UNCHANGED outdated
      PROVE  ListInv'
  <2>1. ContractType' /\ Live' = Live \cup {b} /\ \A c \in Live : bounty'[c] = bounty[c]
    BY <1>1, CreateKeeps
  <2>2. JobsInv' /\ Distinct' /\ ListsType' /\ OnlyLive'
    BY <1>0, <2>1 DEF JobsInv, JobOK, Shape, HasMade, Distinct, ListsType, OnlyLive
  <2>3. Once'
    BY <1>0 DEF Once, Unlisted
  <2>4. CreatedIsListed'
    BY <1>0, <1>1, <2>1 DEF CreatedIsListed, OnlyLive
  <2> QED BY <2>1, <2>2, <2>3, <2>4
<1>2. ASSUME NEW b \in Bounties, NEW c \in Caps, approve(b, c), UNCHANGED outdated
      PROVE  ListInv'
  <2>1. [bounty[b] EXCEPT !.approved = TRUE] \in BountyRecord
    BY <1>2 DEF approve, ContractType, BountyRecord
  <2>2. ContractType' /\ Live' = Live /\ \A d \in Live : bounty'[d].owner = bounty[d].owner
    BY <1>2, <2>1, BountyAssumption DEF approve, ContractType, Live, BountyRecord
  <2>3. JobsInv' /\ Distinct' /\ ListsType' /\ OnlyLive' /\ Once'
    BY <1>0, <2>2 DEF JobsInv, JobOK, Shape, HasMade, Distinct, ListsType, OnlyLive, Once, Unlisted
  <2>4. CreatedIsListed'
    BY <1>0, <1>2, <2>2 DEF CreatedIsListed, OnlyLive
  <2> QED BY <2>2, <2>3, <2>4
<1>3. ASSUME NEW b \in Bounties, NEW u \in Accounts, Give(b, u),
             outdated' = outdated \cup {bounty[b].owner, u}
      PROVE  ListInv'
  <2>1. [bounty[b] EXCEPT !.owner = u] \in BountyRecord
    BY <1>3 DEF Give, ContractType, BountyRecord
  <2>2. ContractType' /\ Live' = Live
    BY <1>3, <2>1, BountyAssumption DEF Give, ContractType, Live, BountyRecord
  <2>3. JobsInv' /\ Distinct' /\ ListsType' /\ OnlyLive' /\ Once'
    BY <1>0, <2>2 DEF JobsInv, JobOK, Shape, HasMade, Distinct, ListsType, OnlyLive, Once, Unlisted
  <2>4. ASSUME NEW d \in Live, d # b PROVE bounty'[d] = bounty[d]
    BY <1>3, <2>4 DEF Give, ContractType
  <2>5. bounty'[b].owner = u
    BY <1>3, <2>1 DEF Give, ContractType, Live, BountyRecord
  <2>6. CreatedIsListed'
    BY <1>0, <1>3, <2>4, <2>5 DEF CreatedIsListed, OnlyLive
  <2> QED BY <2>2, <2>3, <2>6
<1>4. ASSUME NEW c \in Caps, NEW p \in Packages, NEW u \in Accounts, MoveCap(c, p, u), UNCHANGED outdated
      PROVE  ListInv'
  BY <1>0, <1>4, ListStutter DEF MoveCap, history
<1> QED BY <1>1, <1>2, <1>3, <1>4 DEF Others

\* The fetching of lists.
LEMMA FetchKeeps ==
  ASSUME ListInv, NEW k \in Keys, FetchIds(k) \/ LandIds(k) \/ FetchFails(k)
  PROVE  ListInv'
<1> USE DEF ListInv
<1>0. UNCHANGED <<bounty, jobs, made>> /\ Live' = Live /\ Unlisted' = Unlisted
  BY DEF FetchIds, LandIds, FetchFails, contract, history, Live, Unlisted
<1>1. ContractType' /\ JobsInv' /\ Distinct'
  BY <1>0 DEF ContractType, JobsInv, JobOK, Shape, HasMade, Distinct
<1>2. CASE FetchIds(k)
  <2>1. UNCHANGED <<lists, outdated, early>>
    BY <1>2 DEF FetchIds, history
  <2>2. Ids(k) \subseteq Live
    BY DEF Ids, getAllBugBountyIds, getUserBugBountyIds
  <2>3. OnlyLive'
    BY <1>0, <1>2, <2>1, <2>2 DEF FetchIds, OnlyLive
  <2>4. ListsType' /\ Once' /\ CreatedIsListed'
    BY <1>0, <2>1 DEF ListsType, Once, CreatedIsListed
  <2> QED BY <1>1, <2>3, <2>4
<1>3. CASE LandIds(k)
  <2> DEFINE new == [b \in Bounties |-> IF b \in reads[k] THEN 1 ELSE 0]
  <2>1. /\ lists' = [lists EXCEPT ![k] = new] /\ reads[k] \subseteq Live
        /\ reads' = [j \in DOMAIN reads \ {k} |-> reads[j]]
        /\ outdated' = IF reads[k] = Ids(k) THEN outdated \ {k} ELSE outdated \cup {k}
        /\ early' = {e \in early : e[1] # k} \cup {<<k, b>> : b \in reads[k] \cap Unlisted}
    BY <1>3 DEF LandIds, OnlyLive, Without
  <2>2. lists'[k] = new /\ \A j \in Keys \ {k} : lists'[j] = lists[j]
    BY <2>1 DEF ListsType
  <2>3. new \in [Bounties -> Nat] /\ \A b \in Bounties : new[b] <= 1 /\ (new[b] > 0 => b \in reads[k])
    OBVIOUS
  <2>4. ListsType'
    <3>1. lists' = [j \in Keys |-> lists'[j]]
      BY <2>1 DEF ListsType
    <3> QED BY <2>2, <2>3, <3>1 DEF ListsType
  <2>5. OnlyLive'
    BY <1>0, <2>1, <2>2, <2>3 DEF OnlyLive
  <2>6. Once'
    <3>1. ASSUME NEW j \in Keys \ {k}, NEW b \in Bounties, lists'[j] # Missing, <<j, b>> \notin early'
          PROVE  lists'[j][b] <= 1 /\ (b \in Unlisted' => lists'[j][b] = 0)
      <4>1. <<j, b>> \notin early
        BY <2>1, <3>1
      <4> QED BY <1>0, <2>2, <3>1, <4>1 DEF Once
    <3>2. ASSUME NEW b \in Bounties, <<k, b>> \notin early'
          PROVE  new[b] <= 1 /\ (b \in Unlisted' => new[b] = 0)
      BY <1>0, <2>1, <2>3, <3>2
    <3> QED BY <2>2, <3>1, <3>2 DEF Once
  <2>7. CreatedIsListed'
    <3> SUFFICES ASSUME NEW m \in made, NEW j \in {None, m.by}, lists'[j] # Missing,
                        j \notin outdated', j = None \/ bounty[m.bounty].owner = j
                 PROVE  lists'[j][m.bounty] > 0
      BY <1>0 DEF CreatedIsListed
    <3>1. m.bounty \in Live /\ j \in Keys
      BY DEF OnlyLive, Keys
    <3>2. CASE j = k
      <4>1. reads[k] = Ids(k)
        BY <2>1, <3>2
      <4>2. m.bounty \in Ids(k)
        BY <3>1, <3>2 DEF Ids, getAllBugBountyIds, getUserBugBountyIds
      <4> QED BY <2>2, <3>1, <3>2, <4>1, <4>2 DEF Live
    <3>3. CASE j # k
      BY <2>1, <2>2, <3>1, <3>3 DEF CreatedIsListed
    <3> QED BY <3>2, <3>3
  <2> QED BY <1>1, <2>4, <2>5, <2>6, <2>7
<1>4. CASE FetchFails(k)
  <2>1. /\ UNCHANGED <<lists, outdated, early>>
        /\ reads' = [j \in DOMAIN reads \ {k} |-> reads[j]]
    BY <1>4 DEF FetchFails, Without, history
  <2>2. OnlyLive'
    BY <1>0, <2>1 DEF OnlyLive
  <2>3. ListsType' /\ Once' /\ CreatedIsListed'
    BY <1>0, <2>1 DEF ListsType, Once, CreatedIsListed
  <2> QED BY <1>1, <2>2, <2>3
<1> QED BY <1>2, <1>3, <1>4

\* A submission that is dropped, or goes on without a bounty of its own, takes
\* nothing from the lists.
LEMMA JobsShrink ==
  ASSUME ListInv, UNCHANGED <<contract, lists, reads, history>>,
         \A j \in jobs' : JobOK(j) /\ (HasMade(j) => j \in jobs)
  PROVE  ListInv'
<1> USE DEF ListInv
<1>0. UNCHANGED <<bounty, lists, reads, made, outdated, early>> /\ Live' = Live
  BY DEF contract, history, Live
<1>1. Unlisted' \subseteq Unlisted
  BY DEF Unlisted, HasMade
<1>2. JobsInv' /\ Distinct'
  BY <1>0 DEF JobsInv, JobOK, Shape, HasMade, Distinct
<1>3. Once'
  BY <1>0, <1>1 DEF Once
<1>4. ContractType' /\ ListsType' /\ OnlyLive' /\ CreatedIsListed'
  BY <1>0 DEF ContractType, ListsType, OnlyLive, CreatedIsListed
<1> QED BY <1>2, <1>3, <1>4

\* A new submission has no bounty yet.
LEMMA SubmitKeeps ==
  ASSUME ListInv, UserTyped, NEW p \in Packages, onSubmit(p)
  PROVE  ListInv'
<1>1. PICK c \in upgradeCapIds(p, packages[user]) :
        jobs' = jobs \cup {[id |-> NewId, by |-> user, wallet |-> wallet, package |-> p, cap |-> c,
                            seen |-> packages[user], bounty |-> None, stage |-> "built"]}
  BY DEF onSubmit
<1>2. user \in Accounts
  BY DEF onSubmit, CreateOffered, UserTyped
<1>3. \A j \in jobs' : JobOK(j) /\ (HasMade(j) => j \in jobs)
  BY <1>1, <1>2 DEF ListInv, JobsInv, JobOK, Shape, HasMade
<1>4. UNCHANGED <<contract, lists, reads, history>>
  BY DEF onSubmit, cached
<1> QED BY <1>3, <1>4, JobsShrink

\* A step of a submission that sets its stage keeps what it is.
LEMMA StageKeeps ==
  ASSUME JobsInv, NEW job \in jobs, NEW s, HasMade([job EXCEPT !.stage = s]) => HasMade(job)
  PROVE  LET new == [job EXCEPT !.stage = s]
         IN  JobOK(new) /\ new.bounty = job.bounty /\ new.stage = s
BY DEF JobsInv, JobOK, Shape

\* A submission whose transaction has been executed.
LEMMA ExecutedShape ==
  ASSUME NEW j, Shape(j), NEW b
  PROVE  LET new == [j EXCEPT !.stage = "executed", !.bounty = b]
         IN  /\ Shape(new) /\ new.bounty = b /\ new.stage = "executed"
             /\ new.by = j.by /\ new.package = j.package
<1> DEFINE mid == [j EXCEPT !.stage = "executed"]
           new == [mid EXCEPT !.bounty = b]
<1>1. Shape(mid) /\ mid.by = j.by /\ mid.package = j.package /\ mid.stage = "executed"
  BY DEF Shape
<1>2. [j EXCEPT !.stage = "executed", !.bounty = b] = new
  OBVIOUS
<1> HIDE DEF mid
<1>3. Shape(new) /\ new.by = mid.by /\ new.package = mid.package /\ new.stage = mid.stage /\ new.bounty = b
  BY <1>1 DEF Shape
<1> HIDE DEF new
<1> QED BY <1>1, <1>2, <1>3

\* The transaction makes a bounty that no list has.
LEMMA ExecuteKeeps ==
  ASSUME ListInv, NEW job \in jobs, Execute(job)
  PROVE  ListInv'
<1> USE DEF ListInv
<1>1. PICK b \in Bounties : /\ create_v1(b, job.package, job.by, job.cap # None)
                            /\ Step(job, [job EXCEPT !.stage = "executed", !.bounty = b])
  BY DEF Execute
<1> DEFINE new == [job EXCEPT !.stage = "executed", !.bounty = b]
<1>2. /\ UNCHANGED <<lists, reads, made, outdated, early>> /\ job.stage = "signed"
      /\ jobs' = (jobs \ {job}) \cup {new}
  BY <1>1 DEF Execute, Step, cached, history
<1>3. job.by \in Accounts /\ job.package \in Packages
  BY DEF JobsInv, JobOK
<1>4. ContractType' /\ Live' = Live \cup {b} /\ b \notin Live /\ \A c \in Live : bounty'[c] = bounty[c]
  BY <1>1, <1>3, CreateKeeps
<1>5. Shape(new) /\ new.by = job.by /\ new.package = job.package /\ new.bounty = b /\ new.stage = "executed"
  <2>1. Shape(job)
    BY DEF JobsInv, JobOK
  <2> QED BY <2>1, ExecutedShape
<1> HIDE DEF new
<1>6. JobsInv'
  BY <1>2, <1>3, <1>4, <1>5 DEF JobsInv, JobOK, Shape, HasMade
<1>7. \A j \in jobs : HasMade(j) => j.bounty # b
  BY <1>4 DEF JobsInv, JobOK
<1>8. Distinct'
  BY <1>2, <1>5, <1>7 DEF Distinct, HasMade
<1>9. Unlisted' \subseteq Unlisted \cup {b}
  BY <1>2, <1>5 DEF Unlisted
<1>10. \A k \in Keys : lists[k] # Missing => lists[k][b] = 0
  BY <1>4 DEF OnlyLive, ListsType
<1>11. Once'
  BY <1>2, <1>9, <1>10 DEF Once
<1>12. ListsType' /\ OnlyLive'
  BY <1>2, <1>4 DEF ListsType, OnlyLive
<1>13. CreatedIsListed'
  BY <1>2, <1>4 DEF CreatedIsListed, OnlyLive
<1> QED BY <1>4, <1>6, <1>8, <1>11, <1>12, <1>13

\* The timer appends the bounty to lists that do not have it, or have it early.
LEMMA TimerKeeps ==
  ASSUME ListInv, NEW job \in jobs, Timer(job)
  PROVE  ListInv'
<1> USE DEF ListInv
<1> DEFINE b == job.bounty
           u == job.by
<1>1. /\ UNCHANGED <<bounty, reads, outdated, early>> /\ jobs' = jobs \ {job}
      /\ lists' = Appended(b, u) /\ made' = made \cup {[bounty |-> b, by |-> u]}
      /\ HasMade(job) /\ Live' = Live
  BY DEF Timer, Done, contract, HasMade, Live
<1>2. b \in Live /\ u \in Accounts /\ b \in Unlisted /\ b \in Bounties
  BY <1>1 DEF JobsInv, JobOK, Unlisted, HasMade, Live
<1>3. ASSUME NEW k \in Keys
      PROVE  lists'[k] = IF k \in {None, u} /\ lists[k] # Missing
                         THEN [lists[k] EXCEPT ![b] = @ + 1] ELSE lists[k]
  BY <1>1 DEF Appended
<1>4. ASSUME NEW k \in Keys, lists'[k] # Missing
      PROVE  /\ lists[k] # Missing /\ lists'[k] \in [Bounties -> Nat]
             /\ \A c \in Bounties \ {b} : lists'[k][c] = lists[k][c]
             /\ lists'[k][b] \in {lists[k][b], lists[k][b] + 1}
             /\ k \in {None, u} => lists'[k][b] = lists[k][b] + 1
  <2>1. lists[k] # Missing
    BY <1>3, <1>4
  <2>2. lists[k] \in [Bounties -> Nat]
    BY <2>1 DEF ListsType
  <2>3. CASE k \in {None, u}
    <3>1. lists'[k] = [lists[k] EXCEPT ![b] = @ + 1]
      BY <1>3, <2>1, <2>3
    <3> HIDE DEF b, u
    <3>2. lists'[k][b] = lists[k][b] + 1
      BY <1>2, <2>2, <3>1
    <3>3. lists'[k] \in [Bounties -> Nat] /\ \A c \in Bounties \ {b} : lists'[k][c] = lists[k][c]
      BY <1>2, <2>2, <3>1
    <3> QED BY <2>1, <2>3, <3>2, <3>3
  <2>4. CASE k \notin {None, u}
    BY <1>3, <2>1, <2>2, <2>4
  <2> QED BY <2>3, <2>4
<1> HIDE DEF b, u
<1>5. ContractType' /\ JobsInv' /\ Distinct'
  BY <1>1 DEF ContractType, JobsInv, JobOK, Shape, HasMade, Distinct
<1>6. ListsType'
  <2>1. lists' = [k \in Keys |-> lists'[k]]
    BY <1>1 DEF Appended
  <2> QED BY <1>4, <2>1 DEF ListsType
<1>7. OnlyLive'
  <2>1. \A k \in Keys : \A c \in Bounties : lists'[k] # Missing /\ lists'[k][c] > 0 => c \in Live
    BY <1>2, <1>4 DEF OnlyLive
  <2> QED BY <1>1, <1>2, <2>1 DEF OnlyLive
<1>8. Unlisted' \subseteq Unlisted \ {b}
  BY <1>1 DEF Unlisted, Distinct, HasMade, b
<1>9. Once'
  <2> SUFFICES ASSUME NEW k \in Keys, NEW c \in Bounties, lists'[k] # Missing, <<k, c>> \notin early
               PROVE  lists'[k][c] <= 1 /\ (c \in Unlisted' => lists'[k][c] = 0)
    BY <1>1 DEF Once
  <2>1. lists[k][c] <= 1 /\ (c \in Unlisted => lists[k][c] = 0) /\ lists[k][c] \in Nat
    BY <1>4 DEF Once, ListsType
  <2>2. CASE c = b
    BY <1>2, <1>4, <1>8, <2>1, <2>2
  <2>3. CASE c # b
    BY <1>4, <1>8, <2>1, <2>3
  <2> QED BY <2>2, <2>3
<1>10. CreatedIsListed'
  <2> SUFFICES ASSUME NEW m \in made', NEW k \in {None, m.by}, lists'[k] # Missing, k \notin outdated,
                      k = None \/ bounty[m.bounty].owner = k
               PROVE  lists'[k][m.bounty] > 0
    BY <1>1 DEF CreatedIsListed
  <2>1. k \in Keys /\ m.bounty \in Bounties
    BY <1>1, <1>2 DEF OnlyLive, Keys, Live
  <2>2. lists[k] # Missing /\ lists[k] \in [Bounties -> Nat]
    BY <1>4, <2>1 DEF ListsType
  <2>3. CASE m \in made
    BY <1>4, <2>1, <2>2, <2>3 DEF CreatedIsListed
  <2>4. CASE m = [bounty |-> b, by |-> u]
    BY <1>2, <1>4, <2>1, <2>2, <2>4
  <2> QED BY <1>1, <2>3, <2>4
<1> QED BY <1>5, <1>6, <1>7, <1>9, <1>10

\* Every step of a submission.
LEMMA JobKeeps ==
  ASSUME ListInv, NEW job \in jobs, JobSteps(job)
  PROVE  ListInv'
<1> USE DEF ListInv
<1>1. CASE Sign(job)
  <2> DEFINE new == [job EXCEPT !.stage = "signed"]
  <2>1. new.stage = "signed"
    BY DEF JobsInv, JobOK, Shape
  <2>2. JobOK(new) /\ ~HasMade(new)
    BY <2>1, StageKeeps DEF HasMade
  <2>3. jobs' = (jobs \ {job}) \cup {new} /\ UNCHANGED <<contract, lists, reads, history>>
    BY <1>1 DEF Sign, Step, cached
  <2>4. \A j \in jobs' : JobOK(j) /\ (HasMade(j) => j \in jobs)
    BY <2>2, <2>3 DEF JobsInv
  <2> QED BY <2>3, <2>4, JobsShrink
<1>2. CASE Decline(job) \/ Abort(job) \/ WaitFails(job)
  <2>1. jobs' = jobs \ {job} /\ UNCHANGED <<contract, lists, reads, history>>
    BY <1>2 DEF Decline, Abort, WaitFails, Done, cached
  <2> QED BY <2>1, JobsShrink DEF JobsInv
<1>3. CASE Execute(job)
  BY <1>3, ExecuteKeeps
<1>4. CASE onSuccess(job)
  <2> DEFINE new == [job EXCEPT !.stage = "timer"]
  <2>1. /\ jobs' = (jobs \ {job}) \cup {new} /\ HasMade(job)
        /\ UNCHANGED <<bounty, lists, reads, made, outdated, early>> /\ Live' = Live
    BY <1>4 DEF onSuccess, Step, contract, cached, history, HasMade, Live
  <2>2. JobOK(new) /\ new.bounty = job.bounty /\ new.stage = "timer"
    BY <2>1, StageKeeps
  <2> HIDE DEF new
  <2>3. JobsInv'
    BY <2>1, <2>2 DEF JobsInv, JobOK, Shape, HasMade
  <2>4. Distinct'
    BY <2>1, <2>2 DEF Distinct, HasMade
  <2>5. Unlisted' \subseteq Unlisted
    BY <2>1, <2>2 DEF Unlisted, HasMade
  <2>6. Once'
    BY <2>1, <2>5 DEF Once
  <2>7. ContractType' /\ ListsType' /\ OnlyLive' /\ CreatedIsListed'
    BY <2>1 DEF ContractType, ListsType, OnlyLive, CreatedIsListed
  <2> QED BY <2>3, <2>4, <2>6, <2>7
<1>5. CASE Timer(job)
  BY <1>5, TimerKeeps
<1> QED BY <1>1, <1>2, <1>3, <1>4, <1>5 DEF JobSteps

LEMMA ReloadKeeps ==
  ASSUME ListInv, Reloaded
  PROVE  ListInv'
BY DEF Reloaded, contract, ListInv, ContractType, Live, JobsInv, Distinct, ListsType, OnlyLive, Once,
       CreatedIsListed

LEMMA ListStep ==
  ASSUME ListInv, UserTyped, [PageNext]_allVars
  PROVE  ListInv'
<1>1. CASE Session /\ UNCHANGED bountyVars
  BY <1>1, ListStutter DEF bountyVars, contract, cached
<1>2. CASE Reloaded
  BY <1>2, ReloadKeeps
<1>3. CASE Others
  BY <1>3, OthersKeep
<1>4. CASE \E k \in Keys : FetchIds(k) \/ LandIds(k) \/ FetchFails(k)
  BY <1>4, FetchKeeps
<1>5. CASE FetchPackages
  BY <1>5, ListStutter DEF FetchPackages, contract
<1>6. CASE \E p \in Packages : onSubmit(p)
  BY <1>6, SubmitKeeps
<1>7. CASE \E job \in jobs : JobSteps(job)
  BY <1>7, JobKeeps
<1>8. CASE UNCHANGED allVars
  BY <1>8, ListStutter DEF allVars, bountyVars, contract, cached
<1> QED BY <1>1, <1>2, <1>3, <1>4, <1>5, <1>6, <1>7, <1>8 DEF PageNext

LEMMA ListAlways == PageSpec => []ListInv
<1>1. ListInv /\ UserTyped /\ [PageNext]_allVars => ListInv'
  BY ListStep
<1> QED BY <1>1, ListInit, UserTypedAlways, PTL DEF PageSpec

\* The bounties this page made are in its lists, of all and of the account each
\* was made for, and no list has one twice but for one fetched with it before
\* the timer appends it again: the timer of createBugBounty.ts does no harm, in
\* whatever order it, the fetches and a switch of the user come.
THEOREM ListsTheorem == PageSpec => []ListsAreRight
<1>1. ListInv => CreatedIsListed
  BY DEF ListInv
<1>2. ListInv => ListedOnce
  BY DEF ListInv, Once, ListsType, ListedOnce
<1>3. ListInv => ListsAreRight
  BY <1>1, <1>2 DEF ListsAreRight
<1> QED BY <1>3, ListAlways, PTL

-----------------------------------------------------------------------------
(* What the button makes *)

\* A submission has the cap that its list of packages named.
Named(j) == Shape(j) /\ j.cap \in upgradeCapIds(j.package, j.seen)

NamedInv == \A j \in jobs : Named(j)

CapsTyped == cap \in [Caps -> [package : Packages, holder : Accounts]]

LEMMA CapsStep ==
  ASSUME CapsTyped, [PageNext]_allVars
  PROVE  CapsTyped'
<1>1. ASSUME NEW c \in Caps, NEW p \in Packages, NEW u \in Accounts, MoveCap(c, p, u)
      PROVE  CapsTyped'
  BY <1>1 DEF MoveCap, CapsTyped
<1>2. CASE UNCHANGED cap
  BY <1>2 DEF CapsTyped
<1>3. CASE Others
  BY <1>1, <1>2, <1>3 DEF Others, approve, Give
<1>4. ASSUME NEW job \in jobs, JobSteps(job) PROVE UNCHANGED cap
  BY <1>4 DEF JobSteps, Sign, Decline, Execute, Abort, WaitFails, onSuccess, Timer, contract
<1>5. ASSUME PageNext, ~Others, ~\E job \in jobs : JobSteps(job) PROVE UNCHANGED cap
  BY <1>5 DEF PageNext, bountyVars, contract, Reloaded, FetchIds, LandIds, FetchFails,
              FetchPackages, onSubmit
<1>6. UNCHANGED allVars => UNCHANGED cap
  BY DEF allVars, bountyVars, contract
<1> QED BY <1>2, <1>3, <1>4, <1>5, <1>6

LEMMA NamedStage ==
  ASSUME NEW j, Named(j), NEW s
  PROVE  Named([j EXCEPT !.stage = s])
<1> DEFINE new == [j EXCEPT !.stage = s]
<1>1. Shape(new) /\ new.cap = j.cap /\ new.package = j.package /\ new.seen = j.seen
  BY DEF Named, Shape
<1> HIDE DEF new
<1>2. Named(new)
  BY <1>1 DEF Named
<1> QED BY <1>2 DEF new

LEMMA NamedBounty ==
  ASSUME NEW j, Named(j), NEW b
  PROVE  Named([j EXCEPT !.stage = "executed", !.bounty = b])
<1> DEFINE mid == [j EXCEPT !.stage = "executed"]
           new == [mid EXCEPT !.bounty = b]
<1>1. Named(mid)
  BY NamedStage
<1>2. [j EXCEPT !.stage = "executed", !.bounty = b] = new
  OBVIOUS
<1> HIDE DEF mid
<1>3. Shape(new) /\ new.cap = mid.cap /\ new.package = mid.package /\ new.seen = mid.seen
  BY <1>1 DEF Named, Shape
<1> HIDE DEF new
<1>4. Named(new)
  BY <1>1, <1>3 DEF Named
<1> QED BY <1>2, <1>4

LEMMA NamedStep ==
  ASSUME NamedInv, [PageNext]_allVars
  PROVE  NamedInv'
<1>0. CASE \A j \in jobs' : j \in jobs \/ Named(j)
  BY <1>0 DEF NamedInv, Named, Shape, upgradeCapIds
<1>1. ASSUME NEW p \in Packages, onSubmit(p) PROVE NamedInv'
  <2>1. PICK c \in upgradeCapIds(p, packages[user]) :
          jobs' = jobs \cup {[id |-> NewId, by |-> user, wallet |-> wallet, package |-> p, cap |-> c,
                              seen |-> packages[user], bounty |-> None, stage |-> "built"]}
    BY <1>1 DEF onSubmit
  <2>2. Named([id |-> NewId, by |-> user, wallet |-> wallet, package |-> p, cap |-> c,
               seen |-> packages[user], bounty |-> None, stage |-> "built"])
    BY DEF Named, Shape
  <2> QED BY <1>0, <2>1, <2>2
<1>2. ASSUME NEW job \in jobs, JobSteps(job) PROVE NamedInv'
  <2>0. Named(job)
    BY DEF NamedInv
  <2>1. CASE Sign(job) \/ onSuccess(job)
    <3>1. PICK s : Step(job, [job EXCEPT !.stage = s])
      BY <2>1 DEF Sign, onSuccess
    <3> QED BY <1>0, <2>0, <3>1, NamedStage DEF Step
  <2>2. CASE Execute(job)
    <3>1. PICK b : Step(job, [job EXCEPT !.stage = "executed", !.bounty = b])
      BY <2>2 DEF Execute
    <3> DEFINE new == [job EXCEPT !.stage = "executed", !.bounty = b]
    <3>2. Named(new)
      BY <2>0, NamedBounty
    <3>3. jobs' = (jobs \ {job}) \cup {new}
      BY <3>1 DEF Step
    <3> HIDE DEF new
    <3> QED BY <1>0, <3>2, <3>3
  <2>3. CASE Done(job)
    BY <1>0, <2>3 DEF Done
  <2> QED BY <1>2, <2>1, <2>2, <2>3 DEF JobSteps, Decline, Abort, WaitFails, Timer
<1>3. CASE Reloaded
  BY <1>0, <1>3 DEF Reloaded
<1>4. CASE UNCHANGED jobs
  BY <1>0, <1>4
<1>5. (Session /\ UNCHANGED bountyVars) \/ Others \/ UNCHANGED allVars => UNCHANGED jobs
  BY DEF bountyVars, Others, allVars
<1>6. FetchPackages \/ (\E k \in Keys : FetchIds(k) \/ LandIds(k) \/ FetchFails(k)) => UNCHANGED jobs
  BY DEF FetchPackages, FetchIds, LandIds, FetchFails
<1> QED BY <1>1, <1>2, <1>3, <1>4, <1>5, <1>6 DEF PageNext

LEMMA ApprovedHere ==
  ASSUME ListInv, NamedInv, CapsTyped, NEW job \in jobs, Execute(job),
         job.seen = UpgradeCaps(job.by)
  PROVE  \E b \in Bounties : /\ bounty[b] = Free
                             /\ bounty'[b].owner = job.by
                             /\ bounty'[b].approved <=>
                                  \E c \in Caps : MayApprove(job.package, c, job.by)
<1>1. PICK b \in Bounties : create_v1(b, job.package, job.by, job.cap # None)
  BY DEF Execute
<1>2. bounty[b] = Free /\ bounty'[b] = [package |-> job.package, owner |-> job.by,
                                        approved |-> job.cap # None]
  BY <1>1 DEF create_v1, ListInv, ContractType
<1>3. bounty'[b].owner = job.by /\ (bounty'[b].approved <=> job.cap # None)
  <2>1. bounty'[b].owner = job.by
    BY <1>2
  <2>2. bounty'[b].approved = (job.cap # None)
    <3> DEFINE a == job.cap # None
    <3>1. bounty'[b] = [package |-> job.package, owner |-> job.by, approved |-> a]
      BY <1>2, Zenon
    <3> HIDE DEF a
    <3>2. bounty'[b].approved = a
      BY <3>1
    <3> QED BY <3>2, Zenon DEF a
  <2> QED BY <2>1, <2>2, Zenon
<1> DEFINE found == {e \in job.seen : e.packageId = job.package}
<1>4. job.seen # Missing
  <2>1. job.seen \in SUBSET [packageId : Packages, upgradeCapId : Caps]
    BY DEF UpgradeCaps, CapsTyped
  <2> QED BY <2>1, BountyAssumption
<1>5. job.cap \in IF found = {} THEN {None} ELSE {e.upgradeCapId : e \in found}
  BY <1>4 DEF NamedInv, Named, upgradeCapIds
<1>6. ASSUME NEW e \in found PROVE e.upgradeCapId \in Caps /\ MayApprove(job.package, e.upgradeCapId, job.by)
  BY <1>6 DEF UpgradeCaps, MayApprove
<1>7. ASSUME NEW c \in Caps, MayApprove(job.package, c, job.by) PROVE found # {}
  <2>1. [packageId |-> cap[c].package, upgradeCapId |-> c] \in found
    BY <1>7 DEF UpgradeCaps, MayApprove
  <2> QED BY <2>1
<1> HIDE DEF found
<1>8. job.cap # None => \E c \in Caps : MayApprove(job.package, c, job.by)
  BY <1>5, <1>6
<1>9. (\E c \in Caps : MayApprove(job.package, c, job.by)) => job.cap # None
  BY <1>5, <1>6, <1>7, BountyAssumption
<1>10. bounty'[b].approved <=> \E c \in Caps : MayApprove(job.package, c, job.by)
  BY <1>3, <1>8, <1>9, Zenon
<1> QED BY <1>2, <1>3, <1>10

\* A bounty is approved exactly if its owner holds the upgrade cap of the
\* package, when the list of packages is still true: createBugBounty.ts approves
\* with the cap of that list or not at all.
THEOREM ApprovedTheorem == PageSpec => ApprovedIfHeld
<1>1. PageInit => NamedInv /\ CapsTyped
  BY DEF PageInit, NamedInv, CapsTyped
<1>2. NamedInv /\ CapsTyped /\ [PageNext]_allVars => NamedInv' /\ CapsTyped'
  BY NamedStep, CapsStep
<1>3. ListInv /\ NamedInv /\ CapsTyped /\ [PageNext]_allVars =>
        [\A job \in jobs : Execute(job) /\ job.seen = UpgradeCaps(job.by) =>
           \E b \in Bounties : /\ bounty[b] = Free
                               /\ bounty'[b].owner = job.by
                               /\ bounty'[b].approved <=>
                                    \E c \in Caps : MayApprove(job.package, c, job.by)]_allVars
  BY ApprovedHere
<1> QED BY <1>1, <1>2, <1>3, ListAlways, PTL DEF PageSpec, ApprovedIfHeld

-----------------------------------------------------------------------------
(* The state of the pages *)

WalletRest ==
  /\ status \in Statuses /\ news \subseteq Wallets /\ events \in Nat
  /\ listening \in BOOLEAN /\ missed \in BOOLEAN
  /\ stray \in BOOLEAN /\ emptied \subseteq Wallets /\ off \in BOOLEAN

QueriesTyped ==
  /\ DOMAIN reads \subseteq Keys /\ DOMAIN packages = Accounts
  /\ \A u \in Accounts : packages[u] = Missing \/ packages[u] \subseteq Entry

\* What a submission keeps from its start, and its stage.
JobTyped(j) ==
  /\ Shape(j)
  /\ j.id \in Nat /\ j.wallet \in Wallets /\ j.cap \in Caps \cup {None}
  /\ j.seen \in {Missing} \cup SUBSET Entry /\ j.bounty \in Bounties \cup {None}
  /\ j.stage \in {"built", "signed", "executed", "timer"}

\* The form waits for one submission only.
Waiting(j) == j.stage # "timer"

SubmissionsTyped ==
  /\ IsFiniteSet(jobs)
  /\ \A j \in jobs : JobTyped(j)
  /\ \A i, j \in jobs : Waiting(i) /\ Waiting(j) => i = j

RestInv == WalletRest /\ QueriesTyped /\ SubmissionsTyped

\* One of the first ids is not taken.
LEMMA NewIdIsNat == ASSUME IsFiniteSet(jobs) PROVE NewId \in Nat
<1> DEFINE n == Cardinality(jobs)
           ids == {j.id : j \in jobs}
           f == [j \in jobs |-> j.id]
<1>1. n \in Nat
  BY FS_CardinalityType
<1>2. IsFiniteSet(ids) /\ Cardinality(ids) <= n
  <2>1. f \in Surjection(jobs, ids)
    BY DEF Surjection
  <2> HIDE DEF f, ids
  <2> QED BY <2>1, FS_Surjection
<1>3. \E id \in 1 .. n + 1 : id \notin ids
  <2>1. IsFiniteSet(1 .. n + 1) /\ Cardinality(1 .. n + 1) = n + 1
    <3>1. 1 \in Int /\ n + 1 \in Int /\ ~(1 > n + 1) /\ (n + 1) - 1 + 1 = n + 1
      BY <1>1
    <3> QED BY <3>1, FS_Interval
  <2> HIDE DEF n, ids
  <2>2. ~((1 .. n + 1) \subseteq ids)
    <3> SUFFICES ASSUME (1 .. n + 1) \subseteq ids PROVE FALSE
      OBVIOUS
    <3>1. Cardinality(1 .. n + 1) <= Cardinality(ids)
      BY <1>2, FS_Subset
    <3>2. Cardinality(ids) \in Nat
      BY <1>2, FS_CardinalityType
    <3> QED BY <1>1, <1>2, <2>1, <3>1, <3>2
  <2> QED BY <2>2
<1>4. \E id \in 1 .. n + 1 : \A j \in jobs : j.id # id
  BY <1>3
<1>5. NewId \in 1 .. n + 1
  BY <1>4, Zenon DEF NewId
<1> QED BY <1>1, <1>5

LEMMA RestInit == PageInit => RestInv
<1>1. PageInit => WalletRest
  <2> SUFFICES ASSUME PageInit PROVE WalletRest
    OBVIOUS
  <2>1. /\ status = (IF wallet = None THEN "not-connected" ELSE "connecting")
        /\ news = {} /\ events = 0 /\ emptied = {} /\ stray = FALSE /\ off = FALSE
        /\ listening = FALSE /\ missed = FALSE
    BY DEF PageInit, WalletInit
  <2>2. status \in Statuses /\ events \in Nat
    BY <2>1 DEF Statuses
  <2>3. stray \in BOOLEAN /\ off \in BOOLEAN /\ listening \in BOOLEAN /\ missed \in BOOLEAN
    BY <2>1, Zenon
  <2> QED BY <2>1, <2>2, <2>3, Zenon DEF WalletRest
<1>2. PageInit => QueriesTyped
  BY DEF PageInit, QueriesTyped
<1>3. PageInit => SubmissionsTyped
  <2> SUFFICES ASSUME PageInit PROVE SubmissionsTyped
    OBVIOUS
  <2>1. jobs = {}
    BY DEF PageInit
  <2> QED BY <2>1, FS_EmptySet DEF SubmissionsTyped
<1> QED BY <1>1, <1>2, <1>3 DEF RestInv

\* The session keeps the types of what it counts and remembers.
LEMMA WalletRestStep ==
  ASSUME WalletRest, [PageNext]_allVars
  PROVE  WalletRest'
<1>e. (Event \/ UNCHANGED events) => events' \in Nat
  BY DEF Event, WalletRest
<1>b. ASSUME NEW s \in Statuses, NEW w, NEW cs, Become(s, w, cs) PROVE status' \in Statuses
  BY <1>b DEF Become, Statuses
<1>s. {"not-connected", "disconnected", "connecting", "connected"} \subseteq Statuses
  BY DEF Statuses
<1>g. ASSUME NEW w \in Wallets, NEW A, Grant(w, A) PROVE news' \subseteq Wallets
  BY <1>g DEF Grant, WalletRest
<1>f. ASSUME NEW u, Follow(u) \/ SetUser(u) PROVE listening' \in BOOLEAN /\ missed' \in BOOLEAN
  BY <1>f, Zenon DEF Follow, SetUser, WalletRest
<1>1. ASSUME NEW w \in Wallets, SelectWallet(w) PROVE WalletRest'
  BY <1>1, <1>e, <1>b, <1>s, <1>f DEF SelectWallet, WalletRest
<1>2. ASSUME NEW w \in Wallets, NEW A, Connected(w, A) PROVE WalletRest'
  <2>1. status' \in Statuses
    BY <1>2, <1>b, <1>s DEF Connected
  <2>2. listening' \in BOOLEAN /\ missed' \in BOOLEAN
    <3>1. CASE UNCHANGED listening /\ missed' = (missed /\ w # wallet)
      BY <3>1, Zenon DEF WalletRest
    <3>2. CASE \E u : Follow(u)
      BY <3>2, <1>f
    <3> QED BY <1>2, <3>1, <3>2 DEF Connected
  <2> QED BY <1>2, <1>g, <2>1, <2>2 DEF Connected, WalletRest
<1>3. ASSUME NEW w \in Wallets, Refused(w) PROVE WalletRest'
  BY <1>3, <1>b, <1>s DEF Refused, WalletRest
<1>4. ASSUME NEW w \in Wallets, NEW k \in CallKinds, Disconnected(w, k) PROVE WalletRest'
  <2>1. status' \in Statuses
    BY <1>4, <1>b, <1>s DEF Disconnected
  <2>2. listening' \in BOOLEAN /\ missed' \in BOOLEAN
    BY <1>4, <1>f DEF Disconnected
  <2> QED BY <1>4, <1>g, <2>1, <2>2 DEF Disconnected, WalletRest
<1>5. ASSUME NEW w \in Wallets, onChange(w) PROVE WalletRest'
  <2>1. listening' \in BOOLEAN /\ missed' \in BOOLEAN
    BY <1>5, <1>f DEF onChange, WalletRest
  <2> QED BY <1>5, <2>1 DEF onChange, WalletRest
<1>6. ASSUME NEW w \in Wallets, NEW A, ChangeAccounts(w, A) PROVE WalletRest'
  <2>1. listening' \in BOOLEAN /\ missed' \in BOOLEAN
    BY <1>6, Zenon DEF ChangeAccounts, page, WalletRest
  <2> QED BY <1>6, <1>e, <1>g, <2>1 DEF ChangeAccounts, page, WalletRest
<1>7. CASE connect
  BY <1>7, <1>e, <1>b, <1>s DEF connect, WalletRest
<1>8. CASE disconnect
  <2>1. listening' \in BOOLEAN /\ missed' \in BOOLEAN
    BY <1>8, <1>f DEF disconnect, WalletRest
  <2>2. off' \in BOOLEAN
    BY <1>8, Zenon DEF disconnect, WalletRest
  <2> QED BY <1>8, <1>e, <1>b, <1>s, <2>1, <2>2 DEF disconnect, WalletRest
<1>9. CASE Reload
  <2>1. PICK w \in {wallet, None}, u \in Accounts \cup {None} : Opened(w, u)
    BY <1>9 DEF Reload
  <2>2. status' \in Statuses
    BY <2>1, <1>b, <1>s DEF Opened
  <2> QED BY <1>9, <1>e, <1>f, <2>1, <2>2 DEF Opened, Reload, WalletRest
<1>10. CASE UNCHANGED session
  <2>1. Event \/ UNCHANGED events
    BY <1>10 DEF PageNext, allVars, walletVars, Session, Reloaded, Reload, Others, FetchIds, LandIds,
        FetchFails, FetchPackages, onSubmit, JobSteps, Sign, Decline, Execute, Abort, WaitFails,
        onSuccess, Timer, SelectWallet, connect, disconnect, ChangeAccounts, Answers, Connected,
        Refused, Disconnected, onChange, Navigate
  <2> QED BY <1>10, <1>e, <2>1 DEF session, page, extension, WalletRest
<1>11. CASE Navigate
  BY <1>11, <1>f DEF Navigate, WalletRest
<1>12. CASE WalletNext
  BY <1>1, <1>2, <1>3, <1>4, <1>5, <1>6, <1>7, <1>8, <1>9, <1>12, <1>11 DEF WalletNext, Session, Answers
<1> QED BY <1>10, <1>12, PageStep

LEMMA QueriesStep ==
  ASSUME QueriesTyped, CapsTyped, UserTyped, [PageNext]_allVars
  PROVE  QueriesTyped'
<1>1. ASSUME UNCHANGED packages, DOMAIN reads' \subseteq Keys PROVE QueriesTyped'
  BY <1>1 DEF QueriesTyped
<1>2. ASSUME NEW k \in Keys, FetchIds(k) \/ LandIds(k) \/ FetchFails(k) PROVE QueriesTyped'
  BY <1>1, <1>2 DEF FetchIds, LandIds, FetchFails, Without, QueriesTyped
<1>3. CASE FetchPackages
  <2>1. user \in Accounts /\ packages' = [packages EXCEPT ![user] = UpgradeCaps(user)]
        /\ UNCHANGED reads
    BY <1>3 DEF FetchPackages, UserTyped
  <2>2. UpgradeCaps(user) \subseteq Entry
    BY DEF UpgradeCaps, CapsTyped, Entry
  <2> QED BY <2>1, <2>2 DEF QueriesTyped
<1>4. CASE Reloaded
  BY <1>4 DEF Reloaded, QueriesTyped
<1>5. CASE UNCHANGED <<reads, packages>>
  BY <1>1, <1>5 DEF QueriesTyped
<1>6. (Session /\ UNCHANGED bountyVars) \/ Others \/ UNCHANGED allVars
        \/ (\E p \in Packages : onSubmit(p)) => UNCHANGED <<reads, packages>>
  BY DEF bountyVars, cached, Others, allVars, onSubmit
<1>7. ASSUME NEW job \in jobs, JobSteps(job) PROVE UNCHANGED <<reads, packages>>
  BY <1>7 DEF JobSteps, Sign, Decline, Execute, Abort, WaitFails, onSuccess, Timer, cached
<1> QED BY <1>2, <1>3, <1>4, <1>5, <1>6, <1>7 DEF PageNext

\* A submission that takes a step stays typed, and the others as they are.
LEMMA JobMoves ==
  ASSUME SubmissionsTyped, NEW job \in jobs, NEW new, Step(job, new), JobTyped(new),
         Waiting(new) => Waiting(job)
  PROVE  SubmissionsTyped'
<1>1. jobs' = (jobs \ {job}) \cup {new}
  BY DEF Step
<1>2. IsFiniteSet(jobs')
  BY <1>1, FS_RemoveElement, FS_AddElement DEF SubmissionsTyped
<1> QED BY <1>1, <1>2 DEF SubmissionsTyped, JobTyped, Shape, Waiting

LEMMA JobEnds ==
  ASSUME SubmissionsTyped, NEW job \in jobs, Done(job)
  PROVE  SubmissionsTyped'
<1>1. IsFiniteSet(jobs')
  BY FS_RemoveElement DEF SubmissionsTyped, Done
<1> QED BY <1>1 DEF SubmissionsTyped, Done, JobTyped, Shape, Waiting

LEMMA TypedStage ==
  ASSUME NEW j, JobTyped(j), NEW s \in {"built", "signed", "executed", "timer"}
  PROVE  LET new == [j EXCEPT !.stage = s] IN JobTyped(new) /\ new.stage = s
<1> DEFINE new == [j EXCEPT !.stage = s]
<1>1. /\ Shape(new) /\ new.id = j.id /\ new.wallet = j.wallet /\ new.cap = j.cap
      /\ new.seen = j.seen /\ new.bounty = j.bounty /\ new.stage = s
  BY DEF JobTyped, Shape
<1> HIDE DEF new
<1>2. JobTyped(new) /\ new.stage = s
  BY <1>1 DEF JobTyped
<1> QED BY <1>2 DEF new

LEMMA TypedBounty ==
  ASSUME NEW j, JobTyped(j), NEW b \in Bounties
  PROVE  JobTyped([j EXCEPT !.stage = "executed", !.bounty = b])
<1> DEFINE mid == [j EXCEPT !.stage = "executed"]
           new == [mid EXCEPT !.bounty = b]
<1>1. JobTyped(mid)
  BY TypedStage
<1>2. [j EXCEPT !.stage = "executed", !.bounty = b] = new
  OBVIOUS
<1> HIDE DEF mid
<1>3. /\ Shape(new) /\ new.id = mid.id /\ new.wallet = mid.wallet /\ new.cap = mid.cap
      /\ new.seen = mid.seen /\ new.bounty = b /\ new.stage = mid.stage
  BY <1>1 DEF JobTyped, Shape
<1> HIDE DEF new
<1>4. JobTyped(new)
  BY <1>1, <1>3 DEF JobTyped
<1> QED BY <1>2, <1>4

LEMMA SubmissionsStep ==
  ASSUME SubmissionsTyped, QueriesTyped, Typed, UserTyped, [PageNext]_allVars
  PROVE  SubmissionsTyped'
<1>1. ASSUME NEW p \in Packages, onSubmit(p) PROVE SubmissionsTyped'
  <2>1. PICK c \in upgradeCapIds(p, packages[user]) :
          jobs' = jobs \cup {[id |-> NewId, by |-> user, wallet |-> wallet, package |-> p, cap |-> c,
                              seen |-> packages[user], bounty |-> None, stage |-> "built"]}
    BY <1>1 DEF onSubmit
  <2> DEFINE new == [id |-> NewId, by |-> user, wallet |-> wallet, package |-> p, cap |-> c,
                     seen |-> packages[user], bounty |-> None, stage |-> "built"]
  <2>2. user \in Accounts /\ status = "connected" /\ \A j \in jobs : ~Waiting(j)
    BY <1>1 DEF onSubmit, CreateOffered, isSubmitting, Waiting, UserTyped
  <2>3. wallet \in Wallets
    BY <2>2 DEF Typed, NoWallet
  <2>4. packages[user] \in {Missing} \cup SUBSET Entry
    BY <2>2 DEF QueriesTyped
  <2>5. c \in Caps \cup {None}
    BY <2>4 DEF upgradeCapIds, Entry
  <2>6. NewId \in Nat
    BY NewIdIsNat DEF SubmissionsTyped
  <2>7. JobTyped(new)
    BY <2>3, <2>4, <2>5, <2>6 DEF JobTyped, Shape
  <2>8. IsFiniteSet(jobs')
    BY <2>1, FS_AddElement DEF SubmissionsTyped
  <2> HIDE DEF new
  <2> QED BY <2>1, <2>2, <2>7, <2>8 DEF new, SubmissionsTyped, JobTyped, Shape, Waiting
<1>2. ASSUME NEW job \in jobs, JobSteps(job) PROVE SubmissionsTyped'
  <2>0. JobTyped(job)
    BY DEF SubmissionsTyped
  <2>1. CASE Sign(job)
    <3>1. Step(job, [job EXCEPT !.stage = "signed"]) /\ job.stage = "built"
      BY <2>1 DEF Sign
    <3> QED BY <2>0, <3>1, TypedStage, JobMoves DEF Waiting
  <2>2. CASE onSuccess(job)
    <3>1. Step(job, [job EXCEPT !.stage = "timer"]) /\ job.stage = "executed"
      BY <2>2 DEF onSuccess
    <3> QED BY <2>0, <3>1, TypedStage, JobMoves DEF Waiting
  <2>3. CASE Execute(job)
    <3>1. PICK b \in Bounties : Step(job, [job EXCEPT !.stage = "executed", !.bounty = b])
      BY <2>3 DEF Execute
    <3>2. Waiting(job)
      BY <2>3 DEF Execute, Waiting
    <3> QED BY <2>0, <3>1, <3>2, TypedBounty, JobMoves
  <2>4. CASE Done(job)
    BY <2>4, JobEnds
  <2> QED BY <1>2, <2>1, <2>2, <2>3, <2>4 DEF JobSteps, Decline, Abort, WaitFails, Timer
<1>3. CASE Reloaded
  BY <1>3, FS_EmptySet DEF Reloaded, SubmissionsTyped
<1>4. CASE UNCHANGED jobs
  BY <1>4 DEF SubmissionsTyped, JobTyped, Shape, Waiting
<1>5. (Session /\ UNCHANGED bountyVars) \/ Others \/ UNCHANGED allVars => UNCHANGED jobs
  BY DEF bountyVars, Others, allVars
<1>6. FetchPackages \/ (\E k \in Keys : FetchIds(k) \/ LandIds(k) \/ FetchFails(k)) => UNCHANGED jobs
  BY DEF FetchPackages, FetchIds, LandIds, FetchFails
<1> QED BY <1>1, <1>2, <1>3, <1>4, <1>5, <1>6 DEF PageNext

\* Two waiting submissions are one.
LEMMA OneWaits ==
  ASSUME SubmissionsTyped
  PROVE  Cardinality({j \in jobs : Waiting(j)}) <= 1
<1> DEFINE W == {j \in jobs : Waiting(j)}
<1>1. CASE W = {}
  BY <1>1, FS_EmptySet
<1>2. CASE W # {}
  <2>1. PICK j : j \in W
    BY <1>2
  <2>2. W = {j}
    BY <2>1 DEF SubmissionsTyped
  <2> HIDE DEF W
  <2> QED BY <2>2, FS_Singleton DEF W
<1> QED BY <1>1, <1>2

LEMMA PageIsTyped ==
  ASSUME Typed, UserTyped, CapsTyped, ListInv, RestInv
  PROVE  PageTypeOK
<1>1. WalletTypeOK
  BY DEF Typed, CallsType, UserTyped, RestInv, WalletRest, WalletTypeOK
<1>2. \A b \in Bounties : bounty[b] = Free \/ bounty[b] \in BountyRecord
  BY DEF ListInv, ContractType, Live
<1>3. /\ DOMAIN lists = Keys
      /\ \A k \in Keys : lists[k] = Missing \/ lists[k] \in [Bounties -> Nat]
  BY DEF ListInv, ListsType
<1>4. \A k \in DOMAIN reads : reads[k] \subseteq Live
  BY DEF ListInv, OnlyLive
<1>5. Unlisted \subseteq Live
  BY DEF Unlisted, ListInv, JobsInv, JobOK, HasMade
<1>6. jobs \subseteq Job
  <2>1. ASSUME NEW j \in jobs PROVE j \in Job
    <3>1. JobTyped(j) /\ j.by \in Accounts /\ j.package \in Packages
      BY DEF RestInv, SubmissionsTyped, ListInv, JobsInv, JobOK
    <3> QED BY <3>1 DEF JobTyped, Shape, Job
  <2> QED BY <2>1
<1>7. Cardinality({j \in jobs : j.stage # "timer"}) <= 1
  BY OneWaits DEF RestInv, Waiting
<1> QED BY <1>1, <1>2, <1>3, <1>4, <1>5, <1>6, <1>7
        DEF PageTypeOK, RestInv, QueriesTyped, CapsTyped, BountyRecord

\* The state of the pages stays well typed, whatever wallets, users, answers and
\* timers do; and the form has one submission at a time (isSubmitting, new.tsx).
THEOREM PageTyping == PageSpec => []PageTypeOK
<1>1. PageInit => CapsTyped
  BY DEF PageInit, CapsTyped
<1>2. CapsTyped /\ [PageNext]_allVars => CapsTyped'
  BY CapsStep
<1>3. RestInv /\ CapsTyped /\ UserTyped /\ Typed /\ [PageNext]_allVars => RestInv'
  BY WalletRestStep, QueriesStep, SubmissionsStep DEF RestInv
<1> QED BY <1>1, <1>2, <1>3, RestInit, PageIsTyped, TypedAlways, UserTypedAlways, ListAlways, PTL
        DEF PageSpec
=============================================================================
