-------------------------- MODULE WalletController --------------------------
(***************************************************************************)
(* Whose page is it?  The wallet that is selected, the connection to it    *)
(* and the user of the page: contexts/SuiWalletController.tsx with the     *)
(* store of wallets (stores/wallets.ts), the root of the routes that holds *)
(* wallet and user (routes/__root.tsx) and the two controls of the header  *)
(* (SuiWalletSelect.tsx, ConnectSuiButton.tsx).                            *)
(*                                                                         *)
(* A wallet answers a call when it likes: after another wallet has been    *)
(* selected, after a later call, or never.  An answer sets the status of   *)
(* the page whichever wallet it is from.                                   *)
(*                                                                         *)
(* The user is a parameter of the URL and survives a reload, and so does   *)
(* the wallet, if it has registered by then.  Autoconnect is on: the page  *)
(* has no control for it.                                                  *)
(***************************************************************************)
EXTENDS Naturals, FiniteSets

CONSTANTS
  Wallets,        \* wallets that register with the page
  Accounts,       \* addresses
  CanDisconnect,  \* the wallets that have the feature standard:disconnect
  None,           \* undefined
  Unheard,        \* the page's copy of a wallet before the first change event
  MaxEvents       \* bound: what user and wallets do by themselves

ASSUME WalletAssumption ==
  /\ CanDisconnect \subseteq Wallets
  /\ None \notin Wallets \cup Accounts
  /\ MaxEvents \in Nat

VARIABLES
  wallet,   \* the selected wallet
  status,   \* of the connection
  user,     \* the user of the page
  listening,\* will a change of the wallet's accounts run the effect on them?
  granted,  \* granted[w]: accounts that wallet w lets the page use
  known,    \* known[w]: accounts of w in the page's copy
  news,     \* wallets with a change event on its way
  calls,    \* calls[w][k]: calls of kind k that w has not answered
  events,   \* counts what MaxEvents bounds
  stray,    \* history: connected by the answer of a wallet that had been left
  missed,   \* history: the wallet changed accounts while nothing listened
  emptied,  \* history: wallets that took back all accounts, or gave none
  off       \* history: the user disconnected, and has asked for nothing since

page == <<wallet, status, user, listening>>
extension == <<granted, known, news, calls>>
session == <<page, extension, stray, missed, emptied, off>>
walletVars == <<session, events>>

\* connect(); disconnect() by the button; disconnect() of a wallet that is left.
CallKinds == {"connect", "disconnect", "switch"}

Statuses == {"not-connected", "disconnected", "connecting", "connected"}

Event == events < MaxEvents /\ events' = events + 1   \* bound

Asked(w, k) == calls[w][k] > 0
NoCalls == \A w \in Wallets : \A k \in CallKinds : ~Asked(w, k)

-----------------------------------------------------------------------------
(* The store of wallets *)

\* Until the first change event the copy reads the wallet's own list.
Listed(w) == IF known[w] = Unheard THEN granted[w] ELSE known[w]

\* The wallet lets the page use the accounts A from now on, and tells of it by
\* an event of its own.
Grant(w, A) ==
  /\ granted' = [granted EXCEPT ![w] = A]
  /\ news' = IF A = granted[w] THEN news ELSE news \cup {w}

\* What the effect on the accounts makes of user u: one that is not of the wallet
\* gives way to one that is.
Followed(u) ==
  LET A == IF wallet = None THEN {} ELSE Listed(wallet)
  IN  IF u # None /\ u \notin A' /\ A' # {} THEN A' ELSE {u}

\* The effect runs, with u for the user.  What it reads it listens to; but the
\* accounts of a copy that has had no event are read from the wallet by a getter,
\* and the setter that the first event goes through tells nobody who read those.
Follow(u) ==
  /\ user' \in Followed(u)
  /\ listening' = (user' # None /\ wallet' # None /\ known'[wallet'] # Unheard)
  /\ missed' = FALSE

\* The effect runs when the user becomes another one.
SetUser(u) ==
  IF u = user THEN UNCHANGED <<user, listening, missed>> ELSE Follow(u)

-----------------------------------------------------------------------------
(* The status *)

Active == status \in {"connecting", "connected"}

\* The calls after one more, or one less.
OneMore(cs, w, k) == [cs EXCEPT ![w][k] = @ + 1]
OneLess(cs, w, k) == [cs EXCEPT ![w][k] = @ - 1]

\* Variant: autoconnect also brings back a connection the user has ended.
Become_disconnected(s, w, cs) ==
  IF s \in {"not-connected", "disconnected"} /\ w # None
  THEN status' = "connecting" /\ calls' = OneMore(cs, w, "connect")
  ELSE status' = s /\ calls' = cs

\* The status becomes s with wallet w selected and the calls cs under way.  The
\* effect of autoconnect follows at once.
Become(s, w, cs) ==
  IF s = "not-connected" /\ w # None
  THEN status' = "connecting" /\ calls' = OneMore(cs, w, "connect")
  ELSE status' = s /\ calls' = cs

-----------------------------------------------------------------------------
(* The controls of the header *)

\* Variant: the status is reset only by a wallet that can be disconnected.
SelectWallet_feature(w) ==
  /\ Event
  /\ w # wallet
  /\ wallet' = w
  /\ Become(status, w, IF wallet \in CanDisconnect /\ Active
                       THEN OneMore(calls, wallet, "switch") ELSE calls)
  /\ UNCHANGED <<granted, known, news>>
  /\ Follow(user)
  /\ off' = FALSE
  /\ UNCHANGED <<stray, emptied>>

\* Another wallet: the one before is disconnected, and the status stays what it
\* was until that is done.
SelectWallet(w) ==
  /\ Event
  /\ w # wallet
  /\ wallet' = w
  /\ IF wallet # None /\ Active
     THEN IF wallet \in CanDisconnect
          THEN Become(status, w, OneMore(calls, wallet, "switch"))
          ELSE Become("not-connected", w, calls)
     ELSE Become(status, w, calls)
  /\ UNCHANGED <<granted, known, news>>
  /\ Follow(user)
  /\ off' = FALSE
  /\ UNCHANGED <<stray, emptied>>

\* The button, while there is no connection.
connect ==
  /\ Event
  /\ wallet # None /\ ~Active
  /\ Become("connecting", wallet, OneMore(calls, wallet, "connect"))
  /\ off' = FALSE
  /\ UNCHANGED <<wallet, user, listening, granted, known, news, stray, missed, emptied>>

\* The button, while there is one or it is being made.
disconnect ==
  /\ Event
  /\ wallet # None /\ Active
  /\ off' = (off \/ NoCalls)
  /\ UNCHANGED <<wallet, granted, known, news, stray, emptied>>
  /\ IF wallet \in CanDisconnect
     THEN /\ Become(status, wallet, OneMore(calls, wallet, "disconnect"))
          /\ UNCHANGED <<user, listening, missed>>
     ELSE /\ Become("disconnected", wallet, calls)
          /\ SetUser(None)

-----------------------------------------------------------------------------
(* The wallets' answers *)

\* The user after wallet w has been connected with the accounts A.
UserOf(A) == IF user \in A THEN {user} ELSE IF A = {} THEN {None} ELSE A

\* connect() is answered with the accounts A.
Connected(w, A) ==
  /\ Asked(w, "connect")
  /\ Grant(w, A)
  /\ UNCHANGED <<wallet, known>>
  /\ \E u \in UserOf(A) :
       IF u = user
       THEN UNCHANGED <<user, listening>> /\ missed' = (missed /\ w # wallet)
       ELSE Follow(u)
  /\ Become("connected", wallet, OneLess(calls, w, "connect"))
  /\ stray' = (w # wallet)
  /\ emptied' = IF A = {} THEN emptied \cup {w} ELSE emptied \ {w}
  /\ UNCHANGED <<events, off>>

\* Variant: a refusal leaves the status as it is.
Refused_unnoticed(w) ==
  /\ Asked(w, "connect")
  /\ Become(status, wallet, OneLess(calls, w, "connect"))
  /\ UNCHANGED <<wallet, user, listening, granted, known, news, events, stray, missed, emptied,
                 off>>

\* connect() is refused, or fails.
Refused(w) ==
  /\ Asked(w, "connect")
  /\ Become("disconnected", wallet, OneLess(calls, w, "connect"))
  /\ stray' = FALSE
  /\ UNCHANGED <<wallet, user, listening, granted, known, news, events, missed, emptied, off>>

\* disconnect() is answered one way or the other.  The wallet may take back the
\* accounts or go on to name them.
Disconnected(w, k) ==
  /\ k # "connect"
  /\ Asked(w, k)
  /\ \E A \in {granted[w], {}} : Grant(w, A)
  /\ Become(IF k = "switch" THEN "not-connected" ELSE "disconnected", wallet,
            OneLess(calls, w, k))
  /\ UNCHANGED <<wallet, known, events, emptied, off>>
  /\ SetUser(IF k = "switch" THEN user ELSE None)
  /\ stray' = FALSE

-----------------------------------------------------------------------------
(* What the wallets do by themselves *)

\* The user gives the page other accounts, or none, in the wallet.
ChangeAccounts(w, A) ==
  /\ Event
  /\ A # granted[w]
  /\ Grant(w, A)
  /\ emptied' = IF A = {} THEN emptied \cup {w} ELSE emptied \ {w}
  /\ missed' = (missed \/ (w = wallet /\ ~listening))
  /\ UNCHANGED <<page, known, calls, stray, off>>

\* Variant: the copy is set and nobody told.
onChange_silent(w) ==
  /\ w \in news
  /\ known' = [known EXCEPT ![w] = granted[w]]
  /\ news' = news \ {w}
  /\ UNCHANGED <<page, granted, calls, events, stray, missed, emptied, off>>

\* The wallet's change event sets the accounts of the copy.  The effect runs when it
\* has read them since an event came before.
onChange(w) ==
  /\ w \in news
  /\ known' = [known EXCEPT ![w] = granted[w]]
  /\ news' = news \ {w}
  /\ UNCHANGED <<wallet, granted>>
  /\ IF w = wallet /\ listening THEN Follow(user) ELSE UNCHANGED <<user, listening, missed>>
  /\ UNCHANGED <<status, calls, events, stray, emptied, off>>

-----------------------------------------------------------------------------
(* The page *)

\* Another search parameter of the URL changes, the network or a filter: the user
\* is read from all of them, and the effect runs.
Navigate ==
  /\ UNCHANGED <<wallet, status, granted, known, news, calls, events, stray, emptied, off>>
  /\ Follow(user)

\* The page is there with wallet w and user u, and its effects have run.
Opened(w, u) ==
  /\ wallet' = w
  /\ known' = [v \in Wallets |-> Unheard]
  /\ news' = {}
  /\ UNCHANGED granted
  /\ Become("not-connected", w, [v \in Wallets |-> [k \in CallKinds |-> 0]])
  /\ Follow(u)
  /\ stray' = FALSE
  /\ off' = FALSE
  /\ UNCHANGED emptied

\* The page is loaded again, or through a link that names a user.  The wallet
\* is found again if it has registered.
Reload ==
  /\ Event
  /\ \E w \in {wallet, None} : \E u \in Accounts \cup {None} : Opened(w, u)

\* The page has just been opened, with a wallet that was selected before or
\* with none.
WalletInit ==
  /\ wallet \in Wallets \cup {None}
  /\ granted \in [Wallets -> SUBSET Accounts]
  /\ user \in Accounts \cup {None}
  /\ wallet # None /\ user # None /\ granted[wallet] # {} => user \in granted[wallet]
  /\ status = IF wallet = None THEN "not-connected" ELSE "connecting"
  /\ known = [w \in Wallets |-> Unheard]
  /\ news = {}
  /\ calls = [w \in Wallets |->
                [k \in CallKinds |-> IF w = wallet /\ k = "connect" THEN 1 ELSE 0]]
  /\ events = 0
  /\ listening = FALSE /\ missed = FALSE
  /\ stray = FALSE
  /\ emptied = {}
  /\ off = FALSE

Answers(w) ==
  \/ \E A \in SUBSET Accounts : Connected(w, A)
  \/ Refused(w)
  \/ \E k \in CallKinds : Disconnected(w, k)

\* All that happens between one load of the page and the next.
Session ==
  \/ \E w \in Wallets : SelectWallet(w) \/ Answers(w) \/ onChange(w)
  \/ \E w \in Wallets, A \in SUBSET Accounts : ChangeAccounts(w, A)
  \/ connect \/ disconnect \/ Navigate

WalletNext == Session \/ Reload

WalletSpec == WalletInit /\ [][WalletNext]_walletVars

-----------------------------------------------------------------------------
(* Properties *)

\* The state stays well typed, no call is answered that was not made, and the
\* page waits for a wallet only when there is none.
WalletTypeOK ==
  /\ wallet \in Wallets \cup {None}
  /\ status \in Statuses
  /\ user \in Accounts \cup {None}
  /\ granted \in [Wallets -> SUBSET Accounts]
  /\ known \in [Wallets -> (SUBSET Accounts) \cup {Unheard}]
  /\ news \subseteq Wallets
  /\ calls \in [Wallets -> [CallKinds -> Nat]]
  /\ events \in Nat
  /\ listening \in BOOLEAN /\ missed \in BOOLEAN
  /\ stray \in BOOLEAN /\ emptied \subseteq Wallets /\ off \in BOOLEAN

\* A page that shows "connecting" is waiting for an answer of the selected
\* wallet, or for the wallet before it to let go: no order of answers leaves it
\* connecting to nothing.
ConnectingIsAsked ==
  status = "connecting" =>
    Asked(wallet, "connect") \/ \E w \in Wallets : Asked(w, "switch")

\* When all is answered, a page that shows "connected" may use accounts of the
\* wallet that is selected -- unless the user took them back in the wallet, or
\* the last to answer was a wallet that had been left.
ConnectedIsGranted ==
  NoCalls /\ status = "connected" =>
    granted[wallet] # {} \/ wallet \in emptied \/ stray

\* Once the change events are in, the user of the page is one of the selected
\* wallet's as soon as it has any, whatever answers came in which order -- unless
\* the wallet changed its accounts when the effect on them did not listen, and
\* neither the effect nor an answer of the wallet has looked at them since.
UserIsOfWallet ==
  wallet # None /\ user # None /\ wallet \notin news /\ ~missed /\ granted[wallet] # {} =>
    user \in granted[wallet]

\* Who disconnects while no call is under way stays disconnected, and the page
\* is nobody's, until the user connects or selects another wallet.
DisconnectIsFinal ==
  off /\ NoCalls => status = "disconnected" /\ user = None
=============================================================================
