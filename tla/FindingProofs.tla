--------------------------- MODULE FindingProofs ---------------------------
(***************************************************************************)
(* What holds of the finding contract for every set of findings, coins and *)
(* bounties, every u64 width and every bound on the history.               *)
(***************************************************************************)
EXTENDS Finding, FiniteSetTheorems, TLAPS

-----------------------------------------------------------------------------
(* Lemmas on the updates that the calls share *)

\* Finding f keeps everything but its payments.
SameReports(f) ==
  /\ inner'[f].bug_bounty_id = inner[f].bug_bounty_id
  /\ inner'[f].submission_hash = inner[f].submission_hash
  /\ inner'[f].public_report_blob = inner[f].public_report_blob
  /\ inner'[f].private_report_blob = inner[f].private_report_blob
  /\ inner'[f].error_message_blob = inner[f].error_message_blob
  /\ inner'[f].is_published = inner[f].is_published

\* The entry of coin c becomes p; what was held of coin c is handed out.
Puts(f, c, p) == inner'[f].payments = [inner[f].payments EXCEPT ![c] = p]
HandsOut(f, c) == ledger'[f].released = [ledger[f].released EXCEPT
                                           ![c] = ledger[f].released[c] + Held(f, c)]

LEMMA RecountResult ==
  ASSUME TypeOK, NEW f \in Findings, NEW c \in Coins,
         NEW p \in Option(PaymentV1), Recount(f, c, p)
  PROVE  /\ inner' \in [Findings -> FindingV1]
         /\ \A g \in Findings \ {f} : inner'[g] = inner[g]
         /\ SameReports(f)
         /\ Puts(f, c, p)
         /\ inner'[f].payed_count = inner[f].payed_count
              - Counted(inner[f].payments[c]) + Counted(p)
<1> DEFINE n == inner[f].payed_count
                  - Counted(inner[f].payments[c]) + Counted(p)
           r == [inner[f] EXCEPT
                   !.payments = [inner[f].payments EXCEPT ![c] = p], !.payed_count = n]
<1>1. inner[f] \in FindingV1 /\ inner \in [Findings -> FindingV1]
  BY DEF TypeOK
<1>2. n \in Nat
  BY <1>1 DEF Recount, Counted, FindingV1
<1>3. r \in FindingV1
  BY <1>1, <1>2 DEF FindingV1
<1>4. inner' = [inner EXCEPT ![f] = r]
  BY <1>1 DEF Recount
<1>5. /\ SameReports(f)
      /\ Puts(f, c, p)
      /\ inner'[f].payed_count = n
  BY <1>1, <1>4 DEF FindingV1, SameReports, Puts
<1> QED
  BY <1>1, <1>3, <1>4, <1>5

LEMMA ReceiveResult ==
  ASSUME TypeOK, NEW f \in Findings, NEW c \in Coins, NEW n \in Nat, Receive(f, c, n)
  PROVE  /\ ledger' \in [Findings -> Ledger]
         /\ \A g \in Findings \ {f} : ledger'[g] = ledger[g]
         /\ ledger'[f] = [ledger[f] EXCEPT
              !.received = [ledger[f].received EXCEPT ![c] = ledger[f].received[c] + n]]
<1> DEFINE l == [ledger[f] EXCEPT
              !.received = [ledger[f].received EXCEPT ![c] = ledger[f].received[c] + n]]
<1>1. ledger[f] \in Ledger /\ ledger \in [Findings -> Ledger]
  BY DEF TypeOK
<1>2. [ledger[f].received EXCEPT ![c] = ledger[f].received[c] + n] \in [Coins -> Nat]
  BY <1>1 DEF Ledger
<1>3. l \in Ledger
  BY <1>1, <1>2 DEF Ledger
<1>4. ledger' = [ledger EXCEPT ![f] = l]
  BY DEF Receive
<1> QED
  BY <1>1, <1>3, <1>4

LEMMA ReleaseResult ==
  ASSUME TypeOK, NEW f \in Findings, NEW c \in Coins, NEW n \in Nat, Release(f, c, n)
  PROVE  /\ ledger' \in [Findings -> Ledger]
         /\ \A g \in Findings \ {f} : ledger'[g] = ledger[g]
         /\ ledger'[f] = [ledger[f] EXCEPT
              !.released = [ledger[f].released EXCEPT ![c] = ledger[f].released[c] + n]]
<1> DEFINE l == [ledger[f] EXCEPT
              !.released = [ledger[f].released EXCEPT ![c] = ledger[f].released[c] + n]]
<1>1. ledger[f] \in Ledger /\ ledger \in [Findings -> Ledger]
  BY DEF TypeOK
<1>2. [ledger[f].released EXCEPT ![c] = ledger[f].released[c] + n] \in [Coins -> Nat]
  BY <1>1 DEF Ledger
<1>3. l \in Ledger
  BY <1>1, <1>2 DEF Ledger
<1>4. ledger' = [ledger EXCEPT ![f] = l]
  BY DEF Release
<1> QED
  BY <1>1, <1>3, <1>4

LEMMA HeldType ==
  ASSUME TypeOK, NEW f \in Findings, NEW c \in Coins
  PROVE  Held(f, c) \in Nat /\ Owed(f, c) \in Nat
<1>1. inner[f].payments[c] \in Option(PaymentV1)
  BY DEF TypeOK, FindingV1
<1> QED
  BY <1>1, FindingAssumption DEF Held, Owed, Paid, Due, Settled, Option, PaymentV1

LEMMA SetPaymentResult ==
  ASSUME TypeOK, NEW cap \in Findings, NEW f \in Findings, NEW c \in Coins,
         NEW requested \in 0 .. MAX_U64, set_payment_v1(cap, f, c, requested)
  PROVE  \E q \in Option(PaymentV1) :
           /\ q = None \/ (q.paid = 0 /\ q.requested > 0)
           /\ inner' \in [Findings -> FindingV1]
           /\ ledger' \in [Findings -> Ledger]
           /\ \A g \in Findings \ {f} : inner'[g] = inner[g] /\ ledger'[g] = ledger[g]
           /\ SameReports(f)
           /\ Puts(f, c, q)
           /\ inner'[f].payed_count = inner[f].payed_count
           /\ ledger'[f].received = ledger[f].received
           /\ ledger'[f].price = ledger[f].price
           /\ ledger'[f].drift = ledger[f].drift + Counted(inner[f].payments[c])
           /\ HandsOut(f, c)
<1> DEFINE rest == IF requested > Held(f, c) THEN requested - Held(f, c) ELSE 0
           q == IF rest > 0 THEN [requested |-> rest, paid |-> 0] ELSE None
           r == [inner[f] EXCEPT !.payments = [inner[f].payments EXCEPT ![c] = q]]
           l == [ledger[f] EXCEPT
                !.released = [ledger[f].released EXCEPT
                                ![c] = ledger[f].released[c] + Held(f, c)],
                !.drift = ledger[f].drift + Counted(inner[f].payments[c])]
<1>1. /\ inner[f] \in FindingV1 /\ inner \in [Findings -> FindingV1]
      /\ ledger[f] \in Ledger /\ ledger \in [Findings -> Ledger]
  BY DEF TypeOK
<1>2. Held(f, c) \in Nat /\ requested \in Nat /\ MAX_U64 \in Nat
  BY HeldType, FindingAssumption
<1>3. rest \in 0 .. MAX_U64
  BY <1>2
<1>4. q \in Option(PaymentV1) /\ (q = None \/ (q.paid = 0 /\ q.requested > 0))
  <2> HIDE DEF rest
  <2>1. CASE rest > 0
    <3>1. [requested |-> rest, paid |-> 0] \in PaymentV1
      BY <1>3, <1>2 DEF PaymentV1
    <3> QED
      BY <2>1, <3>1 DEF Option
  <2>2. CASE ~(rest > 0)
    BY <2>2 DEF Option
  <2> QED
    BY <2>1, <2>2
<1>5. inner' = [inner EXCEPT ![f] = r]
  BY <1>1 DEF set_payment_v1
<1>6. ledger' = [ledger EXCEPT ![f] = l]
  BY <1>1 DEF set_payment_v1
<1> HIDE DEF q
<1>7. r \in FindingV1
  BY <1>1, <1>4 DEF FindingV1
<1>8. l \in Ledger
  <2>1. /\ [ledger[f].released EXCEPT ![c] = ledger[f].released[c] + Held(f, c)]
              \in [Coins -> Nat]
        /\ ledger[f].drift + Counted(inner[f].payments[c]) \in Nat
    BY <1>1, <1>2 DEF Ledger, Counted
  <2> QED
    BY <1>1, <2>1 DEF Ledger
<1>9. /\ inner' \in [Findings -> FindingV1] /\ ledger' \in [Findings -> Ledger]
      /\ \A g \in Findings \ {f} : inner'[g] = inner[g] /\ ledger'[g] = ledger[g]
      /\ inner'[f] = r /\ ledger'[f] = l
  BY <1>1, <1>5, <1>6, <1>7, <1>8
<1>10. /\ SameReports(f)
       /\ Puts(f, c, q)
       /\ inner'[f].payed_count = inner[f].payed_count
  BY <1>1, <1>9 DEF FindingV1, SameReports, Puts
<1>11. /\ ledger'[f].received = ledger[f].received
       /\ ledger'[f].price = ledger[f].price
       /\ ledger'[f].drift = ledger[f].drift + Counted(inner[f].payments[c])
       /\ HandsOut(f, c)
  BY <1>1, <1>9 DEF Ledger, HandsOut
<1> QED
  BY <1>4, <1>9, <1>10, <1>11

LEMMA HeldTypePrimed ==
  ASSUME TypeOK', NEW f \in Findings, NEW c \in Coins
  PROVE  Held(f, c)' \in Nat /\ Owed(f, c)' \in Nat
<1>1. inner'[f].payments[c] \in Option(PaymentV1)
  BY DEF TypeOK, FindingV1
<1> QED
  BY <1>1, FindingAssumption DEF Held, Owed, Paid, Due, Settled, Option, PaymentV1

-----------------------------------------------------------------------------
(* Typing *)

LEMMA TypingStep == ASSUME TypeOK, Next PROVE TypeOK'
<1> USE DEF TypeOK
<1>1. CASE \E f \in Findings : AnyoneCalls(f)
  <2>1. PICK f \in Findings : AnyoneCalls(f)
    BY <1>1
  <2>f. inner[f] \in FindingV1 /\ ledger[f] \in Ledger
    OBVIOUS
  <2>2. ASSUME NEW b \in Bounties, NEW h \in Hashes, create_v1(f, b, h) PROVE TypeOK'
    <3>1. [NoFinding EXCEPT !.bug_bounty_id = b, !.submission_hash = h] \in FindingV1
      BY DEF NoFinding, FindingV1, NoPayments, Option
    <3> QED
      BY <3>1, <2>2 DEF create_v1
  <2>3. ASSUME NEW c \in Coins, NEW amount \in 0 .. MAX_U64, pay(f, c, amount) PROVE TypeOK'
    <3> DEFINE p == inner[f].payments[c]
               q == IF p # None THEN [p EXCEPT !.paid = @ + amount]
                                ELSE [requested |-> 0, paid |-> amount]
    <3>1. p \in Option(PaymentV1) /\ amount \in Nat /\ MAX_U64 \in Nat
      BY <2>f, FindingAssumption DEF FindingV1
    <3>2. p # None => p.paid + amount <= MAX_U64
      BY <2>3 DEF pay
    <3>3. q \in Option(PaymentV1)
      BY <3>1, <3>2 DEF Option, PaymentV1
    <3>4. Recount(f, c, q) /\ Receive(f, c, amount) /\ UNCHANGED <<object, signed>>
      BY <2>3 DEF pay
    <3> HIDE DEF q, TypeOK
    <3>5. inner' \in [Findings -> FindingV1] /\ ledger' \in [Findings -> Ledger]
      BY <3>1, <3>3, <3>4, RecountResult, ReceiveResult
    <3> QED
      BY <3>4, <3>5 DEF TypeOK
  <2>4. ASSUME NEW public \in Blob, NEW private \in Option(Blob),
               commit(f, public, private) \/ commit_for_testing(f, public, private)
        PROVE TypeOK'
    <3> DEFINE priv == IF private = None THEN None ELSE private.blob_id
    <3>1. priv \in Option(Blobs) /\ public.blob_id \in Option(Blobs)
      BY DEF Option, Blob
    <3>2. [inner[f] EXCEPT !.public_report_blob = public.blob_id,
                           !.private_report_blob = priv] \in FindingV1
      BY <2>f, <3>1 DEF FindingV1
    <3>3. [ledger[f] EXCEPT !.testing = TRUE] \in Ledger
      BY <2>f DEF Ledger
    <3> HIDE DEF priv
    <3>4. inner' = [inner EXCEPT ![f] =
             [inner[f] EXCEPT !.public_report_blob = public.blob_id,
                              !.private_report_blob = priv]]
      BY <2>4 DEF commit, commit_for_testing, FillReports, priv
    <3>5. ledger' \in [Findings -> Ledger]
      BY <2>4, <3>3 DEF commit, commit_for_testing, MarkTesting
    <3> QED
      BY <2>4, <3>2, <3>4, <3>5 DEF commit, commit_for_testing
  <2>5. ASSUME NEW error \in Blob, report_error(f, error) \/ report_error_for_testing(f, error)
        PROVE TypeOK'
    <3>1. [inner[f] EXCEPT !.error_message_blob = error.blob_id] \in FindingV1
      BY <2>f DEF FindingV1, Option, Blob
    <3>2. [ledger[f] EXCEPT !.testing = TRUE] \in Ledger
      BY <2>f DEF Ledger
    <3> QED
      BY <2>5, <3>1, <3>2 DEF report_error, report_error_for_testing, MarkTesting
  <2> QED
    BY <2>1, <2>2, <2>3, <2>4, <2>5 DEF AnyoneCalls
<1>2. CASE \E f \in Findings, cap \in Findings : OwnerCalls(cap, f)
  <2>1. PICK f \in Findings, cap \in Findings : OwnerCalls(cap, f)
    BY <1>2
  <2>f. inner[f] \in FindingV1 /\ ledger[f] \in Ledger
    OBVIOUS
  <2>2. ASSUME publish(cap, f) PROVE TypeOK'
    <3>1. [inner[f] EXCEPT !.is_published = TRUE] \in FindingV1
      BY <2>f DEF FindingV1
    <3>2. \A c \in Coins : ledger[f].received[c] + Owed(f, c) \in Nat
      BY <2>f, HeldType DEF Ledger
    <3>3. [ledger[f] EXCEPT !.price =
             [c \in Coins |-> ledger[f].received[c] + Owed(f, c)]] \in Ledger
      BY <2>f, <3>2 DEF Ledger
    <3>4. ledger' = [ledger EXCEPT ![f] = [ledger[f] EXCEPT !.price =
             [c \in Coins |-> ledger[f].received[c] + Owed(f, c)]]]
      BY <2>2 DEF publish
    <3> QED
      BY <2>2, <3>1, <3>3, <3>4 DEF publish
  <2>3. ASSUME destroy_v1(cap, f) PROVE TypeOK'
    <3>1. NoFinding \in FindingV1
      BY DEF NoFinding, FindingV1, NoPayments, Option
    <3> QED
      BY <2>3, <3>1 DEF destroy_v1
  <2>4. ASSUME NEW c \in Coins, withdraw(cap, f, c) PROVE TypeOK'
    <3> DEFINE p == inner[f].payments[c]
               q == IF Settled(p) THEN None
                    ELSE [requested |-> p.requested - p.paid, paid |-> 0]
    <3>1. p # None /\ p \in PaymentV1 /\ MAX_U64 \in Nat /\ Held(f, c) \in Nat
      BY <2>4, <2>f, HeldType, FindingAssumption DEF withdraw, FindingV1, Option
    <3>2. q \in Option(PaymentV1)
      BY <3>1 DEF Option, PaymentV1, Settled
    <3>3. Recount(f, c, q) /\ Release(f, c, Held(f, c)) /\ UNCHANGED <<object, signed>>
      BY <2>4 DEF withdraw
    <3> HIDE DEF q, TypeOK
    <3>4. inner' \in [Findings -> FindingV1] /\ ledger' \in [Findings -> Ledger]
      BY <3>1, <3>2, <3>3, RecountResult, ReleaseResult
    <3> QED
      BY <3>3, <3>4 DEF TypeOK
  <2>5. ASSUME NEW c \in Coins, NEW requested \in 0 .. MAX_U64, add_payment(cap, f, c, requested)
        PROVE TypeOK'
    <3> DEFINE p == inner[f].payments[c]
               q == IF p # None THEN [p EXCEPT !.requested = @ + requested]
                                ELSE [requested |-> requested, paid |-> 0]
    <3>1. p \in Option(PaymentV1) /\ MAX_U64 \in Nat
      BY <2>f, FindingAssumption DEF FindingV1
    <3>2. q \in Option(PaymentV1)
      BY <2>5, <3>1 DEF Option, PaymentV1, add_payment
    <3>3. Recount(f, c, q) /\ UNCHANGED <<object, signed, ledger>>
      BY <2>5 DEF add_payment
    <3> HIDE DEF q, TypeOK
    <3>4. inner' \in [Findings -> FindingV1]
      BY <3>2, <3>3, RecountResult
    <3> QED
      BY <3>3, <3>4 DEF TypeOK
  <2>6. ASSUME NEW c \in Coins, NEW requested \in 0 .. MAX_U64,
               set_payment_v1(cap, f, c, requested)
        PROVE TypeOK'
    BY <2>6, SetPaymentResult DEF set_payment_v1
  <2> QED
    BY <2>1, <2>2, <2>3, <2>4, <2>5, <2>6 DEF OwnerCalls
<1>3. CASE \E m \in Message : EnclaveSigns(m)
  BY <1>3 DEF EnclaveSigns
<1> QED
  BY <1>1, <1>2, <1>3 DEF Next

\* Every state of the contract is well typed: in particular no request and no
\* balance leaves u64, and payed_count is never driven below zero.
THEOREM Typing == Spec => []TypeOK
<1>1. Init => TypeOK
  BY DEF Init, TypeOK, NoFinding, FindingV1, NoPayments, Option, NewLedger, Ledger, ZeroCoins
<1>2. TypeOK /\ [Next]_vars => TypeOK'
  BY TypingStep DEF vars, TypeOK
<1> QED
  BY <1>1, <1>2, PTL DEF Spec

-----------------------------------------------------------------------------
(* What the four payment calls have in common *)

One(b) == IF b THEN 1 ELSE 0
Present(p) == IF p # None THEN 1 ELSE 0

\* The entry of coin c in finding f becomes p; payed_count follows, up to
\* drift; coins are neither made nor lost; and if the finding is published,
\* the debt shrinks exactly by what came in.
PaymentCall(f, c, p) ==
  LET old == inner[f].payments[c]
      in == ledger'[f].received[c] - ledger[f].received[c]
  IN  /\ object[f] = "live"
      /\ p \in Option(PaymentV1)
      /\ UNCHANGED <<object, signed>>
      /\ \A g \in Findings \ {f} : inner'[g] = inner[g] /\ ledger'[g] = ledger[g]
      /\ SameReports(f)
      /\ Puts(f, c, p)
      /\ inner'[f].payed_count - ledger'[f].drift =
           inner[f].payed_count - ledger[f].drift - Counted(old) + Counted(p)
      /\ ledger'[f].price = ledger[f].price
      /\ \A d \in Coins \ {c} : /\ ledger'[f].received[d] = ledger[f].received[d]
                                /\ ledger'[f].released[d] = ledger[f].released[d]
      /\ ledger'[f].received[c] - ledger'[f].released[c] - Paid(p) =
           ledger[f].received[c] - ledger[f].released[c] - Paid(old)
      /\ is_published(f) =>
           /\ ledger'[f].drift = ledger[f].drift
           /\ in \in Nat
           /\ Due(p) = IF Due(old) > in THEN Due(old) - in ELSE 0
           /\ Present(p) - Present(old) <= Counted(p) - Counted(old)

LEMMA PayCall ==
  ASSUME TypeOK, NEW f \in Findings, NEW c \in Coins, NEW amount \in 0 .. MAX_U64,
         pay(f, c, amount)
  PROVE  \E p \in Option(PaymentV1) : PaymentCall(f, c, p)
<1> DEFINE p == inner[f].payments[c]
           q == IF p # None THEN [p EXCEPT !.paid = @ + amount]
                            ELSE [requested |-> 0, paid |-> amount]
<1>1. /\ p \in Option(PaymentV1) /\ amount \in Nat /\ MAX_U64 \in Nat /\ amount > 0
      /\ inner[f] \in FindingV1 /\ ledger[f] \in Ledger
  BY FindingAssumption DEF TypeOK, FindingV1, pay
<1>2. p # None => p.paid + amount <= MAX_U64
  BY DEF pay
<1>3. q \in PaymentV1 /\ q # None
  BY <1>1, <1>2, FindingAssumption DEF Option, PaymentV1
<1>4. Recount(f, c, q) /\ Receive(f, c, amount) /\ UNCHANGED <<object, signed>>
  BY DEF pay
<1>5. object[f] = "live"
  BY DEF pay, Live
<1>6. /\ Paid(q) = Paid(p) + amount
      /\ Due(q) = IF Due(p) > amount THEN Due(p) - amount ELSE 0
      /\ Present(q) - Present(p) <= Counted(q) - Counted(p)
  BY <1>1, <1>3 DEF Paid, Due, Settled, Counted, Present, Option, PaymentV1
<1>7. q \in Option(PaymentV1)
  BY <1>3 DEF Option
<1> HIDE DEF q
<1>8. /\ \A g \in Findings \ {f} : inner'[g] = inner[g] /\ ledger'[g] = ledger[g]
      /\ SameReports(f)
      /\ Puts(f, c, q)
      /\ inner'[f].payed_count = inner[f].payed_count - Counted(p) + Counted(q)
      /\ ledger'[f] = [ledger[f] EXCEPT
           !.received = [ledger[f].received EXCEPT ![c] = ledger[f].received[c] + amount]]
  <2>1. amount \in Nat
    BY <1>1
  <2>2. /\ \A g \in Findings \ {f} : inner'[g] = inner[g]
        /\ SameReports(f)
        /\ Puts(f, c, q)
        /\ inner'[f].payed_count = inner[f].payed_count - Counted(p) + Counted(q)
    BY <1>4, <1>7, RecountResult
  <2>3. /\ \A g \in Findings \ {f} : ledger'[g] = ledger[g]
        /\ ledger'[f] = [ledger[f] EXCEPT
             !.received = [ledger[f].received EXCEPT ![c] = ledger[f].received[c] + amount]]
    BY <1>4, <1>7, <2>1, ReceiveResult
  <2> QED
    BY <2>2, <2>3
<1>9. /\ inner'[f].payed_count = inner[f].payed_count - Counted(p) + Counted(q)
      /\ ledger'[f].drift = ledger[f].drift /\ ledger'[f].price = ledger[f].price
      /\ ledger'[f].released = ledger[f].released
      /\ ledger'[f].received[c] = ledger[f].received[c] + amount
      /\ \A d \in Coins \ {c} : ledger'[f].received[d] = ledger[f].received[d]
  BY <1>1, <1>8 DEF FindingV1, Ledger
<1>10. /\ inner[f].payed_count \in Nat /\ ledger[f].drift \in Nat
       /\ ledger[f].received[c] \in Nat /\ ledger[f].released[c] \in Nat /\ Paid(p) \in Nat
       /\ Counted(p) \in Nat /\ Counted(q) \in Nat
  BY <1>1 DEF FindingV1, Ledger, Paid, Option, PaymentV1, Counted
<1>11. /\ ledger'[f].received[c] - ledger[f].received[c] = amount
       /\ inner'[f].payed_count - ledger'[f].drift = inner[f].payed_count - ledger[f].drift
                                                      - Counted(p) + Counted(q)
       /\ ledger'[f].received[c] - ledger'[f].released[c] - Paid(q) =
            ledger[f].received[c] - ledger[f].released[c] - Paid(p)
  BY <1>1, <1>6, <1>9, <1>10
<1>12. PaymentCall(f, c, q)
  BY <1>1, <1>4, <1>5, <1>6, <1>7, <1>8, <1>9, <1>11, Zenon DEF PaymentCall
<1> QED
  BY <1>7, <1>12

LEMMA WithdrawCall ==
  ASSUME TypeOK, NEW cap \in Findings, NEW f \in Findings, NEW c \in Coins,
         withdraw(cap, f, c)
  PROVE  \E p \in Option(PaymentV1) : PaymentCall(f, c, p)
<1> DEFINE p == inner[f].payments[c]
           q == IF Settled(p) THEN None
                ELSE [requested |-> p.requested - p.paid, paid |-> 0]
<1>1. /\ p \in PaymentV1 /\ p # None /\ MAX_U64 \in Nat
      /\ inner[f] \in FindingV1 /\ ledger[f] \in Ledger
  BY FindingAssumption DEF TypeOK, FindingV1, withdraw, Option
<1>2. q \in Option(PaymentV1)
  BY <1>1 DEF Option, PaymentV1, Settled
<1>3. Recount(f, c, q) /\ Release(f, c, Paid(p)) /\ UNCHANGED <<object, signed>>
  BY DEF withdraw, Held
<1>4. object[f] = "live"
  BY DEF withdraw, assert_owner_cap, Live
<1>5. /\ Paid(q) = 0
      /\ Due(q) = Due(p)
      /\ Present(q) - Present(p) <= Counted(q) - Counted(p)
  BY <1>1, FindingAssumption DEF Paid, Due, Settled, Counted, Present, Option, PaymentV1
<1>6. Paid(p) \in Nat /\ Due(p) \in Nat
  BY <1>1 DEF Paid, Due, Settled, PaymentV1
<1> HIDE DEF q
<1>7. /\ \A g \in Findings \ {f} : inner'[g] = inner[g] /\ ledger'[g] = ledger[g]
      /\ SameReports(f)
      /\ Puts(f, c, q)
      /\ inner'[f].payed_count = inner[f].payed_count - Counted(p) + Counted(q)
      /\ ledger'[f] = [ledger[f] EXCEPT
           !.released = [ledger[f].released EXCEPT ![c] = ledger[f].released[c] + Paid(p)]]
  <2>2. /\ \A g \in Findings \ {f} : inner'[g] = inner[g]
        /\ SameReports(f)
        /\ Puts(f, c, q)
        /\ inner'[f].payed_count = inner[f].payed_count - Counted(p) + Counted(q)
    BY <1>2, <1>3, RecountResult
  <2>3. /\ \A g \in Findings \ {f} : ledger'[g] = ledger[g]
        /\ ledger'[f] = [ledger[f] EXCEPT
             !.released = [ledger[f].released EXCEPT ![c] = ledger[f].released[c] + Paid(p)]]
    BY <1>2, <1>3, <1>6, ReleaseResult
  <2> QED
    BY <2>2, <2>3
<1>8. /\ inner'[f].payed_count = inner[f].payed_count - Counted(p) + Counted(q)
      /\ ledger'[f].drift = ledger[f].drift /\ ledger'[f].price = ledger[f].price
      /\ ledger'[f].received = ledger[f].received
      /\ ledger'[f].released[c] = ledger[f].released[c] + Paid(p)
      /\ \A d \in Coins \ {c} : ledger'[f].released[d] = ledger[f].released[d]
  BY <1>1, <1>7 DEF FindingV1, Ledger
<1>9. /\ inner[f].payed_count \in Nat /\ ledger[f].drift \in Nat
      /\ ledger[f].received[c] \in Nat /\ ledger[f].released[c] \in Nat
      /\ Counted(p) \in Nat /\ Counted(q) \in Nat
  BY <1>1 DEF FindingV1, Ledger, Counted
<1>10. /\ ledger'[f].received[c] - ledger[f].received[c] = 0
       /\ Due(q) = IF Due(p) > 0 THEN Due(p) - 0 ELSE 0
       /\ inner'[f].payed_count - ledger'[f].drift = inner[f].payed_count - ledger[f].drift
                                                      - Counted(p) + Counted(q)
       /\ ledger'[f].received[c] - ledger'[f].released[c] - Paid(q) =
            ledger[f].received[c] - ledger[f].released[c] - Paid(p)
  BY <1>5, <1>6, <1>8, <1>9
<1>11. 0 \in Nat /\ \A d \in Coins \ {c} : ledger'[f].received[d] = ledger[f].received[d]
  BY <1>8
<1>12. PaymentCall(f, c, q)
  BY <1>2, <1>3, <1>4, <1>5, <1>7, <1>8, <1>10, <1>11, Zenon DEF PaymentCall
<1> QED
  BY <1>2, <1>12

LEMMA AddCall ==
  ASSUME TypeOK, NEW cap \in Findings, NEW f \in Findings, NEW c \in Coins,
         NEW requested \in 0 .. MAX_U64, add_payment(cap, f, c, requested)
  PROVE  \E p \in Option(PaymentV1) : PaymentCall(f, c, p)
<1> DEFINE p == inner[f].payments[c]
           q == IF p # None THEN [p EXCEPT !.requested = @ + requested]
                            ELSE [requested |-> requested, paid |-> 0]
<1>1. /\ p \in Option(PaymentV1) /\ MAX_U64 \in Nat /\ requested \in Nat
      /\ inner[f] \in FindingV1 /\ ledger[f] \in Ledger
  BY FindingAssumption DEF TypeOK, FindingV1
<1>2. p # None => p.requested + requested <= MAX_U64
  BY DEF add_payment
<1>3. q \in PaymentV1
  BY <1>1, <1>2 DEF Option, PaymentV1
<1>4. Recount(f, c, q) /\ UNCHANGED <<object, signed, ledger>>
  BY DEF add_payment
<1>5. object[f] = "live" /\ ~is_published(f)
  BY DEF add_payment, assert_owner_cap, Live
<1>6. Paid(q) = Paid(p)
  BY <1>1, <1>3, FindingAssumption DEF Paid, Option, PaymentV1
<1>7. q \in Option(PaymentV1)
  BY <1>3 DEF Option
<1> HIDE DEF q
<1>8. /\ \A g \in Findings \ {f} : inner'[g] = inner[g]
      /\ SameReports(f)
      /\ Puts(f, c, q)
      /\ inner'[f].payed_count = inner[f].payed_count - Counted(p) + Counted(q)
  BY <1>4, <1>7, RecountResult
<1>9. /\ inner[f].payed_count \in Nat /\ ledger[f].drift \in Nat
      /\ Counted(p) \in Nat /\ Counted(q) \in Nat
  BY <1>1 DEF FindingV1, Ledger, Counted
<1>10. /\ inner'[f].payed_count - ledger'[f].drift = inner[f].payed_count - ledger[f].drift
                                                      - Counted(p) + Counted(q)
       /\ ledger'[f].received[c] - ledger'[f].released[c] - Paid(q) =
            ledger[f].received[c] - ledger[f].released[c] - Paid(p)
       /\ ledger' = ledger
  BY <1>4, <1>6, <1>8, <1>9
<1>11. PaymentCall(f, c, q)
  BY <1>4, <1>5, <1>7, <1>8, <1>10, Zenon DEF PaymentCall
<1> QED
  BY <1>7, <1>11

LEMMA SetCall ==
  ASSUME TypeOK, NEW cap \in Findings, NEW f \in Findings, NEW c \in Coins,
         NEW requested \in 0 .. MAX_U64, set_payment_v1(cap, f, c, requested)
  PROVE  \E p \in Option(PaymentV1) : PaymentCall(f, c, p)
<1> DEFINE old == inner[f].payments[c]
<1>1. PICK q \in Option(PaymentV1) :
        /\ q = None \/ (q.paid = 0 /\ q.requested > 0)
        /\ inner' \in [Findings -> FindingV1]
        /\ ledger' \in [Findings -> Ledger]
        /\ \A g \in Findings \ {f} : inner'[g] = inner[g] /\ ledger'[g] = ledger[g]
        /\ SameReports(f)
        /\ Puts(f, c, q)
        /\ inner'[f].payed_count = inner[f].payed_count
        /\ ledger'[f].received = ledger[f].received
        /\ ledger'[f].price = ledger[f].price
        /\ ledger'[f].drift = ledger[f].drift + Counted(inner[f].payments[c])
        /\ HandsOut(f, c)
  BY SetPaymentResult, Zenon
<1>2. /\ inner[f] \in FindingV1 /\ inner \in [Findings -> FindingV1]
      /\ ledger[f] \in Ledger /\ ledger \in [Findings -> Ledger]
      /\ old \in Option(PaymentV1)
  BY DEF TypeOK, FindingV1
<1>3. object[f] = "live" /\ ~is_published(f) /\ UNCHANGED <<object, signed>>
  BY DEF set_payment_v1, assert_owner_cap, Live
<1>4. Paid(q) = 0 /\ Counted(q) = 0
  BY <1>1, FindingAssumption DEF Paid, Counted, Settled, Option, PaymentV1
<1>5. /\ ledger'[f].released[c] = ledger[f].released[c] + Paid(old)
      /\ \A d \in Coins \ {c} : ledger'[f].released[d] = ledger[f].released[d]
  BY <1>1, <1>2 DEF Ledger, Held, HandsOut
<1>6. /\ inner[f].payed_count \in Nat /\ ledger[f].drift \in Nat
      /\ ledger[f].received[c] \in Nat /\ ledger[f].released[c] \in Nat
      /\ Counted(old) \in Nat /\ Paid(old) \in Nat
  BY <1>2, FindingAssumption DEF FindingV1, Ledger, Counted, Paid, Option, PaymentV1
<1>7. /\ inner'[f].payed_count - ledger'[f].drift = inner[f].payed_count - ledger[f].drift
                                                      - Counted(old) + Counted(q)
      /\ ledger'[f].received[c] - ledger'[f].released[c] - Paid(q) =
            ledger[f].received[c] - ledger[f].released[c] - Paid(old)
      /\ \A d \in Coins \ {c} : ledger'[f].received[d] = ledger[f].received[d]
  BY <1>1, <1>4, <1>5, <1>6
<1>8. PaymentCall(f, c, q)
  BY <1>1, <1>3, <1>5, <1>7, Zenon DEF PaymentCall
<1> QED
  BY <1>8

-----------------------------------------------------------------------------
(* The books of one finding *)

\* The inductive invariant, finding by finding: an unused id is blank; only a
\* finding with a report is published; payed_count, the coins and the price
\* are as PayedCountDrift, CoinsConserved and PriceHonoured say.
Books(f) ==
  /\ object[f] # "live" => inner[f] = NoFinding
  /\ object[f] = "free" => ledger[f] = NewLedger
  /\ inner[f].is_published => is_published(f)
  /\ object[f] = "live" =>
       inner[f].payed_count = Cardinality(SettledCoins(f)) + ledger[f].drift
  /\ \A c \in Coins : ledger[f].received[c] = ledger[f].released[c] + Held(f, c)
  /\ is_published(f) =>
       \A c \in Coins : Owed(f, c) = IF ledger[f].price[c] > ledger[f].received[c]
                                     THEN ledger[f].price[c] - ledger[f].received[c] ELSE 0

IInv == TypeOK /\ \A f \in Findings : Books(f)

LEMMA Toggle ==
  ASSUME NEW S, IsFiniteSet(S), NEW T, NEW x, \A y : y # x => (y \in T <=> y \in S)
  PROVE  /\ IsFiniteSet(T)
         /\ Cardinality(T) \in Nat
         /\ Cardinality(S) \in Nat
         /\ Cardinality(T) = Cardinality(S) - One(x \in S) + One(x \in T)
<1>1. CASE x \in T
  <2>1. T = S \cup {x}
    BY <1>1
  <2> QED
    BY <1>1, <2>1, FS_AddElement, FS_CardinalityType DEF One
<1>2. CASE x \notin T
  <2>1. T = S \ {x}
    BY <1>2
  <2> QED
    BY <1>2, <2>1, FS_RemoveElement, FS_CardinalityType DEF One
<1> QED
  BY <1>1, <1>2

\* A finding that a step leaves alone keeps its books.
LEMMA BooksFrame ==
  ASSUME NEW f \in Findings, Books(f), object'[f] = object[f], inner'[f] = inner[f],
         ledger'[f] = ledger[f]
  PROVE  Books(f)'
<1>1. SettledCoins(f)' = SettledCoins(f)
  BY DEF SettledCoins
<1>2. status_v1(f)' = status_v1(f)
  BY DEF status_v1
<1> QED
  BY <1>1, <1>2 DEF Books, is_published, Held, Owed

\* The coins that are settled, and those that have an entry, after a payment call.
LEMMA CallCounts ==
  ASSUME TypeOK, NEW f \in Findings, NEW c \in Coins, NEW p, PaymentCall(f, c, p)
  PROVE  /\ Cardinality(SettledCoins(f)) \in Nat
         /\ Cardinality(SettledCoins(f)') = Cardinality(SettledCoins(f))
              - Counted(inner[f].payments[c]) + Counted(p)
         /\ Cardinality(Contained(f)) \in Nat
         /\ Cardinality(Contained(f)') = Cardinality(Contained(f))
              - Present(inner[f].payments[c]) + Present(p)
<1>1. inner[f].payments \in [Coins -> Option(PaymentV1)]
  BY DEF TypeOK, FindingV1
<1>2. Puts(f, c, p)
  BY DEF PaymentCall
<1>3. /\ inner'[f].payments[c] = p
      /\ \A d \in Coins : d # c => inner'[f].payments[d] = inner[f].payments[d]
  BY <1>1, <1>2 DEF Puts
<1>4. IsFiniteSet(SettledCoins(f)) /\ IsFiniteSet(Contained(f))
  BY FindingAssumption, FS_Subset DEF SettledCoins, Contained
<1>5. /\ \A d : d # c => (d \in SettledCoins(f)' <=> d \in SettledCoins(f))
      /\ \A d : d # c => (d \in Contained(f)' <=> d \in Contained(f))
  BY <1>3 DEF SettledCoins, Contained
<1>6. /\ One(c \in SettledCoins(f)) = Counted(inner[f].payments[c])
      /\ One(c \in SettledCoins(f)') = Counted(p)
      /\ One(c \in Contained(f)) = Present(inner[f].payments[c])
      /\ One(c \in Contained(f)') = Present(p)
  BY <1>3 DEF SettledCoins, Contained, One, Counted, Present
<1>7. /\ Cardinality(SettledCoins(f)) \in Nat
      /\ Cardinality(SettledCoins(f)') = Cardinality(SettledCoins(f))
           - One(c \in SettledCoins(f)) + One(c \in SettledCoins(f)')
  BY <1>4, <1>5, Toggle
<1>8. /\ Cardinality(Contained(f)) \in Nat
      /\ Cardinality(Contained(f)') = Cardinality(Contained(f))
           - One(c \in Contained(f)) + One(c \in Contained(f)')
  BY <1>4, <1>5, Toggle
<1> QED
  BY <1>6, <1>7, <1>8

\* Payments of any kind keep the books of the finding they are made on.
LEMMA BooksPayment ==
  ASSUME TypeOK, TypeOK', NEW f \in Findings, NEW c \in Coins, NEW p \in Option(PaymentV1),
         PaymentCall(f, c, p), Books(f)
  PROVE  Books(f)'
<1>1. /\ inner[f] \in FindingV1 /\ inner'[f] \in FindingV1
      /\ ledger[f] \in Ledger /\ ledger'[f] \in Ledger
  BY DEF TypeOK
<1>2. /\ inner'[f].payments[c] = p
      /\ \A d \in Coins \ {c} : inner'[f].payments[d] = inner[f].payments[d]
  BY <1>1 DEF PaymentCall, FindingV1, Puts
<1>3. object[f] = "live" /\ object'[f] = "live"
  BY DEF PaymentCall
<1>4. status_v1(f)' = status_v1(f) /\ inner'[f].is_published = inner[f].is_published
  BY DEF PaymentCall, SameReports, status_v1
<1>5. inner'[f].payed_count = Cardinality(SettledCoins(f)') + ledger'[f].drift
  <2>1. /\ inner'[f].payed_count - ledger'[f].drift = inner[f].payed_count - ledger[f].drift
             - Counted(inner[f].payments[c]) + Counted(p)
        /\ inner[f].payed_count = Cardinality(SettledCoins(f)) + ledger[f].drift
    BY <1>3 DEF PaymentCall, Books
  <2>2. /\ inner[f].payed_count \in Nat /\ inner'[f].payed_count \in Nat
        /\ ledger[f].drift \in Nat /\ ledger'[f].drift \in Nat
        /\ Counted(inner[f].payments[c]) \in Nat /\ Counted(p) \in Nat
    BY <1>1 DEF FindingV1, Ledger, Counted
  <2>3. /\ Cardinality(SettledCoins(f)) \in Nat
        /\ Cardinality(SettledCoins(f)') = Cardinality(SettledCoins(f))
             - Counted(inner[f].payments[c]) + Counted(p)
    BY CallCounts
  <2> QED
    BY <2>1, <2>2, <2>3
<1>6. ASSUME NEW d \in Coins
      PROVE  ledger'[f].received[d] = ledger'[f].released[d] + Held(f, d)'
  <2>1. /\ ledger[f].received[d] = ledger[f].released[d] + Held(f, d)
        /\ ledger[f].received[c] = ledger[f].released[c] + Held(f, c)
    BY DEF Books
  <2>2. CASE d = c
    <3>1. /\ ledger'[f].received[c] \in Nat /\ ledger'[f].released[c] \in Nat
          /\ ledger[f].received[c] \in Nat /\ ledger[f].released[c] \in Nat
          /\ Paid(inner[f].payments[c]) \in Nat /\ Paid(p) \in Nat
      BY <1>1, <1>2, HeldType, HeldTypePrimed DEF Ledger, Held
    <3>2. /\ Held(f, c) = Paid(inner[f].payments[c]) /\ Held(f, c)' = Paid(p)
          /\ ledger'[f].received[c] - ledger'[f].released[c] - Paid(p) =
               ledger[f].received[c] - ledger[f].released[c] - Paid(inner[f].payments[c])
      BY <1>2 DEF Held, PaymentCall
    <3>3. ledger'[f].received[c] = ledger'[f].released[c] + Paid(p)
      <4> DEFINE rc == ledger[f].received[c]
                 rl == ledger[f].released[c]
                 rc2 == ledger'[f].received[c]
                 rl2 == ledger'[f].released[c]
                 o == Paid(inner[f].payments[c])
                 n == Paid(p)
      <4>1. rc \in Nat /\ rl \in Nat /\ rc2 \in Nat /\ rl2 \in Nat /\ o \in Nat /\ n \in Nat
        BY <3>1
      <4>2. rc2 - rl2 - n = rc - rl - o /\ rc = rl + o
        BY <2>1, <3>2
      <4> HIDE DEF rc, rl, rc2, rl2, o, n
      <4>3. rc2 = rl2 + n
        BY <4>1, <4>2
      <4> QED
        BY <4>3 DEF rc2, rl2, n
    <3> QED
      BY <2>2, <3>2, <3>3
  <2>3. CASE d # c
    BY <1>2, <2>1, <2>3 DEF Held, PaymentCall
  <2> QED
    BY <2>2, <2>3
<1>7. ASSUME is_published(f)', NEW d \in Coins
      PROVE  Owed(f, d)' = IF ledger'[f].price[d] > ledger'[f].received[d]
                           THEN ledger'[f].price[d] - ledger'[f].received[d] ELSE 0
  <2>1. is_published(f)
    BY <1>4, <1>7 DEF is_published
  <2>2. /\ Owed(f, d) = IF ledger[f].price[d] > ledger[f].received[d]
                        THEN ledger[f].price[d] - ledger[f].received[d] ELSE 0
        /\ ledger'[f].price = ledger[f].price
    BY <2>1 DEF Books, PaymentCall
  <2>3. CASE d = c
    <3> DEFINE in == ledger'[f].received[c] - ledger[f].received[c]
    <3>1. /\ in \in Nat
          /\ Owed(f, c)' = IF Owed(f, c) > in THEN Owed(f, c) - in ELSE 0
      BY <1>2, <2>1 DEF PaymentCall, Owed
    <3>2. /\ ledger'[f].received[c] \in Nat /\ ledger[f].received[c] \in Nat
          /\ ledger[f].price[c] \in Nat
      BY <1>1 DEF Ledger
    <3> QED
      BY <2>2, <2>3, <3>1, <3>2
  <2>4. CASE d # c
    BY <1>2, <2>2, <2>4 DEF Owed, PaymentCall
  <2> QED
    BY <2>3, <2>4
<1>8. inner'[f].is_published => is_published(f)'
  BY <1>4 DEF Books, is_published
<1> QED
  BY <1>3, <1>5, <1>6, <1>7, <1>8 DEF Books

\* A finding is created and destroyed with empty books.
LEMMA BooksCreate ==
  ASSUME TypeOK, NEW f \in Findings, NEW b \in Bounties, NEW h \in Hashes,
         create_v1(f, b, h), Books(f)
  PROVE  Books(f)'
<1>1. /\ object[f] = "free" /\ object'[f] = "live"
      /\ inner'[f] = [NoFinding EXCEPT !.bug_bounty_id = b, !.submission_hash = h]
      /\ ledger' = ledger
  BY DEF create_v1, TypeOK
<1>2. ledger'[f] = NewLedger
  BY <1>1 DEF Books
<1>3. /\ inner'[f].payments = NoPayments /\ inner'[f].payed_count = 0
      /\ inner'[f].is_published = FALSE
      /\ inner'[f].public_report_blob = None /\ inner'[f].error_message_blob = None
  BY <1>1 DEF NoFinding
<1>4. \A c \in Coins : inner'[f].payments[c] = None
  BY <1>3 DEF NoPayments
<1>5. SettledCoins(f)' = {}
  BY <1>4 DEF SettledCoins, Settled
<1>6. \A c \in Coins : Held(f, c)' = 0
  BY <1>4 DEF Held, Paid
<1>7. ~is_published(f)'
  BY <1>3 DEF is_published, status_v1
<1>8. /\ ledger'[f].drift = 0
      /\ \A c \in Coins : ledger'[f].received[c] = 0 /\ ledger'[f].released[c] = 0
  BY <1>2 DEF NewLedger, ZeroCoins
<1>9. Cardinality(SettledCoins(f)') = 0
  BY <1>5, FS_EmptySet
<1> QED
  BY <1>1, <1>3, <1>6, <1>7, <1>8, <1>9 DEF Books

LEMMA BooksDestroy ==
  ASSUME TypeOK, NEW f \in Findings, NEW cap \in Findings, destroy_v1(cap, f), Books(f)
  PROVE  Books(f)'
<1>1. /\ object'[f] = "deleted" /\ inner'[f] = NoFinding /\ ledger' = ledger
      /\ \A c \in Coins : inner[f].payments[c] = None
  BY DEF destroy_v1, TypeOK, Contained
<1>2. /\ \A c \in Coins : inner'[f].payments[c] = None
      /\ inner'[f].is_published = FALSE
      /\ inner'[f].public_report_blob = None /\ inner'[f].error_message_blob = None
  BY <1>1 DEF NoFinding, NoPayments
<1>3. \A c \in Coins : Held(f, c)' = Held(f, c)
  BY <1>1, <1>2 DEF Held
<1>4. ~is_published(f)'
  BY <1>2 DEF is_published, status_v1
<1> QED
  BY <1>1, <1>2, <1>3, <1>4 DEF Books

\* Filing a report leaves the payments alone, and does not publish.
SamePayments(f) ==
  /\ object'[f] = "live" /\ object[f] = "live"
  /\ inner'[f].payments = inner[f].payments
  /\ inner'[f].payed_count = inner[f].payed_count
  /\ ledger'[f].received = ledger[f].received
  /\ ledger'[f].released = ledger[f].released
  /\ ledger'[f].drift = ledger[f].drift

LEMMA ReportCall ==
  ASSUME TypeOK, NEW f \in Findings,
         \/ \E public \in Blob : \E private \in Option(Blob) :
              commit(f, public, private) \/ commit_for_testing(f, public, private)
         \/ \E error \in Blob : report_error(f, error) \/ report_error_for_testing(f, error)
  PROVE  /\ SamePayments(f)
         /\ \A g \in Findings \ {f} : inner'[g] = inner[g] /\ ledger'[g] = ledger[g]
         /\ object' = object
         /\ is_draft(f)
         /\ inner'[f].is_published = inner[f].is_published
<1>1. /\ inner[f] \in FindingV1 /\ inner \in [Findings -> FindingV1]
      /\ ledger[f] \in Ledger /\ ledger \in [Findings -> Ledger]
  BY DEF TypeOK
<1>2. ASSUME NEW public \in Blob, NEW private \in Option(Blob),
             commit(f, public, private) \/ commit_for_testing(f, public, private)
      PROVE  /\ \A g \in Findings \ {f} : inner'[g] = inner[g]
             /\ inner'[f].payments = inner[f].payments
             /\ inner'[f].payed_count = inner[f].payed_count
             /\ inner'[f].is_published = inner[f].is_published
             /\ is_draft(f) /\ object' = object /\ object[f] = "live"
             /\ ledger' = ledger \/ MarkTesting(f)
  BY <1>1, <1>2 DEF commit, commit_for_testing, FillReports, FindingV1, Live
<1>3. ASSUME NEW error \in Blob, report_error(f, error) \/ report_error_for_testing(f, error)
      PROVE  /\ \A g \in Findings \ {f} : inner'[g] = inner[g]
             /\ inner'[f].payments = inner[f].payments
             /\ inner'[f].payed_count = inner[f].payed_count
             /\ inner'[f].is_published = inner[f].is_published
             /\ is_draft(f) /\ object' = object /\ object[f] = "live"
             /\ ledger' = ledger \/ MarkTesting(f)
  BY <1>1, <1>3 DEF report_error, report_error_for_testing, FindingV1, Live
<1>4. ASSUME ledger' = ledger \/ MarkTesting(f)
      PROVE  /\ \A g \in Findings \ {f} : ledger'[g] = ledger[g]
             /\ ledger'[f].received = ledger[f].received
             /\ ledger'[f].released = ledger[f].released
             /\ ledger'[f].drift = ledger[f].drift
  BY <1>1, <1>4 DEF MarkTesting, Ledger
<1> QED
  BY <1>2, <1>3, <1>4 DEF SamePayments

LEMMA BooksReport ==
  ASSUME TypeOK, NEW f \in Findings, SamePayments(f), is_draft(f),
         inner'[f].is_published = inner[f].is_published, Books(f)
  PROVE  Books(f)'
<1>1. inner[f].is_published \in BOOLEAN
  BY DEF TypeOK, FindingV1
<1>2. inner[f].is_published = FALSE
  BY <1>1 DEF Books, is_draft, is_published
<1>3. ~is_published(f)'
  BY <1>2 DEF is_published, status_v1
<1>4. SettledCoins(f)' = SettledCoins(f)
  BY DEF SettledCoins, SamePayments
<1>5. \A c \in Coins : Held(f, c)' = Held(f, c)
  BY DEF Held, SamePayments
<1> QED
  BY <1>2, <1>3, <1>4, <1>5 DEF Books, SamePayments

LEMMA BooksPublish ==
  ASSUME TypeOK, NEW f \in Findings, NEW cap \in Findings, publish(cap, f), Books(f)
  PROVE  Books(f)'
<1>1. /\ inner[f] \in FindingV1 /\ inner \in [Findings -> FindingV1]
      /\ ledger[f] \in Ledger /\ ledger \in [Findings -> Ledger]
  BY DEF TypeOK
<1>2. /\ object[f] = "live" /\ object'[f] = "live"
      /\ inner'[f].is_published = TRUE
      /\ inner'[f].public_report_blob = inner[f].public_report_blob
      /\ inner'[f].error_message_blob = inner[f].error_message_blob
      /\ inner'[f].payments = inner[f].payments
      /\ inner'[f].payed_count = inner[f].payed_count
  BY <1>1 DEF publish, assert_owner_cap, Live, FindingV1
<1>3. ledger'[f] = [ledger[f] EXCEPT !.price =
                      [c \in Coins |-> ledger[f].received[c] + Owed(f, c)]]
  BY <1>1 DEF publish
<1>4. /\ ledger'[f].received = ledger[f].received
      /\ ledger'[f].released = ledger[f].released
      /\ ledger'[f].drift = ledger[f].drift
      /\ \A c \in Coins : ledger'[f].price[c] = ledger[f].received[c] + Owed(f, c)
  BY <1>1, <1>3 DEF Ledger
<1>5. is_published(f)'
  BY <1>2 DEF publish, is_committed, is_published, status_v1
<1>6. SettledCoins(f)' = SettledCoins(f)
  BY <1>2 DEF SettledCoins
<1>7. \A c \in Coins : Held(f, c)' = Held(f, c) /\ Owed(f, c)' = Owed(f, c)
  BY <1>2 DEF Held, Owed
<1>8. \A c \in Coins : Owed(f, c) \in Nat /\ ledger[f].received[c] \in Nat
  BY <1>1, HeldType DEF Ledger
<1>9. \A c \in Coins :
        Owed(f, c)' = IF ledger'[f].price[c] > ledger'[f].received[c]
                      THEN ledger'[f].price[c] - ledger'[f].received[c] ELSE 0
  BY <1>4, <1>7, <1>8
<1> QED
  BY <1>2, <1>4, <1>5, <1>6, <1>7, <1>9 DEF Books

-----------------------------------------------------------------------------
(* The invariant and what follows from it *)

LEMMA BooksStep == ASSUME IInv, Next PROVE IInv'
<1>1. TypeOK /\ TypeOK' /\ \A f \in Findings : Books(f)
  BY TypingStep DEF IInv
<1>2. ASSUME NEW f \in Findings,
             \A g \in Findings \ {f} : /\ object'[g] = object[g]
                                       /\ inner'[g] = inner[g]
                                       /\ ledger'[g] = ledger[g],
             Books(f)'
      PROVE  IInv'
  BY <1>1, <1>2, BooksFrame DEF IInv
<1>3. ASSUME NEW f \in Findings, NEW b \in Bounties, NEW h \in Hashes, create_v1(f, b, h)
      PROVE  IInv'
  <2>1. Books(f)'
    BY <1>1, <1>3, BooksCreate
  <2>2. \A g \in Findings \ {f} : /\ object'[g] = object[g] /\ inner'[g] = inner[g]
                                  /\ ledger'[g] = ledger[g]
    BY <1>1, <1>3 DEF create_v1, TypeOK
  <2> QED
    BY <2>1, <2>2, <1>2
<1>4. ASSUME NEW f \in Findings, NEW cap \in Findings, destroy_v1(cap, f)
      PROVE  IInv'
  <2>1. Books(f)'
    BY <1>1, <1>4, BooksDestroy
  <2>2. \A g \in Findings \ {f} : /\ object'[g] = object[g] /\ inner'[g] = inner[g]
                                  /\ ledger'[g] = ledger[g]
    BY <1>1, <1>4 DEF destroy_v1, TypeOK
  <2> QED
    BY <2>1, <2>2, <1>2
<1>5. ASSUME NEW f \in Findings, NEW cap \in Findings, publish(cap, f)
      PROVE  IInv'
  <2>1. Books(f)'
    BY <1>1, <1>5, BooksPublish
  <2>2. \A g \in Findings \ {f} : /\ object'[g] = object[g] /\ inner'[g] = inner[g]
                                  /\ ledger'[g] = ledger[g]
    BY <1>1, <1>5 DEF publish, TypeOK
  <2> QED
    BY <2>1, <2>2, <1>2
<1>6. ASSUME NEW f \in Findings,
             \/ \E public \in Blob : \E private \in Option(Blob) :
                  commit(f, public, private) \/ commit_for_testing(f, public, private)
             \/ \E error \in Blob : report_error(f, error) \/ report_error_for_testing(f, error)
      PROVE  IInv'
  <2>1. /\ SamePayments(f)
        /\ \A g \in Findings \ {f} : inner'[g] = inner[g] /\ ledger'[g] = ledger[g]
        /\ object' = object
        /\ is_draft(f)
        /\ inner'[f].is_published = inner[f].is_published
    BY <1>1, <1>6, ReportCall
  <2>2. Books(f)'
    BY <1>1, <2>1, BooksReport
  <2> QED
    BY <2>1, <2>2, <1>2
<1>7. ASSUME NEW f \in Findings, NEW c \in Coins, NEW p \in Option(PaymentV1),
             PaymentCall(f, c, p)
      PROVE  IInv'
  <2>1. Books(f)'
    BY <1>1, <1>7, BooksPayment
  <2>2. \A g \in Findings \ {f} : /\ object'[g] = object[g] /\ inner'[g] = inner[g]
                                  /\ ledger'[g] = ledger[g]
    BY <1>7 DEF PaymentCall
  <2> QED
    BY <2>1, <2>2, <1>2
<1>8. ASSUME NEW m \in Message, EnclaveSigns(m)
      PROVE  IInv'
  BY <1>1, <1>8, BooksFrame DEF EnclaveSigns, IInv
<1>9. ASSUME NEW f \in Findings, AnyoneCalls(f) PROVE IInv'
  <2>1. ASSUME NEW c \in Coins, NEW amount \in 0 .. MAX_U64, pay(f, c, amount)
        PROVE  IInv'
    BY <1>1, <1>7, <2>1, PayCall
  <2> QED
    BY <1>3, <1>6, <1>9, <2>1 DEF AnyoneCalls
<1>10. ASSUME NEW f \in Findings, NEW cap \in Findings, OwnerCalls(cap, f) PROVE IInv'
  <2>1. ASSUME NEW c \in Coins, withdraw(cap, f, c) PROVE IInv'
    BY <1>1, <1>7, <2>1, WithdrawCall
  <2>2. ASSUME NEW c \in Coins, NEW requested \in 0 .. MAX_U64,
               add_payment(cap, f, c, requested)
        PROVE  IInv'
    BY <1>1, <1>7, <2>2, AddCall
  <2>3. ASSUME NEW c \in Coins, NEW requested \in 0 .. MAX_U64,
               set_payment_v1(cap, f, c, requested)
        PROVE  IInv'
    BY <1>1, <1>7, <2>3, SetCall
  <2> QED
    BY <1>4, <1>5, <1>10, <2>1, <2>2, <2>3 DEF OwnerCalls
<1> QED
  BY <1>8, <1>9, <1>10 DEF Next

LEMMA InitBooks == ASSUME Init PROVE IInv
<1>1. TypeOK
  BY DEF Init, TypeOK, NoFinding, FindingV1, NoPayments, Option, NewLedger, Ledger, ZeroCoins
<1>2. ASSUME NEW f \in Findings PROVE Books(f)
  <2>1. /\ object[f] = "free" /\ inner[f] = NoFinding /\ ledger[f] = NewLedger
    BY DEF Init
  <2>2. /\ inner[f].is_published = FALSE /\ inner[f].public_report_blob = None
        /\ inner[f].error_message_blob = None
        /\ \A c \in Coins : inner[f].payments[c] = None
        /\ \A c \in Coins : ledger[f].received[c] = 0 /\ ledger[f].released[c] = 0
    BY <2>1 DEF NoFinding, NoPayments, NewLedger, ZeroCoins
  <2>3. ~is_published(f) /\ \A c \in Coins : Held(f, c) = 0
    BY <2>2 DEF is_published, status_v1, Held, Paid
  <2> QED
    BY <2>1, <2>2, <2>3 DEF Books
<1> QED
  BY <1>1, <1>2 DEF IInv

THEOREM Invariance == Spec => []IInv
<1>1. IInv /\ UNCHANGED vars => IInv'
  <2> SUFFICES ASSUME IInv, UNCHANGED vars PROVE IInv'
    OBVIOUS
  <2>1. object' = object /\ inner' = inner /\ ledger' = ledger /\ signed' = signed
    BY DEF vars
  <2>2. TypeOK' /\ \A f \in Findings : Books(f)
    BY <2>1 DEF IInv, TypeOK
  <2> QED
    BY <2>1, <2>2, BooksFrame DEF IInv
<1>2. IInv /\ [Next]_vars => IInv'
  BY <1>1, BooksStep
<1> QED
  BY InitBooks, <1>2, PTL DEF Spec

\* payed_count of a live finding is the number of its settled payments plus the
\* settled payments that set_payment_v1 has replaced, so it never underflows.
THEOREM CountIsNeverShort == Spec => []PayedCountDrift
<1>1. IInv => PayedCountDrift
  BY DEF IInv, Books, PayedCountDrift, Live
<1> QED
  BY Invariance, <1>1, PTL

\* No coin is lost, minted or burnt by the contract, whatever is called.
THEOREM Conservation == Spec => []CoinsConserved
<1>1. IInv => CoinsConserved
  BY DEF IInv, Books, CoinsConserved
<1> QED
  BY Invariance, <1>1, PTL

\* The price at publication is what is paid, in whatever instalments.
THEOREM PriceIsHonoured == Spec => []PriceHonoured
<1>1. IInv => PriceHonoured
  BY DEF IInv, Books, PriceHonoured, Live
<1> QED
  BY Invariance, <1>1, PTL

\* If nothing drifted, is_paid means that every request is settled.
LEMMA PaidMeansSettled ==
  ASSUME IInv, NEW f \in Live, ledger[f].drift = 0, is_paid(f), NEW c \in Coins
  PROVE  Owed(f, c) = 0
<1>1. f \in Findings /\ object[f] = "live" /\ inner[f] \in FindingV1
  BY DEF Live, IInv, TypeOK
<1>2. IsFiniteSet(Contained(f)) /\ SettledCoins(f) \in SUBSET Contained(f)
  BY FindingAssumption, FS_Subset DEF Contained, SettledCoins, Settled
<1>3. /\ Cardinality(SettledCoins(f)) \in Nat /\ Cardinality(Contained(f)) \in Nat
      /\ Cardinality(SettledCoins(f)) <= Cardinality(Contained(f))
      /\ Cardinality(Contained(f)) = Cardinality(SettledCoins(f)) =>
           SettledCoins(f) = Contained(f)
  BY <1>2, FS_Subset, FS_CardinalityType
<1>4. inner[f].payed_count = Cardinality(SettledCoins(f))
  BY <1>1, <1>3 DEF IInv, Books
<1>5. SettledCoins(f) = Contained(f)
  BY <1>3, <1>4 DEF is_paid
<1>6. inner[f].payments[c] = None \/ Settled(inner[f].payments[c])
  BY <1>5 DEF SettledCoins, Contained
<1> QED
  BY <1>6 DEF Owed, Due

LEMMA OpenedWhenPaid == IInv => PrivateReportPaidFor
<1> SUFFICES ASSUME IInv, NEW f \in Findings, NEW b \in Bounties,
                    BountyMayOpen(b, [id |-> f, field |-> "private"]),
                    ledger[f].drift = 0, NEW c \in Coins
             PROVE  ledger[f].received[c] >= ledger[f].price[c]
  BY DEF PrivateReportPaidFor
<1>1. f \in Live /\ is_published(f) /\ is_paid(f)
  BY DEF BountyMayOpen, seal_approve_with_bug_bounty, approve
<1>2. Owed(f, c) = 0
  BY <1>1, PaidMeansSettled
<1>3. ledger[f].received[c] \in Nat /\ ledger[f].price[c] \in Nat
  BY DEF IInv, TypeOK, Ledger
<1>4. Owed(f, c) = IF ledger[f].price[c] > ledger[f].received[c]
                   THEN ledger[f].price[c] - ledger[f].received[c] ELSE 0
  BY <1>1 DEF IInv, Books
<1> QED
  BY <1>2, <1>3, <1>4

\* The bounty reads the private report only after the price came in, unless
\* set_payment_v1 replaced a settled payment before.
THEOREM PaidBeforeRead == Spec => []PrivateReportPaidFor
BY Invariance, OpenedWhenPaid, PTL

-----------------------------------------------------------------------------
(* A published finding *)

\* A payment call on a published finding leaves it paid if it was.
LEMMA StaysPaid ==
  ASSUME IInv, TypeOK', NEW f \in Findings, NEW c \in Coins, NEW p \in Option(PaymentV1),
         PaymentCall(f, c, p), is_published(f), is_paid(f)
  PROVE  is_paid(f)'
<1> DEFINE old == inner[f].payments[c]
<1>1. /\ ledger'[f].drift = ledger[f].drift
      /\ inner'[f].payed_count - ledger'[f].drift =
           inner[f].payed_count - ledger[f].drift - Counted(old) + Counted(p)
      /\ Present(p) - Present(old) <= Counted(p) - Counted(old)
  BY DEF PaymentCall
<1>2. /\ Cardinality(Contained(f)) \in Nat
      /\ Cardinality(Contained(f)') = Cardinality(Contained(f)) - Present(old) + Present(p)
  BY CallCounts DEF IInv
<1>3. /\ inner[f].payed_count \in Nat /\ inner'[f].payed_count \in Nat
      /\ ledger[f].drift \in Nat
  BY DEF IInv, TypeOK, FindingV1, Ledger
<1>4. /\ Counted(old) \in Nat /\ Counted(p) \in Nat
      /\ Present(old) \in Nat /\ Present(p) \in Nat
  BY DEF Counted, Present
<1>5. inner[f].payed_count >= Cardinality(Contained(f))
  BY DEF is_paid
<1>6. inner'[f].payed_count >= Cardinality(Contained(f)')
  <2> HIDE DEF old
  <2> QED
    BY <1>1, <1>2, <1>3, <1>4, <1>5
<1> QED
  BY <1>6 DEF is_paid

LEMMA PublishedStep ==
  ASSUME IInv, Next, NEW f \in Findings, f \in Live, is_published(f)
  PROVE  /\ object'[f] = "live"
         /\ SameReports(f)
         /\ is_paid(f) => is_paid(f)'
<1> DEFINE Goal == /\ object'[f] = "live"
                   /\ SameReports(f)
                   /\ is_paid(f) => is_paid(f)'
<1>1. /\ TypeOK /\ TypeOK' /\ object[f] = "live"
      /\ ~is_draft(f) /\ ~is_committed(f)
  BY TypingStep DEF IInv, Live, is_published, is_draft, is_committed
<1>2. ASSUME object'[f] = object[f], inner'[f] = inner[f] PROVE Goal
  <2>1. Contained(f)' = Contained(f)
    BY <1>2 DEF Contained
  <2> QED
    BY <1>1, <1>2, <2>1 DEF SameReports, is_paid
<1>3. ASSUME NEW g \in Findings, NEW c \in Coins, NEW p \in Option(PaymentV1),
             PaymentCall(g, c, p)
      PROVE  Goal
  <2>1. CASE g = f
    <3>1. object'[f] = "live" /\ SameReports(f)
      BY <1>1, <1>3, <2>1 DEF PaymentCall
    <3>2. is_paid(f) => is_paid(f)'
      BY <1>1, <1>3, <2>1, StaysPaid
    <3> QED
      BY <3>1, <3>2
  <2>2. CASE g # f
    BY <1>2, <1>3, <2>2 DEF PaymentCall
  <2> QED
    BY <2>1, <2>2
<1>4. ASSUME NEW g \in Findings, AnyoneCalls(g) PROVE Goal
  <2>1. ASSUME NEW b \in Bounties, NEW h \in Hashes, create_v1(g, b, h) PROVE Goal
    <3>1. g # f
      BY <1>1, <2>1 DEF create_v1
    <3> QED
      BY <1>1, <1>2, <2>1, <3>1 DEF create_v1, TypeOK
  <2>2. ASSUME NEW c \in Coins, NEW amount \in 0 .. MAX_U64, pay(g, c, amount) PROVE Goal
    BY <1>1, <1>3, <2>2, PayCall
  <2>3. ASSUME \/ \E public \in Blob : \E private \in Option(Blob) :
                    commit(g, public, private) \/ commit_for_testing(g, public, private)
               \/ \E error \in Blob :
                    report_error(g, error) \/ report_error_for_testing(g, error)
        PROVE  Goal
    <3>1. /\ \A h \in Findings \ {g} : inner'[h] = inner[h] /\ ledger'[h] = ledger[h]
          /\ object' = object
          /\ is_draft(g)
      BY <1>1, <2>3, ReportCall
    <3>2. g # f
      BY <1>1, <3>1
    <3> QED
      BY <1>2, <3>1, <3>2
  <2> QED
    BY <1>4, <2>1, <2>2, <2>3 DEF AnyoneCalls
<1>5. ASSUME NEW g \in Findings, NEW cap \in Findings, OwnerCalls(cap, g) PROVE Goal
  <2>1. ASSUME publish(cap, g) PROVE Goal
    <3>1. g # f
      BY <1>1, <2>1 DEF publish
    <3> QED
      BY <1>1, <1>2, <2>1, <3>1 DEF publish, TypeOK
  <2>2. ASSUME destroy_v1(cap, g) PROVE Goal
    <3>1. g # f
      BY <2>2 DEF destroy_v1
    <3> QED
      BY <1>1, <1>2, <2>2, <3>1 DEF destroy_v1, TypeOK
  <2>3. ASSUME NEW c \in Coins, withdraw(cap, g, c) PROVE Goal
    BY <1>1, <1>3, <2>3, WithdrawCall
  <2>4. ASSUME NEW c \in Coins, NEW requested \in 0 .. MAX_U64,
               add_payment(cap, g, c, requested)
        PROVE  Goal
    BY <1>1, <1>3, <2>4, AddCall
  <2>5. ASSUME NEW c \in Coins, NEW requested \in 0 .. MAX_U64,
               set_payment_v1(cap, g, c, requested)
        PROVE  Goal
    BY <1>1, <1>3, <2>5, SetCall
  <2> QED
    BY <1>5, <2>1, <2>2, <2>3, <2>4, <2>5 DEF OwnerCalls
<1>6. ASSUME NEW m \in Message, EnclaveSigns(m) PROVE Goal
  BY <1>2, <1>6 DEF EnclaveSigns
<1> QED
  BY <1>4, <1>5, <1>6 DEF Next

\* A report that is open to the bounty stays open while the finding is there,
\* keeps its reports and stays paid.
LEMMA StaysOpen ==
  ASSUME NEW b \in Bounties, NEW id \in SealId, NEW f \in Findings,
         seal_approve_with_bug_bounty(id, b, f),
         object'[f] = "live", SameReports(f), is_paid(f) => is_paid(f)'
  PROVE  BountyMayOpen(b, id)'
<1>1. is_published(f)' /\ approve(id, f)' /\ f \in Live'
  BY DEF seal_approve_with_bug_bounty, SameReports, is_published, status_v1,
         approve, approve_any_id, Live
<1>2. seal_approve_with_bug_bounty(id, b, f)'
  BY <1>1 DEF seal_approve_with_bug_bounty, SameReports
<1> QED
  BY <1>2 DEF BountyMayOpen

\* Access that the bounty has is never taken away.
THEOREM AccessIsForGood == Spec => BountyAccessNeverRevoked
<1> DEFINE Kept == \A b \in Bounties, id \in SealId :
                     BountyMayOpen(b, id) => BountyMayOpen(b, id)'
<1>1. ASSUME IInv, Next PROVE Kept
  <2> SUFFICES ASSUME NEW b \in Bounties, NEW id \in SealId, BountyMayOpen(b, id)
               PROVE  BountyMayOpen(b, id)'
    OBVIOUS
  <2>1. PICK f \in Findings : seal_approve_with_bug_bounty(id, b, f)
    BY DEF BountyMayOpen
  <2>2. /\ object'[f] = "live" /\ SameReports(f)
        /\ is_paid(f) => is_paid(f)'
    BY <1>1, <2>1, PublishedStep DEF seal_approve_with_bug_bounty
  <2> QED
    BY <2>1, <2>2, StaysOpen
<1>2. ASSUME UNCHANGED vars PROVE Kept
  BY <1>2 DEF vars, BountyMayOpen, seal_approve_with_bug_bounty, is_published, status_v1,
              approve, approve_any_id, Live, is_paid, Contained
<1>3. IInv /\ [Next]_vars => Kept
  BY <1>1, <1>2
<1>4. IInv /\ [Next]_vars => [Kept]_vars
  BY <1>3
<1> QED
  BY Invariance, <1>4, PTL DEF Spec, BountyAccessNeverRevoked

-----------------------------------------------------------------------------
(* Where the reports come from *)

ReportsOf(f) == [finding_id |-> f, submission_hash |-> inner[f].submission_hash,
                 public_blob_id |-> inner[f].public_report_blob,
                 private_blob_id |-> inner[f].private_report_blob,
                 error_blob_id |-> inner[f].error_message_blob]

NoReports(f) == /\ inner[f].public_report_blob = None
                /\ inner[f].private_report_blob = None
                /\ inner[f].error_message_blob = None

\* A finding that no testing call has touched has no report at all, or those
\* of one message: ReportsSigned alone does not say that a draft has no
\* private report, which an error would then be reported along with.
Genuine(f) == \/ object[f] # "live"
              \/ ledger[f].testing
              \/ NoReports(f)
              \/ ~is_draft(f) /\ ReportsOf(f) \in signed

LEMMA GenuineFrame ==
  ASSUME NEW f \in Findings, Genuine(f), SameReports(f),
         object'[f] = object[f], ledger[f].testing => ledger'[f].testing,
         \A m \in signed : m \in signed'
  PROVE  Genuine(f)'
<1>1. CASE object[f] # "live" \/ ledger[f].testing
  BY <1>1 DEF Genuine
<1>2. CASE NoReports(f)
  BY <1>2 DEF Genuine, SameReports, NoReports
<1>3. CASE ~is_draft(f) /\ ReportsOf(f) \in signed
  <2>1. ReportsOf(f)' = ReportsOf(f)
    BY DEF SameReports, ReportsOf
  <2>2. ~is_draft(f)'
    BY <1>3 DEF SameReports, is_draft, status_v1
  <2> QED
    BY <1>3, <2>1, <2>2 DEF Genuine
<1> QED
  BY <1>1, <1>2, <1>3 DEF Genuine

\* No call unmarks a finding, not even the ones that move its history on.
LEMMA StaysMarked ==
  ASSUME TypeOK, NEW f \in Findings, NEW c \in Coins, NEW n \in Nat, NEW cap \in Findings,
         \/ Receive(f, c, n) \/ Release(f, c, n) \/ publish(cap, f)
         \/ set_payment_v1(cap, f, c, n) \/ UNCHANGED ledger,
         NEW g \in Findings, ledger[g].testing
  PROVE  ledger'[g].testing
<1>1. ledger \in [Findings -> Ledger]
  BY DEF TypeOK
<1>2. CASE Receive(f, c, n)
  BY <1>1, <1>2 DEF Receive, Ledger
<1>3. CASE Release(f, c, n)
  BY <1>1, <1>3 DEF Release, Ledger
<1>4. CASE publish(cap, f)
  BY <1>1, <1>4 DEF publish, Ledger
<1>5. CASE set_payment_v1(cap, f, c, n)
  BY <1>1, <1>5 DEF set_payment_v1, Ledger
<1>6. CASE UNCHANGED ledger
  BY <1>6
<1> QED
  BY <1>2, <1>3, <1>4, <1>5, <1>6

LEMMA GenuineCommit ==
  ASSUME TypeOK, NEW f \in Findings, NEW public \in Blob,
         NEW private \in Option(Blob), commit(f, public, private)
  PROVE  Genuine(f)'
<1> DEFINE priv == IF private = None THEN None ELSE private.blob_id
<1>1. /\ is_draft(f) /\ UNCHANGED <<object, signed, ledger>>
      /\ verify_signature(f, public.blob_id, priv, None)
      /\ FillReports(f, public.blob_id, priv)
  BY DEF commit
<1> HIDE DEF priv
<1>2. PICK m \in signed : /\ m.finding_id = f
                          /\ m.submission_hash = inner[f].submission_hash
                          /\ m.public_blob_id = public.blob_id
                          /\ m.private_blob_id = priv
                          /\ m.error_blob_id = None
  BY <1>1 DEF verify_signature
<1>3. m = [finding_id |-> f, submission_hash |-> inner[f].submission_hash,
           public_blob_id |-> public.blob_id, private_blob_id |-> priv,
           error_blob_id |-> None]
  BY <1>2 DEF TypeOK, Message
<1>4. inner[f].error_message_blob = None
  BY <1>1 DEF is_draft, status_v1
<1>5. /\ inner'[f].submission_hash = inner[f].submission_hash
      /\ inner'[f].public_report_blob = public.blob_id
      /\ inner'[f].private_report_blob = priv
      /\ inner'[f].error_message_blob = None
  BY <1>1, <1>4 DEF FillReports, TypeOK, FindingV1
<1>6. ReportsOf(f)' = m
  BY <1>3, <1>5 DEF ReportsOf
<1>7. public.blob_id # None
  BY FindingAssumption DEF Blob
<1>8. ~is_draft(f)'
  BY <1>5, <1>7 DEF is_draft, status_v1
<1> QED
  BY <1>1, <1>6, <1>8 DEF Genuine

LEMMA GenuineError ==
  ASSUME TypeOK, NEW f \in Findings, Genuine(f), NEW error \in Blob, report_error(f, error)
  PROVE  Genuine(f)'
<1>1. /\ is_draft(f) /\ UNCHANGED <<object, signed, ledger>>
      /\ object[f] = "live"
      /\ verify_signature(f, None, None, error.blob_id)
      /\ inner' = [inner EXCEPT ![f].error_message_blob = error.blob_id]
  BY DEF report_error, Live
<1>2. CASE ledger[f].testing
  BY <1>1, <1>2 DEF Genuine
<1>3. CASE NoReports(f)
  <2>1. PICK m \in signed : /\ m.finding_id = f
                            /\ m.submission_hash = inner[f].submission_hash
                            /\ m.public_blob_id = None
                            /\ m.private_blob_id = None
                            /\ m.error_blob_id = error.blob_id
    BY <1>1 DEF verify_signature
  <2>2. m = [finding_id |-> f, submission_hash |-> inner[f].submission_hash,
             public_blob_id |-> None, private_blob_id |-> None,
             error_blob_id |-> error.blob_id]
    BY <2>1 DEF TypeOK, Message
  <2>3. /\ inner'[f].submission_hash = inner[f].submission_hash
        /\ inner'[f].public_report_blob = None
        /\ inner'[f].private_report_blob = None
        /\ inner'[f].error_message_blob = error.blob_id
    BY <1>1, <1>3 DEF NoReports, TypeOK, FindingV1
  <2>4. ReportsOf(f)' = m
    BY <2>2, <2>3 DEF ReportsOf
  <2>5. error.blob_id # None
    BY FindingAssumption DEF Blob
  <2>6. ~is_draft(f)'
    BY <2>3, <2>5 DEF is_draft, status_v1
  <2> QED
    BY <1>1, <2>4, <2>6 DEF Genuine
<1> QED
  BY <1>1, <1>2, <1>3 DEF Genuine

LEMMA GenuineStep ==
  ASSUME TypeOK, \A f \in Findings : Genuine(f), Next, NEW f \in Findings
  PROVE  Genuine(f)'
<1>t. /\ object \in [Findings -> {"free", "live", "deleted"}]
      /\ inner \in [Findings -> FindingV1] /\ ledger \in [Findings -> Ledger]
      /\ MAX_U64 \in Nat
  BY FindingAssumption DEF TypeOK
<1>1. ASSUME object'[f] = object[f], inner'[f] = inner[f],
             ledger[f].testing => ledger'[f].testing, \A m \in signed : m \in signed'
      PROVE  Genuine(f)'
  <2>1. SameReports(f)
    BY <1>1 DEF SameReports
  <2> QED
    BY <1>1, <2>1, GenuineFrame
<1>2. ASSUME NEW g \in Findings, NEW c \in Coins, NEW p \in Option(PaymentV1),
             PaymentCall(g, c, p), ledger[f].testing => ledger'[f].testing
      PROVE  Genuine(f)'
  <2>1. object' = object /\ signed' = signed
    BY <1>2 DEF PaymentCall
  <2>2. CASE g = f
    <3>1. SameReports(f)
      BY <1>2, <2>2 DEF PaymentCall
    <3> QED
      BY <1>2, <2>1, <3>1, GenuineFrame
  <2>3. CASE g # f
    <3>1. inner'[f] = inner[f]
      BY <1>2, <2>3 DEF PaymentCall
    <3> QED
      BY <1>1, <1>2, <2>1, <3>1
  <2> QED
    BY <2>2, <2>3
<1>3. ASSUME NEW g \in Findings, NEW b \in Bounties, NEW h \in Hashes, create_v1(g, b, h)
      PROVE  Genuine(f)'
  <2>1. CASE g = f
    <3>1. inner'[f] = [NoFinding EXCEPT !.bug_bounty_id = b, !.submission_hash = h]
      BY <1>t, <1>3, <2>1 DEF create_v1
    <3>2. NoReports(f)'
      BY <3>1 DEF NoFinding, NoReports
    <3> QED
      BY <3>2 DEF Genuine
  <2>2. CASE g # f
    BY <1>t, <1>1, <1>3, <2>2 DEF create_v1
  <2> QED
    BY <2>1, <2>2
<1>4. ASSUME NEW g \in Findings, NEW public \in Blob, NEW private \in Option(Blob),
             commit(g, public, private)
      PROVE  Genuine(f)'
  <2>1. CASE g = f
    BY <1>4, <2>1, GenuineCommit
  <2>2. CASE g # f
    BY <1>t, <1>1, <1>4, <2>2 DEF commit, FillReports
  <2> QED
    BY <2>1, <2>2
<1>5. ASSUME NEW g \in Findings, NEW error \in Blob, report_error(g, error)
      PROVE  Genuine(f)'
  <2>1. CASE g = f
    BY <1>5, <2>1, GenuineError
  <2>2. CASE g # f
    BY <1>t, <1>1, <1>5, <2>2 DEF report_error
  <2> QED
    BY <2>1, <2>2
<1>6. ASSUME NEW g \in Findings,
             \/ \E public \in Blob : \E private \in Option(Blob) :
                  commit_for_testing(g, public, private)
             \/ \E error \in Blob : report_error_for_testing(g, error)
      PROVE  Genuine(f)'
  <2>1. CASE g = f
    <3>1. MarkTesting(f)
      BY <1>6, <2>1 DEF commit_for_testing, report_error_for_testing
    <3>2. ledger'[f].testing
      BY <1>t, <3>1 DEF MarkTesting, Ledger
    <3> QED
      BY <3>2 DEF Genuine
  <2>2. CASE g # f
    <3>1. object' = object /\ signed' = signed /\ MarkTesting(g)
      BY <1>6 DEF commit_for_testing, report_error_for_testing
    <3>2. inner'[f] = inner[f]
      BY <1>t, <1>6, <2>2 DEF commit_for_testing, report_error_for_testing, FillReports
    <3>3. ledger'[f] = ledger[f]
      BY <1>t, <2>2, <3>1 DEF MarkTesting
    <3> QED
      BY <1>1, <3>1, <3>2, <3>3
  <2> QED
    BY <2>1, <2>2
<1>7. ASSUME NEW g \in Findings, NEW cap \in Findings, publish(cap, g)
      PROVE  Genuine(f)'
  <2>1. ledger[f].testing => ledger'[f].testing
    BY <1>t, <1>7 DEF publish, Ledger
  <2>2. object' = object /\ signed' = signed
    BY <1>7 DEF publish
  <2>3. CASE g = f
    <3>1. /\ inner'[f].submission_hash = inner[f].submission_hash
          /\ inner'[f].public_report_blob = inner[f].public_report_blob
          /\ inner'[f].private_report_blob = inner[f].private_report_blob
          /\ inner'[f].error_message_blob = inner[f].error_message_blob
      BY <1>t, <1>7, <2>3 DEF publish, FindingV1
    <3>2. ReportsOf(f)' = ReportsOf(f) /\ (NoReports(f) => NoReports(f)')
      BY <3>1 DEF ReportsOf, NoReports
    <3>3. ~is_draft(f)'
      BY <1>7, <2>3, <3>1 DEF publish, is_committed, is_draft, status_v1
    <3> QED
      BY <2>1, <2>2, <3>2, <3>3 DEF Genuine
  <2>4. CASE g # f
    <3>1. inner'[f] = inner[f]
      BY <1>t, <1>7, <2>4 DEF publish
    <3> QED
      BY <1>1, <2>1, <2>2, <3>1
  <2> QED
    BY <2>3, <2>4
<1>8. ASSUME NEW g \in Findings, NEW cap \in Findings, destroy_v1(cap, g)
      PROVE  Genuine(f)'
  <2>1. CASE g = f
    BY <1>t, <1>8, <2>1 DEF destroy_v1, Genuine
  <2>2. CASE g # f
    BY <1>t, <1>1, <1>8, <2>2 DEF destroy_v1
  <2> QED
    BY <2>1, <2>2
<1>9. ASSUME NEW g \in Findings, AnyoneCalls(g) PROVE Genuine(f)'
  <2>1. ASSUME NEW c \in Coins, NEW amount \in 0 .. MAX_U64, pay(g, c, amount)
        PROVE  Genuine(f)'
    <3>1. Receive(g, c, amount) /\ amount \in Nat
      BY <1>t, <2>1 DEF pay
    <3>2. ledger[f].testing => ledger'[f].testing
      BY <3>1, StaysMarked
    <3> QED
      BY <1>2, <2>1, <3>2, PayCall
  <2> QED
    BY <1>3, <1>4, <1>5, <1>6, <1>9, <2>1 DEF AnyoneCalls
<1>10. ASSUME NEW g \in Findings, NEW cap \in Findings, OwnerCalls(cap, g)
       PROVE  Genuine(f)'
  <2>1. ASSUME NEW c \in Coins, withdraw(cap, g, c) PROVE Genuine(f)'
    <3>1. Release(g, c, Held(g, c)) /\ Held(g, c) \in Nat
      BY <2>1, HeldType DEF withdraw
    <3>2. ledger[f].testing => ledger'[f].testing
      BY <3>1, StaysMarked
    <3> QED
      BY <1>2, <2>1, <3>2, WithdrawCall
  <2>2. ASSUME NEW c \in Coins, NEW requested \in 0 .. MAX_U64,
               add_payment(cap, g, c, requested)
        PROVE  Genuine(f)'
    <3>1. ledger' = ledger
      BY <2>2 DEF add_payment
    <3> QED
      BY <1>2, <2>2, <3>1, AddCall
  <2>3. ASSUME NEW c \in Coins, NEW requested \in 0 .. MAX_U64,
               set_payment_v1(cap, g, c, requested)
        PROVE  Genuine(f)'
    <3>1. ledger[f].testing => ledger'[f].testing
      BY <1>t, <2>3, StaysMarked
    <3> QED
      BY <1>2, <2>3, <3>1, SetCall
  <2> QED
    BY <1>7, <1>8, <1>10, <2>1, <2>2, <2>3 DEF OwnerCalls
<1>11. ASSUME NEW m \in Message, EnclaveSigns(m) PROVE Genuine(f)'
  BY <1>1, <1>11 DEF EnclaveSigns
<1> QED
  BY <1>9, <1>10, <1>11 DEF Next

LEMMA GenuineSigned == (\A f \in Findings : Genuine(f)) => ReportsSigned
BY DEF ReportsSigned, Genuine, Live, NoReports, ReportsOf, is_draft, status_v1

\* Outside the calls meant for testing, the reports of a finding are the ones
\* that the enclave signed for this finding and this submission, in one message.
THEOREM ReportsAreSigned == Spec => []ReportsSigned
<1> DEFINE GInv == TypeOK /\ \A f \in Findings : Genuine(f)
<1>1. Init => GInv
  <2> SUFFICES ASSUME Init PROVE GInv
    OBVIOUS
  <2>1. TypeOK
    BY InitBooks DEF IInv
  <2>2. ASSUME NEW f \in Findings PROVE Genuine(f)
    BY DEF Init, Genuine
  <2> QED
    BY <2>1, <2>2
<1>2. GInv /\ [Next]_vars => GInv'
  <2> SUFFICES ASSUME GInv, [Next]_vars PROVE GInv'
    OBVIOUS
  <2>1. CASE Next
    BY <2>1, TypingStep, GenuineStep
  <2>2. CASE UNCHANGED vars
    <3>1. TypeOK'
      BY <2>2 DEF vars, TypeOK
    <3>2. ASSUME NEW f \in Findings PROVE Genuine(f)'
      BY <2>2 DEF vars, Genuine, NoReports, ReportsOf, is_draft, status_v1
    <3> QED
      BY <3>1, <3>2
  <2> QED
    BY <2>1, <2>2
<1>3. GInv => ReportsSigned
  BY GenuineSigned
<1> QED
  BY <1>1, <1>2, <1>3, PTL DEF Spec
=============================================================================
