------------------------ MODULE CreditLedgerProofs ------------------------
(***************************************************************************)
(* Theorems about CreditLedger, for any requests, grants, charges and      *)
(* sweeping processes: types, what the ledger says of the wallet, one call *)
(* of the provider for an idempotency key, one charge for a settlement,    *)
(* and that the tables implement CreditAccount.                            *)
(*                                                                         *)
(* Most steps only move a handler.  Those that write the tables are of     *)
(* four kinds, and every invariant is shown for the kinds.                 *)
(***************************************************************************)
EXTENDS CreditLedger, FiniteSums, SequenceTheorems, TLAPS

Out == {"reserved", "calling"}

\* A wallet without entries has been created at most; a reservation has a wallet.
WalletOK ==
    /\ ledger = << >> => wallet.version \in {0, 1}
    /\ \A r \in Requests : reservation[r].status # "none" => wallet.version > 0

\* The unique indexes of the reservations, and the reservation of who calls.
ReservationsOK ==
    /\ \A q, r \in Requests : /\ q # r
                              /\ reservation[q].status # "none"
                              /\ reservation[r].status # "none"
                              => KeyOf[q] # KeyOf[r] /\ RunOf[q] # RunOf[r]
    /\ \A r \in Requests : request[r] \in Out => reservation[r].status # "none"

IInv == TypeOK /\ LedgerExplainsWallet /\ WalletOK /\ ReservationsOK /\ UsageMatchesCapture

-----------------------------------------------------------------------------
(* The kinds of steps.                                                     *)

\* Nobody is let out to the provider.
NobodyOut == \A r \in Requests : request'[r] \in Out => request[r] \in Out

QuietStep == UNCHANGED <<wallet, reservation, ledger, usage>> /\ NobodyOut

OpenStep == OpenWallet

GrantStep ==
    /\ \E g \in Grants, a \in Amounts :
        Move([wallet EXCEPT !.version = IF @ = 0 THEN 1 ELSE @], "grant", GrantKeyOf[g], a, 0)
    /\ UNCHANGED <<reservation, usage, request>>

ReserveStep ==
    \E r \in Requests :
        /\ Covered(r) /\ KeysFree(r)
        /\ request' = [request EXCEPT ![r] = "reserved"]
        /\ reservation' = [reservation EXCEPT ![r] =
                [status |-> "reserved", amount |-> HoldOf[r], captured |-> 0]]
        /\ Move(wallet, "reserve", KeyOf[r], -HoldOf[r], HoldOf[r])
        /\ UNCHANGED usage

SettleStep ==
    /\ \E s \in Settlements : Open(s.request) /\ ~ResponseTaken(s) /\ Settle(s)
    /\ UNCHANGED request

\* A release is a settlement of its own request.
LEMMA ReleaseIsTyped ==
    ASSUME NEW r \in Requests
    PROVE  ReleaseOf(r) \in Settlements /\ ReleaseOf(r).request = r
  <1>1. (CHOOSE x \in Responses : TRUE) \in Responses
    BY LedgerAssumption
  <1>2. QED
    BY <1>1 DEF ReleaseOf, Settlements

\* What the provider may answer settles as a settlement does.
LEMMA AnswersAreTyped ==
    ASSUME NEW r \in Requests
    PROVE  AnswersOf(r) \subseteq Settlements
  BY ReleaseIsTyped, LedgerAssumption DEF AnswersOf, Settlements

\* A settlement transaction changes the account or nothing.
LEMMA TransactionKinds ==
    ASSUME NEW s \in Settlements, Transaction(s), UNCHANGED request
    PROVE  QuietStep \/ SettleStep
  BY DEF Transaction, QuietStep, NobodyOut, SettleStep

\* Every step is of one of five kinds for the account.
LEMMA StepKinds ==
    ASSUME TypeOK, Next
    PROVE  QuietStep \/ OpenStep \/ GrantStep \/ ReserveStep \/ SettleStep
  <1>1. CASE OpenWallet
    BY <1>1 DEF OpenStep
  <1>2. ASSUME NEW g \in Grants, LookUpGrant(g) PROVE QuietStep
    BY <1>2 DEF LookUpGrant, QuietStep, NobodyOut
  <1>3. ASSUME NEW g \in Grants, CommitGrant(g) PROVE QuietStep \/ GrantStep
    BY <1>3 DEF CommitGrant, QuietStep, NobodyOut, GrantStep
  <1>4. ASSUME NEW r \in Requests, LookUp(r) \/ ProviderFails(r) \/ ProviderAnswers(r)
                                   \/ ClientAborts(r) \/ CrashGateway(r)
        PROVE  QuietStep
    <2>1. /\ UNCHANGED <<wallet, reservation, ledger, usage>>
          /\ request' = [request EXCEPT ![r] = "looked"] \/ request' = [request EXCEPT ![r] = "ended"]
      BY <1>4 DEF LookUp, ProviderFails, ProviderAnswers, ClientAborts, CrashGateway
    <2>2. QED
      BY <2>1 DEF QuietStep, NobodyOut, Out, TypeOK
  <1>5. ASSUME NEW r \in Requests, CallProvider(r) PROVE QuietStep
    BY <1>5 DEF CallProvider, QuietStep, NobodyOut, Out, TypeOK
  <1>6. ASSUME NEW r \in Requests, Reserve(r) PROVE QuietStep \/ ReserveStep
    <2>1. CASE Covered(r) /\ KeysFree(r)
      BY <1>6, <2>1 DEF Reserve, ReserveStep
    <2>2. CASE ~(Covered(r) /\ KeysFree(r))
      BY <1>6, <2>2 DEF Reserve, QuietStep, NobodyOut, Out, TypeOK
    <2>3. QED
      BY <2>1, <2>2
  <1>7. ASSUME NEW r \in Requests, Expire(r) PROVE QuietStep
    BY <1>7 DEF Expire, QuietStep, NobodyOut
  <1>8. ASSUME NEW s \in settling, CommitSettlement(s) PROVE QuietStep \/ SettleStep
    <2>1. s \in Settlements
      BY DEF TypeOK
    <2>2. QED
      BY <1>8, <2>1, TransactionKinds DEF CommitSettlement
  <1>9. ASSUME NEW p \in Replicas, Sweep(p) \/ CrashSweep(p) PROVE QuietStep
    BY <1>9 DEF Sweep, CrashSweep, QuietStep, NobodyOut
  <1>10. ASSUME NEW p \in Replicas, NEW r \in Requests, SweepRelease(p, r)
         PROVE  QuietStep \/ SettleStep
    BY <1>10, ReleaseIsTyped, TransactionKinds DEF SweepRelease
  <1>11. QED
    BY <1>1, <1>2, <1>3, <1>4, <1>5, <1>6, <1>7, <1>8, <1>9, <1>10
       DEF Next, GatewayStep, SweepStep

-----------------------------------------------------------------------------
(* Types.                                                                  *)

Keys == {KeyOf[r] : r \in Requests} \cup {GrantKeyOf[g] : g \in Grants} \cup Requests
Kinds == {"grant", "reserve", "capture", "release"}
Wallets == [available : Int, reserved : Int, version : Nat]

\* The types hold initially.
LEMMA InitTyped == Init => TypeOK
  BY LedgerAssumption
     DEF Init, TypeOK, NoReservation, ReservationStatuses, Handlers, Settlements

\* What one move writes: the row and one entry.
LEMMA MoveTyped ==
    ASSUME ledger \in Seq(Entries), NEW w \in Wallets, NEW kind \in Kinds, NEW key \in Keys,
           NEW a \in Int, NEW h \in Int, Move(w, kind, key, a, h)
    PROVE  wallet' \in Wallets /\ ledger' \in Seq(Entries)
  <1>1. Moved(w, a, h) \in Wallets
    BY DEF Moved, Wallets
  <1>2. [kind |-> kind, key |-> key, available |-> a, reserved |-> h,
         availableAfter |-> Moved(w, a, h).available, reservedAfter |-> Moved(w, a, h).reserved,
         version |-> Moved(w, a, h).version] \in Entries
    BY <1>1 DEF Entries, Wallets, Kinds, Keys
  <1>3. QED
    BY <1>1, <1>2, AppendProperties DEF Move

\* A charge is not negative.
LEMMA ChargeTyped ==
    ASSUME NEW s \in Settlements
    PROVE  Charge(s) \in Nat
  BY DEF Charge, Settlements

\* A settlement keeps the types.
LEMMA SettleTyped ==
    ASSUME TypeOK, NEW s \in Settlements, Transaction(s)
    PROVE  /\ wallet' \in Wallets
           /\ ledger' \in Seq(Entries)
           /\ usage' \subseteq Requests \X Responses
           /\ reservation' \in [Requests -> [status : ReservationStatuses, amount : Nat,
                                             captured : Nat]]
  <1>1. CASE UNCHANGED <<wallet, ledger, usage, reservation>>
    BY <1>1 DEF TypeOK, Wallets
  <1>2. CASE Settle(s)
    <2> DEFINE r == s.request
    <2>1. r \in Requests /\ s.response \in Responses /\ s.hasResult \in BOOLEAN
      BY DEF Settlements
    <2>2. Charge(s) \in Nat
      BY ChargeTyped
    <2>3. reservation[r].amount \in Nat /\ wallet \in Wallets /\ ledger \in Seq(Entries)
      BY <2>1 DEF TypeOK, Wallets
    <2>4. Given(reservation[r].amount, Charge(s)) \in Int /\ -HoldTaken(s) \in Int
      BY <2>2, <2>3 DEF Given, HoldTaken
    <2>5. r \in Keys
      BY <2>1 DEF Keys
    <2>6. (IF s.hasResult THEN "capture" ELSE "release") \in Kinds
      BY DEF Kinds
    <2>7. wallet' \in Wallets /\ ledger' \in Seq(Entries)
      BY <1>2, <2>3, <2>4, <2>5, <2>6, MoveTyped DEF Settle
    <2>8. usage' \subseteq Requests \X Responses
      BY <1>2, <2>1 DEF Settle, SettledUsage, TypeOK
    <2>9. reservation' \in [Requests -> [status : ReservationStatuses, amount : Nat,
                                         captured : Nat]]
      BY <1>2, <2>1, <2>2 DEF Settle, TypeOK, ReservationStatuses
    <2>10. QED
      BY <2>7, <2>8, <2>9
  <1>3. QED
    BY <1>1, <1>2 DEF Transaction

\* Every step keeps the types.
LEMMA StepTyped ==
    ASSUME TypeOK, Next
    PROVE  TypeOK'
  <1>1. CASE OpenWallet
    BY <1>1 DEF OpenWallet, TypeOK
  <1>2. ASSUME NEW g \in Grants, LookUpGrant(g) PROVE TypeOK'
    BY <1>2 DEF LookUpGrant, TypeOK
  <1>3. ASSUME NEW g \in Grants, CommitGrant(g) PROVE TypeOK'
    <2>1. wallet' \in Wallets /\ ledger' \in Seq(Entries)
      <3>1. CASE LedgerHas("grant", GrantKeyOf[g])
        BY <1>3, <3>1 DEF CommitGrant, TypeOK, Wallets
      <3>2. CASE ~LedgerHas("grant", GrantKeyOf[g])
        <4> DEFINE w == [wallet EXCEPT !.version = IF @ = 0 THEN 1 ELSE @]
        <4>1. PICK a \in Amounts : Move(w, "grant", GrantKeyOf[g], a, 0)
          BY <1>3, <3>2 DEF CommitGrant
        <4>2. w \in Wallets
          BY DEF TypeOK, Wallets
        <4>5. a \in Int /\ GrantKeyOf[g] \in Keys /\ "grant" \in Kinds
          BY LedgerAssumption DEF Keys, Kinds
        <4>3. ledger \in Seq(Entries) /\ 0 \in Int
          BY DEF TypeOK
        <4> HIDE DEF w
        <4>4. QED
          BY <4>1, <4>2, <4>3, <4>5, MoveTyped
      <3>3. QED
        BY <3>1, <3>2
    <2>2. QED
      BY <1>3, <2>1 DEF CommitGrant, TypeOK, Wallets
  <1>4. ASSUME NEW r \in Requests, LookUp(r) \/ CallProvider(r) \/ Expire(r) PROVE TypeOK'
    BY <1>4 DEF LookUp, CallProvider, Expire, TypeOK, Handlers
  <1>5. ASSUME NEW r \in Requests, Reserve(r) PROVE TypeOK'
    <2>1. CASE Covered(r) /\ KeysFree(r)
      <3>1. Move(wallet, "reserve", KeyOf[r], -HoldOf[r], HoldOf[r])
        BY <1>5, <2>1 DEF Reserve
      <3>2. /\ wallet \in Wallets /\ ledger \in Seq(Entries) /\ "reserve" \in Kinds
            /\ KeyOf[r] \in Keys /\ HoldOf[r] \in Nat /\ -HoldOf[r] \in Int /\ HoldOf[r] \in Int
        BY LedgerAssumption DEF TypeOK, Wallets, Kinds, Keys
      <3>3. wallet' \in Wallets /\ ledger' \in Seq(Entries)
        BY <3>1, <3>2, MoveTyped
      <3>4. [status |-> "reserved", amount |-> HoldOf[r], captured |-> 0]
                \in [status : ReservationStatuses, amount : Nat, captured : Nat]
        BY <3>2 DEF ReservationStatuses
      <3>5. QED
        BY <1>5, <2>1, <3>3, <3>4 DEF Reserve, TypeOK, Wallets, Handlers
    <2>2. CASE ~(Covered(r) /\ KeysFree(r))
      BY <1>5, <2>2 DEF Reserve, TypeOK, Handlers
    <2>3. QED
      BY <2>1, <2>2
  <1>6. ASSUME NEW r \in Requests, ProviderFails(r) \/ ProviderAnswers(r) \/ ClientAborts(r)
        PROVE  TypeOK'
    <2>1. settling' \subseteq Settlements /\ request' = [request EXCEPT ![r] = "ended"]
      BY <1>6, ReleaseIsTyped, AnswersAreTyped
         DEF ProviderFails, ProviderAnswers, ClientAborts, TypeOK
    <2>2. UNCHANGED <<wallet, reservation, ledger, usage, expired, grant, sweep, crashes>>
      BY <1>6 DEF ProviderFails, ProviderAnswers, ClientAborts
    <2>3. QED
      BY <2>1, <2>2 DEF TypeOK, Handlers
  <1>7. ASSUME NEW r \in Requests, CrashGateway(r) PROVE TypeOK'
    BY <1>7, LedgerAssumption DEF CrashGateway, TypeOK, Handlers
  <1>8. ASSUME NEW s \in settling, CommitSettlement(s) PROVE TypeOK'
    <2>1. s \in Settlements /\ s.request \in Requests
      BY DEF TypeOK, Settlements
    <2>2. settling' \subseteq Settlements
      BY <1>8, <2>1, ReleaseIsTyped DEF CommitSettlement, TypeOK
    <2>3. Transaction(s) /\ UNCHANGED <<expired, request, grant, sweep, crashes>>
      BY <1>8 DEF CommitSettlement
    <2>4. QED
      BY <2>1, <2>2, <2>3, SettleTyped DEF TypeOK, Wallets
  <1>9. ASSUME NEW p \in Replicas, Sweep(p) PROVE TypeOK'
    BY <1>9 DEF Sweep, Expired, TypeOK
  <1>10. ASSUME NEW p \in Replicas, CrashSweep(p) PROVE TypeOK'
    BY <1>10, LedgerAssumption DEF CrashSweep, TypeOK
  <1>11. ASSUME NEW p \in Replicas, NEW r \in Requests, SweepRelease(p, r) PROVE TypeOK'
    <2>1. ReleaseOf(r) \in Settlements /\ Transaction(ReleaseOf(r))
      BY <1>11, ReleaseIsTyped DEF SweepRelease
    <2>2. sweep' \in [Replicas -> SUBSET Requests]
      BY <1>11 DEF SweepRelease, TypeOK
    <2>3. UNCHANGED <<expired, request, grant, settling, crashes>>
      BY <1>11 DEF SweepRelease
    <2>4. QED
      BY <2>1, <2>2, <2>3, SettleTyped DEF TypeOK, Wallets
  <1>12. QED
    BY <1>1, <1>2, <1>3, <1>4, <1>5, <1>6, <1>7, <1>8, <1>9, <1>10, <1>11
       DEF Next, GatewayStep, SweepStep

-----------------------------------------------------------------------------
(* The ledger and the wallet.                                              *)

LEMMA MoveExplained ==
    ASSUME TypeOK, LedgerExplainsWallet, WalletOK,
           NEW w \in Wallets, NEW kind \in Kinds, NEW key \in Keys,
           NEW a \in Int, NEW h \in Int, Move(w, kind, key, a, h),
           w = wallet \/ (wallet.version = 0 /\ w = [wallet EXCEPT !.version = 1]),
           w.version > 0
    PROVE  LedgerExplainsWallet' /\ ledger' # << >> /\ wallet'.version > 0
  <1> DEFINE after == Moved(w, a, h)
             entry == [kind |-> kind, key |-> key, available |-> a, reserved |-> h,
                       availableAfter |-> after.available, reservedAfter |-> after.reserved,
                       version |-> after.version]
             n == Len(ledger)
  <1>1. after = [available |-> w.available + a, reserved |-> w.reserved + h,
                 version |-> w.version + 1]
    BY DEF Moved
  <1>2. wallet' = after /\ ledger' = Append(ledger, entry)
    BY DEF Move
  <1>3. ledger \in Seq(Entries) /\ wallet \in Wallets /\ n \in Nat
    BY DEF TypeOK, Wallets
  <1>4. /\ DOMAIN ledger = 1..n /\ DOMAIN ledger' = 1..(n + 1) /\ Len(ledger') = n + 1
        /\ ledger'[n + 1] = entry
        /\ \A i \in 1..n : ledger'[i] = ledger[i]
    <2>1. entry \in Entries
      BY <1>1 DEF Entries, Wallets, Kinds, Keys
    <2> HIDE DEF entry, n
    <2>2. Len(ledger) = n
      BY DEF n
    <2>3. QED
      BY <1>2, <1>3, <2>1, <2>2, AppendProperties, LenProperties
  <1>5. /\ entry.version = w.version + 1
        /\ entry.available = a /\ entry.reserved = h
        /\ entry.availableAfter = w.available + a
        /\ entry.reservedAfter = w.reserved + h
    BY <1>1
  <1>6. w.available = wallet.available /\ w.reserved = wallet.reserved
    BY <1>3 DEF Wallets
  <1>7. /\ w.version = n + 1
        /\ w.available = IF n = 0 THEN 0 ELSE ledger[n].availableAfter
        /\ w.reserved = IF n = 0 THEN 0 ELSE ledger[n].reservedAfter
    <2>1. CASE ledger = << >>
      <3>1. w.version = 1 /\ wallet.available = 0 /\ wallet.reserved = 0 /\ n = 0
        BY <2>1, <1>3 DEF LedgerExplainsWallet, WalletOK, Wallets
      <3>2. QED
        BY <3>1, <1>6
    <2>2. CASE ledger # << >>
      <3>1. n \in 1..n /\ n # 0
        BY <2>2, <1>3, EmptySeq, LenProperties
      <3>2. /\ wallet = [available |-> ledger[n].availableAfter,
                         reserved |-> ledger[n].reservedAfter, version |-> ledger[n].version]
            /\ ledger[n].version = n + 1
        BY <2>2, <1>4, <3>1 DEF LedgerExplainsWallet
      <3>3. wallet.version = n + 1 /\ w = wallet
        BY <3>1, <3>2
      <3>4. QED
        BY <3>1, <3>2, <3>3
    <2>3. QED
      BY <2>1, <2>2
  <1> HIDE DEF entry, n, after
  <1>8. ASSUME NEW i \in 1..(n + 1)
        PROVE  /\ ledger'[i].version = i + 1
               /\ ledger'[i].availableAfter = ledger'[i].available +
                        (IF i = 1 THEN 0 ELSE ledger'[i - 1].availableAfter)
               /\ ledger'[i].reservedAfter = ledger'[i].reserved +
                        (IF i = 1 THEN 0 ELSE ledger'[i - 1].reservedAfter)
    <2>1. CASE i \in 1..n
      <3>1. ledger'[i] = ledger[i] /\ (i # 1 => ledger'[i - 1] = ledger[i - 1])
        BY <1>3, <1>4, <2>1
      <3>2. QED
        BY <2>1, <3>1, <1>4 DEF LedgerExplainsWallet
    <2>2. CASE i = n + 1
      <3>1. ledger'[i] = entry /\ (i # 1 => ledger'[i - 1] = ledger[n])
        BY <1>3, <1>4, <2>2
      <3>2. CASE n = 0
        BY <2>2, <3>1, <3>2, <1>3, <1>5, <1>7 DEF Wallets
      <3>3. CASE n # 0
        <4>1. ledger[n].availableAfter = w.available /\ ledger[n].reservedAfter = w.reserved
          BY <1>7, <3>3
        <4>2. w.available \in Int /\ w.reserved \in Int
          BY DEF Wallets
        <4>3. QED
          BY <2>2, <3>1, <3>3, <1>3, <1>5, <1>7, <4>1, <4>2
      <3>4. QED
        BY <3>2, <3>3
    <2>3. QED
      BY <1>3, <2>1, <2>2
  <1>9. ledger' # << >>
    BY <1>3, <1>4
  <1>10. wallet' = [available |-> ledger'[n + 1].availableAfter,
                    reserved |-> ledger'[n + 1].reservedAfter,
                    version |-> ledger'[n + 1].version]
    BY <1>1, <1>2, <1>4, <1>5
  <1>11. wallet'.version > 0
    BY <1>1, <1>2, <1>3, <1>7
  <1>12. QED
    BY <1>4, <1>8, <1>9, <1>10, <1>11 DEF LedgerExplainsWallet

\* The steps that write an entry, in the form MoveExplained asks for.
LEMMA WritesOneEntry ==
    ASSUME TypeOK, WalletOK, GrantStep \/ ReserveStep \/ SettleStep
    PROVE  \E w \in Wallets, kind \in Kinds, key \in Keys, a \in Int, h \in Int :
                /\ Move(w, kind, key, a, h)
                /\ w = wallet \/ (wallet.version = 0 /\ w = [wallet EXCEPT !.version = 1])
                /\ w.version > 0
  <1>0. wallet \in Wallets
    BY DEF TypeOK, Wallets
  <1>1. CASE GrantStep
    <2> DEFINE w == [wallet EXCEPT !.version = IF @ = 0 THEN 1 ELSE @]
    <2>1. PICK g \in Grants, a \in Amounts : Move(w, "grant", GrantKeyOf[g], a, 0)
      BY <1>1 DEF GrantStep
    <2>2. w \in Wallets
      BY <1>0 DEF Wallets
    <2>3. w = wallet \/ (wallet.version = 0 /\ w = [wallet EXCEPT !.version = 1])
      <3>1. CASE wallet.version = 0
        BY <3>1
      <3>2. CASE wallet.version # 0
        BY <3>2, <1>0 DEF Wallets
      <3>3. QED
        BY <3>1, <3>2
    <2>4. w.version > 0
      BY <1>0 DEF Wallets
    <2>5. a \in Int /\ GrantKeyOf[g] \in Keys /\ "grant" \in Kinds /\ 0 \in Int
      BY LedgerAssumption DEF Keys, Kinds
    <2> HIDE DEF w
    <2>6. QED
      BY <2>1, <2>2, <2>3, <2>4, <2>5
  <1>2. CASE ReserveStep
    <2>1. PICK r \in Requests :
            Covered(r) /\ Move(wallet, "reserve", KeyOf[r], -HoldOf[r], HoldOf[r])
      BY <1>2 DEF ReserveStep
    <2>2. /\ KeyOf[r] \in Keys /\ "reserve" \in Kinds
          /\ -HoldOf[r] \in Int /\ HoldOf[r] \in Int /\ wallet.version > 0
      BY <2>1, LedgerAssumption DEF Keys, Kinds, Covered
    <2>3. QED
      BY <1>0, <2>1, <2>2
  <1>3. CASE SettleStep
    <2>1. PICK s \in Settlements : Open(s.request) /\ Settle(s)
      BY <1>3 DEF SettleStep
    <2>2. s.request \in Requests
      BY DEF Settlements
    <2>3. /\ s.request \in Keys /\ (IF s.hasResult THEN "capture" ELSE "release") \in Kinds
          /\ Given(reservation[s.request].amount, Charge(s)) \in Int
          /\ -HoldTaken(s) \in Int
      BY <2>2, ChargeTyped DEF Keys, Kinds, Given, HoldTaken, TypeOK
    <2>4. wallet.version > 0
      BY <2>1, <2>2 DEF Open, WalletOK
    <2>5. Move(wallet, IF s.hasResult THEN "capture" ELSE "release", s.request,
               Given(reservation[s.request].amount, Charge(s)), -HoldTaken(s))
      BY <2>1 DEF Settle
    <2>6. QED
      BY <1>0, <2>3, <2>4, <2>5
  <1>4. QED
    BY <1>1, <1>2, <1>3

\* Every step that changes the wallet appends the entry that says how.
LEMMA StepExplained ==
    ASSUME IInv, Next
    PROVE  LedgerExplainsWallet' /\ WalletOK'
  <1>1. CASE QuietStep
    BY <1>1 DEF QuietStep, IInv, LedgerExplainsWallet, WalletOK
  <1>2. CASE OpenStep
    <2>1. ledger = << >>
      <3>1. SUFFICES ASSUME ledger # << >> PROVE FALSE
        OBVIOUS
      <3>2. ledger \in Seq(Entries) /\ wallet.version = 0
        BY <1>2 DEF OpenStep, OpenWallet, IInv, TypeOK
      <3>3. Len(ledger) \in Nat /\ Len(ledger) \in DOMAIN ledger
        BY <3>1, <3>2, EmptySeq, LenProperties
      <3>4. ledger[Len(ledger)].version = Len(ledger) + 1
        BY <3>3 DEF IInv, LedgerExplainsWallet
      <3>5. wallet.version = ledger[Len(ledger)].version
        BY <3>1 DEF IInv, LedgerExplainsWallet
      <3>6. QED
        BY <3>2, <3>3, <3>4, <3>5
    <2>2. /\ wallet'.version = 1 /\ wallet'.available = wallet.available
          /\ wallet'.reserved = wallet.reserved
          /\ UNCHANGED <<ledger, reservation>>
      BY <1>2 DEF OpenStep, OpenWallet, IInv, TypeOK
    <2>3. wallet.available = 0 /\ wallet.reserved = 0
      BY <2>1 DEF IInv, LedgerExplainsWallet
    <2>4. LedgerExplainsWallet'
      BY <2>1, <2>2, <2>3 DEF IInv, LedgerExplainsWallet
    <2>5. QED
      BY <2>2, <2>4 DEF WalletOK
  <1>3. CASE GrantStep \/ ReserveStep \/ SettleStep
    <2>1. LedgerExplainsWallet' /\ ledger' # << >> /\ wallet'.version > 0
      BY <1>3, WritesOneEntry, MoveExplained DEF IInv
    <2>2. QED
      BY <2>1 DEF WalletOK
  <1>4. QED
    BY <1>1, <1>2, <1>3, StepKinds DEF IInv

-----------------------------------------------------------------------------
(* The reservations.                                                       *)

\* What one settlement changes.
LEMMA SettleFacts ==
    ASSUME TypeOK, SettleStep
    PROVE  \E s \in Settlements :
            /\ s.request \in Requests /\ s.response \in Responses
            /\ reservation[s.request].status = "reserved"
            /\ ~ResponseTaken(s)
            /\ usage' = SettledUsage(s)
            /\ reservation' \in [Requests -> [status : ReservationStatuses, amount : Nat,
                                             captured : Nat]]
            /\ reservation'[s.request].status = IF s.hasResult THEN "captured" ELSE "released"
            /\ reservation'[s.request].amount = reservation[s.request].amount
            /\ reservation'[s.request].captured = Charge(s)
            /\ \A r \in Requests \ {s.request} : reservation'[r] = reservation[r]
            /\ UNCHANGED request
            /\ wallet'.available = wallet.available
                    + Given(reservation[s.request].amount, Charge(s))
  <1>1. PICK s \in Settlements : Open(s.request) /\ ~ResponseTaken(s) /\ Settle(s)
    BY DEF SettleStep
  <1>2. s.request \in Requests /\ s.response \in Responses
    BY DEF Settlements
  <1>3. Transaction(s)
    BY <1>1 DEF Transaction
  <1>4. reservation' \in [Requests -> [status : ReservationStatuses, amount : Nat,
                                       captured : Nat]]
    BY <1>3, SettleTyped
  <1>5. /\ reservation'[s.request].status = IF s.hasResult THEN "captured" ELSE "released"
        /\ reservation'[s.request].amount = reservation[s.request].amount
        /\ reservation'[s.request].captured = Charge(s)
        /\ \A r \in Requests \ {s.request} : reservation'[r] = reservation[r]
    BY <1>1, <1>2 DEF Settle, TypeOK
  <1>6. /\ usage' = SettledUsage(s)
        /\ wallet'.available = wallet.available
                + Given(reservation[s.request].amount, Charge(s))
    BY <1>1 DEF Settle, Move, Moved
  <1>7. reservation[s.request].status = "reserved" /\ UNCHANGED request
    BY <1>1 DEF Open, SettleStep
  <1>8. QED
    BY <1>1, <1>2, <1>4, <1>5, <1>6, <1>7

\* A reservation takes a hold that is covered, under keys that are free.
LEMMA ReserveFacts ==
    ASSUME TypeOK, ReserveStep
    PROVE  \E r \in Requests :
            /\ Covered(r) /\ KeysFree(r)
            /\ reservation[r].status = "none"
            /\ request' = [request EXCEPT ![r] = "reserved"]
            /\ reservation' = [reservation EXCEPT ![r] =
                    [status |-> "reserved", amount |-> HoldOf[r], captured |-> 0]]
            /\ wallet'.available = wallet.available - HoldOf[r]
            /\ UNCHANGED usage
  <1>1. PICK r \in Requests :
            /\ Covered(r) /\ KeysFree(r)
            /\ request' = [request EXCEPT ![r] = "reserved"]
            /\ reservation' = [reservation EXCEPT ![r] =
                    [status |-> "reserved", amount |-> HoldOf[r], captured |-> 0]]
            /\ Move(wallet, "reserve", KeyOf[r], -HoldOf[r], HoldOf[r])
            /\ UNCHANGED usage
    BY DEF ReserveStep
  <1>2. reservation[r].status = "none"
    BY <1>1 DEF KeysFree, KeyTaken
  <1>3. wallet'.available = wallet.available - HoldOf[r]
    BY <1>1, LedgerAssumption DEF Move, Moved, TypeOK
  <1>4. QED
    BY <1>1, <1>2, <1>3

\* Every step keeps reservations and usage events in agreement.
LEMMA StepReservations ==
    ASSUME IInv, Next
    PROVE  ReservationsOK' /\ UsageMatchesCapture'
  <1>0. TypeOK /\ ReservationsOK /\ UsageMatchesCapture
    BY DEF IInv
  <1>1. CASE QuietStep \/ OpenStep \/ GrantStep
    <2>1. UNCHANGED <<reservation, usage>> /\ NobodyOut
      BY <1>1 DEF QuietStep, OpenStep, OpenWallet, GrantStep, NobodyOut
    <2>2. QED
      BY <1>0, <2>1 DEF NobodyOut, ReservationsOK, UsageMatchesCapture
  <1>2. CASE ReserveStep
    <2>1. PICK r \in Requests :
            /\ KeysFree(r) /\ reservation[r].status = "none"
            /\ request' = [request EXCEPT ![r] = "reserved"]
            /\ reservation' = [reservation EXCEPT ![r] =
                    [status |-> "reserved", amount |-> HoldOf[r], captured |-> 0]]
            /\ UNCHANGED usage
      BY <1>0, <1>2, ReserveFacts
    <2>2. /\ reservation'[r].status = "reserved"
          /\ \A q \in Requests \ {r} : /\ reservation'[q] = reservation[q]
                                       /\ request'[q] = request[q]
      BY <1>0, <2>1 DEF TypeOK
    <2>3. \A q \in Requests : reservation[q].status # "none"
                => KeyOf[q] # KeyOf[r] /\ RunOf[q] # RunOf[r]
      BY <2>1 DEF KeysFree, KeyTaken, RunTaken
    <2>4. ReservationsOK'
      BY <1>0, <2>2, <2>3 DEF ReservationsOK
    <2>5. \A q \in Requests : reservation'[q].status = "captured"
                <=> reservation[q].status = "captured"
      BY <2>1, <2>2
    <2>6. UsageMatchesCapture'
      BY <1>0, <2>1, <2>5 DEF UsageMatchesCapture
    <2>7. QED
      BY <2>4, <2>6
  <1>3. CASE SettleStep
    <2>1. PICK s \in Settlements :
            /\ s.request \in Requests /\ s.response \in Responses
            /\ reservation[s.request].status = "reserved"
            /\ ~ResponseTaken(s)
            /\ usage' = SettledUsage(s)
            /\ reservation'[s.request].status = IF s.hasResult THEN "captured" ELSE "released"
            /\ \A r \in Requests \ {s.request} : reservation'[r] = reservation[r]
            /\ UNCHANGED request
      BY <1>0, <1>3, SettleFacts
    <2>2. \A r \in Requests : reservation'[r].status # "none" <=> reservation[r].status # "none"
      BY <2>1
    <2>3. ReservationsOK'
      BY <1>0, <2>1, <2>2 DEF ReservationsOK
    <2>4. UsageMatchesCapture'
      <3>1. \A x \in Responses : <<s.request, x>> \notin usage
        BY <1>0, <2>1 DEF UsageMatchesCapture
      <3>2. CASE s.hasResult
        <4>1. usage' = usage \cup {<<s.request, s.response>>}
          BY <2>1, <3>2 DEF SettledUsage
        <4>2. \A r \in Requests : <<r, s.response>> \notin usage
          BY <2>1, <3>2 DEF ResponseTaken
        <4>3. ASSUME NEW r \in Requests
              PROVE  reservation'[r].status = "captured"
                        <=> \E x \in Responses : <<r, x>> \in usage'
          <5>1. CASE r = s.request
            BY <2>1, <3>2, <4>1, <5>1
          <5>2. CASE r # s.request
            BY <1>0, <2>1, <4>1, <5>2 DEF UsageMatchesCapture
          <5>3. QED
            BY <5>1, <5>2
        <4>4. ASSUME NEW u \in usage', NEW v \in usage', u[2] = v[2]
              PROVE  u = v
          <5>1. \A x \in usage : x[2] # s.response
            BY <1>0, <4>2 DEF TypeOK
          <5>2. CASE u \in usage /\ v \in usage
            BY <1>0, <4>4, <5>2 DEF UsageMatchesCapture
          <5>3. CASE u \notin usage /\ v \notin usage
            BY <4>1, <5>3
          <5>4. CASE (u \in usage) # (v \in usage)
            BY <4>1, <4>4, <5>1, <5>4
          <5>5. QED
            BY <5>2, <5>3, <5>4
        <4>5. QED
          BY <4>3, <4>4 DEF UsageMatchesCapture
      <3>3. CASE ~s.hasResult
        <4>1. usage' = usage /\ reservation'[s.request].status = "released"
          BY <2>1, <3>3 DEF SettledUsage
        <4>2. QED
          BY <1>0, <2>1, <3>1, <4>1 DEF UsageMatchesCapture
      <3>4. QED
        BY <3>2, <3>3
    <2>5. QED
      BY <2>3, <2>4
  <1>4. QED
    BY <1>0, <1>1, <1>2, <1>3, StepKinds

-----------------------------------------------------------------------------
(* The invariant.                                                          *)

LEMMA InitInvariant == Init => IInv
  <1> SUFFICES ASSUME Init PROVE IInv
    OBVIOUS
  <1>1. TypeOK
    BY InitTyped
  <1>2. LedgerExplainsWallet /\ WalletOK
    BY DEF Init, LedgerExplainsWallet, WalletOK, NoReservation
  <1>3. ReservationsOK /\ UsageMatchesCapture
    BY DEF Init, ReservationsOK, UsageMatchesCapture, NoReservation, Out
  <1>4. QED
    BY <1>1, <1>2, <1>3 DEF IInv

\* Every step keeps the invariant.
LEMMA StepInvariant == IInv /\ [Next]_creditVars => IInv'
  <1> SUFFICES ASSUME IInv, [Next]_creditVars PROVE IInv'
    OBVIOUS
  <1>1. CASE Next
    BY <1>1, StepTyped, StepExplained, StepReservations DEF IInv
  <1>2. CASE UNCHANGED creditVars
    <2>1. TypeOK'
      BY <1>2 DEF creditVars, IInv, TypeOK
    <2>2. LedgerExplainsWallet' /\ WalletOK'
      BY <1>2 DEF creditVars, IInv, LedgerExplainsWallet, WalletOK
    <2>3. ReservationsOK' /\ UsageMatchesCapture'
      BY <1>2 DEF creditVars, IInv, ReservationsOK, UsageMatchesCapture
    <2>4. QED
      BY <2>1, <2>2, <2>3 DEF IInv
  <1>3. QED
    BY <1>1, <1>2

\* The strengthening that every step keeps, whatever the bounds.
THEOREM InductiveInvariant == Spec => []IInv
  BY InitInvariant, StepInvariant, PTL DEF Spec

\* The wallet, the reservations, the entries and the handlers keep their shape.
THEOREM TypesAreKept == Spec => []TypeOK
  BY InductiveInvariant, PTL DEF IInv

\* The entries of the ledger account for the balances and the version of the wallet,
\* although grants, reservations, settlements and sweeps of several processes write them.
THEOREM LedgerIsComplete == Spec => []LedgerExplainsWallet
  BY InductiveInvariant, PTL DEF IInv

\* One request at most goes to the provider for an idempotency key, and one for a run.
THEOREM OneCallPerKey == Spec => []OneEgressPerKey
  <1>1. IInv => OneEgressPerKey
    BY DEF IInv, ReservationsOK, OneEgressPerKey, Out
  <1>2. QED
    BY <1>1, InductiveInvariant, PTL

\* Usage is recorded for the captured reservations and no others, and no answer of
\* the provider is charged twice.
THEOREM UsageIsCharged == Spec => []UsageMatchesCapture
  BY InductiveInvariant, PTL DEF IInv

-----------------------------------------------------------------------------
(* What a step may not do.                                                 *)

LEMMA StepKeepsSettled ==
    ASSUME IInv, [Next]_creditVars, NEW r \in Requests,
           reservation[r].status \in {"captured", "released"}
    PROVE  reservation'[r] = reservation[r]
  <1>0. TypeOK
    BY DEF IInv
  <1>1. CASE UNCHANGED creditVars
    BY <1>1 DEF creditVars
  <1>2. CASE QuietStep \/ OpenStep \/ GrantStep
    BY <1>2 DEF QuietStep, OpenStep, OpenWallet, GrantStep
  <1>3. CASE ReserveStep
    <2>1. PICK q \in Requests : /\ reservation[q].status = "none"
                                /\ reservation' = [reservation EXCEPT ![q] =
                                        [status |-> "reserved", amount |-> HoldOf[q],
                                         captured |-> 0]]
      BY <1>0, <1>3, ReserveFacts
    <2>2. QED
      BY <1>0, <2>1 DEF TypeOK
  <1>4. CASE SettleStep
    BY <1>0, <1>4, SettleFacts
  <1>5. QED
    BY <1>0, <1>1, <1>2, <1>3, <1>4, StepKinds

\* What settled stays settled, whether the sweep, an abort or an answer comes later.
THEOREM SettlementIsFinal == Spec => SettledIsFinal
  <1>1. IInv /\ [Next]_creditVars
            => [\A r \in Requests : reservation[r].status \in {"captured", "released"}
                    => reservation'[r] = reservation[r]]_creditVars
    BY StepKeepsSettled
  <1>2. QED
    BY <1>1, InductiveInvariant, PTL DEF Spec, SettledIsFinal

-----------------------------------------------------------------------------
(* The sums: what is held, captured and owed over the reservations, and    *)
(* what the entries of the ledger granted.                                 *)

Reservations ==
    [Requests -> [status : ReservationStatuses, amount : Nat, captured : Nat]]

HeldAmounts(rows) ==
    [r \in Requests |-> IF rows[r].status = "reserved" THEN rows[r].amount ELSE 0]
CapturedAmounts(rows) == [r \in Requests |-> rows[r].captured]
Excesses(rows) ==
    [r \in Requests |-> IF rows[r].captured > rows[r].amount
                        THEN rows[r].captured - rows[r].amount ELSE 0]
GrantedBy(entry) == IF entry.kind = "grant" THEN entry.available ELSE 0
GrantedAmounts(entries) == [i \in DOMAIN entries |-> GrantedBy(entries[i])]

Held(rows) == SumFunction(HeldAmounts(rows))
Captured(rows) == SumFunction(CapturedAmounts(rows))
Excess(rows) == SumFunction(Excesses(rows))
Granted(entries) == SumFunction(GrantedAmounts(entries))

Balanced(w, rows, entries) ==
    /\ w.reserved = Held(rows)
    /\ w.available + w.reserved + Captured(rows) = Granted(entries)
    /\ w.available + Excess(rows) >= 0

\* Nothing is captured from a reservation before it is settled.
NothingCapturedEarly ==
    \A r \in Requests :
        reservation[r].status \in {"none", "reserved"} => reservation[r].captured = 0

BalanceInv == NothingCapturedEarly /\ Balanced(wallet, reservation, ledger)

\* The two properties of the balances in terms of the sums.
LEMMA BalancedMeans ==
    Balanced(wallet, reservation, ledger) <=> Conservation /\ DebtComesFromUsage
  <1>1. GrantedAmounts(ledger) =
            [i \in DOMAIN ledger |->
                IF ledger[i].kind = "grant" THEN ledger[i].available ELSE 0]
    BY DEF GrantedAmounts, GrantedBy
  <1>2. QED
    BY <1>1 DEF Balanced, Conservation, DebtComesFromUsage, Held, Captured, Excess, Granted,
                HeldAmounts, CapturedAmounts, Excesses, Open

\* The terms of the sums are integers, and so are the sums.
LEMMA AmountTypes ==
    ASSUME NEW rows \in Reservations
    PROVE  /\ HeldAmounts(rows) \in [Requests -> Int]
           /\ CapturedAmounts(rows) \in [Requests -> Int]
           /\ Excesses(rows) \in [Requests -> Nat]
           /\ Excesses(rows) \in [Requests -> Int]
  BY DEF Reservations, HeldAmounts, CapturedAmounts, Excesses

\* The sums over the reservations are integers, and the excess is not negative.
LEMMA SumTypes ==
    ASSUME NEW rows \in Reservations
    PROVE  Held(rows) \in Int /\ Captured(rows) \in Int /\ Excess(rows) \in Nat
  <1>1. Excess(rows) \in Nat
    BY AmountTypes, RequestsAreFinite, SumNotNegative DEF Excess
  <1>2. Held(rows) \in Int
    BY AmountTypes, RequestsAreFinite, SumType DEF Held
  <1>3. Captured(rows) \in Int
    BY AmountTypes, RequestsAreFinite, SumType DEF Captured
  <1>4. QED
    BY <1>1, <1>2, <1>3

\* A change of one reservation moves the sums by what it changes there.
LEMMA SumsMove ==
    ASSUME NEW rows \in Reservations, NEW after \in Reservations, NEW r \in Requests,
           \A q \in Requests \ {r} : after[q] = rows[q]
    PROVE  /\ Held(after) = Held(rows) - HeldAmounts(rows)[r] + HeldAmounts(after)[r]
           /\ Captured(after) = Captured(rows) - rows[r].captured + after[r].captured
           /\ Excess(after) = Excess(rows) - Excesses(rows)[r] + Excesses(after)[r]
  <1>1. /\ \A q \in Requests \ {r} : HeldAmounts(after)[q] = HeldAmounts(rows)[q]
        /\ \A q \in Requests \ {r} : CapturedAmounts(after)[q] = CapturedAmounts(rows)[q]
        /\ \A q \in Requests \ {r} : Excesses(after)[q] = Excesses(rows)[q]
    BY DEF HeldAmounts, CapturedAmounts, Excesses
  <1>2. Held(after) = Held(rows) - HeldAmounts(rows)[r] + HeldAmounts(after)[r]
    BY <1>1, AmountTypes, RequestsAreFinite, SumUpdate DEF Held
  <1>3. Captured(after)
            = Captured(rows) - CapturedAmounts(rows)[r] + CapturedAmounts(after)[r]
    BY <1>1, AmountTypes, RequestsAreFinite, SumUpdate DEF Captured
  <1>4. Excess(after) = Excess(rows) - Excesses(rows)[r] + Excesses(after)[r]
    BY <1>1, AmountTypes, RequestsAreFinite, SumUpdate DEF Excess
  <1>5. QED
    BY <1>2, <1>3, <1>4 DEF CapturedAmounts

\* An entry adds what it grants.
LEMMA GrantedAppend ==
    ASSUME NEW entries \in Seq(Entries), NEW entry \in Entries
    PROVE  /\ Granted(entries) \in Int
           /\ Granted(Append(entries, entry)) = Granted(entries) + GrantedBy(entry)
  <1> DEFINE n == Len(entries)
             m == n + 1
             after == Append(entries, entry)
             f == GrantedAmounts(entries)
             g == GrantedAmounts(after)
  <1>1. n \in Nat /\ DOMAIN entries = 1..n
    BY LenProperties
  <1>2. /\ DOMAIN after = 1..m
        /\ after[m] = entry
        /\ \A i \in 1..n : after[i] = entries[i]
    BY <1>1, AppendProperties, LenProperties
  <1>3. \A e \in Entries : GrantedBy(e) \in Int
    BY DEF GrantedBy, Entries
  <1>4. \A i \in 1..n : entries[i] \in Entries
    BY <1>1, ElementOfSeq
  <1>5. \A i \in 1..m : after[i] \in Entries
    BY <1>1, <1>2, <1>4
  <1> HIDE DEF after
  <1>6. f \in [1..n -> Int]
    BY <1>1, <1>3, <1>4 DEF GrantedAmounts
  <1>7. g \in [1..m -> Int] /\ g[m] = GrantedBy(entry)
    BY <1>1, <1>2, <1>3, <1>5 DEF GrantedAmounts
  <1>8. \A i \in 1..n : g[i] = f[i]
    BY <1>1, <1>2 DEF GrantedAmounts
  <1> HIDE DEF f, g
  <1>9. SumFunction(f) \in Int /\ SumFunction(g) = SumFunction(f) + g[m]
    BY <1>1, <1>6, <1>7, <1>8, SumAppend
  <1>10. QED
    BY <1>7, <1>9 DEF f, g, after, Granted

\* What one move does to the balances, and what its entry grants.
LEMMA MoveBalances ==
    ASSUME TypeOK, TypeOK', NEW w, NEW kind, NEW key, NEW a \in Int, NEW h \in Int,
           Move(w, kind, key, a, h),
           w.available = wallet.available, w.reserved = wallet.reserved
    PROVE  /\ wallet'.available = wallet.available + a
           /\ wallet'.reserved = wallet.reserved + h
           /\ wallet.available \in Int /\ wallet.reserved \in Int
           /\ Granted(ledger) \in Int
           /\ Granted(ledger') = Granted(ledger) + (IF kind = "grant" THEN a ELSE 0)
  <1>1. /\ wallet'.available = wallet.available + a
        /\ wallet'.reserved = wallet.reserved + h
    BY DEF Move, Moved
  <1>2. PICK entry : ledger' = Append(ledger, entry) /\ entry.kind = kind /\ entry.available = a
    BY DEF Move
  <1>3. ledger \in Seq(Entries) /\ ledger' \in Seq(Entries)
    BY DEF TypeOK
  <1>4. entry \in Entries
    <2>1. /\ Len(ledger) \in Nat /\ Len(ledger') = Len(ledger) + 1
          /\ ledger'[Len(ledger) + 1] = entry
      BY <1>2, <1>3
    <2>2. Len(ledger) + 1 \in 1..Len(ledger')
      BY <2>1
    <2>3. QED
      BY <1>3, <2>1, <2>2, ElementOfSeq
  <1>5. Granted(ledger) \in Int /\ Granted(ledger') = Granted(ledger) + GrantedBy(entry)
    BY <1>2, <1>3, <1>4, GrantedAppend
  <1>6. QED
    BY <1>1, <1>2, <1>5 DEF GrantedBy, TypeOK

\* No reservation, no entry, nothing in the wallet.
LEMMA InitBalance == Init => BalanceInv
  <1> SUFFICES ASSUME Init PROVE BalanceInv
    OBVIOUS
  <1>1. NothingCapturedEarly
    BY DEF Init, NothingCapturedEarly, NoReservation
  <1>2. \A r \in Requests : /\ HeldAmounts(reservation)[r] = 0
                            /\ CapturedAmounts(reservation)[r] = 0
                            /\ Excesses(reservation)[r] = 0
    BY DEF Init, NoReservation, HeldAmounts, CapturedAmounts, Excesses
  <1>3. /\ DOMAIN HeldAmounts(reservation) = Requests
        /\ DOMAIN CapturedAmounts(reservation) = Requests
        /\ DOMAIN Excesses(reservation) = Requests
        /\ DOMAIN GrantedAmounts(ledger) = {}
    BY DEF Init, HeldAmounts, CapturedAmounts, Excesses, GrantedAmounts
  <1>4. Held(reservation) = 0 /\ Captured(reservation) = 0 /\ Excess(reservation) = 0
    BY <1>2, <1>3, RequestsAreFinite, SumOfZeros DEF Held, Captured, Excess
  <1>5. Granted(ledger) = 0
    BY <1>3, SumOfZeros, FS_EmptySet DEF Granted
  <1>6. wallet.available = 0 /\ wallet.reserved = 0
    BY DEF Init
  <1>7. QED
    BY <1>1, <1>4, <1>5, <1>6 DEF BalanceInv, Balanced

\* A grant adds the same amount to the wallet and to what was granted.
LEMMA GrantBalance ==
    ASSUME TypeOK, TypeOK', BalanceInv, GrantStep
    PROVE  BalanceInv'
  <1> DEFINE w == [wallet EXCEPT !.version = IF @ = 0 THEN 1 ELSE @]
  <1>1. PICK g \in Grants, a \in Amounts : Move(w, "grant", GrantKeyOf[g], a, 0)
    BY DEF GrantStep
  <1>2. a \in Nat /\ a \in Int /\ 0 \in Int
    BY LedgerAssumption
  <1>3. w.available = wallet.available /\ w.reserved = wallet.reserved
    BY DEF TypeOK
  <1> HIDE DEF w
  <1>4. /\ wallet'.available = wallet.available + a
        /\ wallet'.reserved = wallet.reserved + 0
        /\ wallet.available \in Int /\ wallet.reserved \in Int
        /\ Granted(ledger) \in Int
        /\ Granted(ledger') = Granted(ledger) + (IF "grant" = "grant" THEN a ELSE 0)
    BY <1>1, <1>2, <1>3, MoveBalances
  <1>5. UNCHANGED reservation /\ reservation \in Reservations
    BY DEF GrantStep, TypeOK, Reservations
  <1>6. Captured(reservation) \in Int /\ Excess(reservation) \in Nat
    BY <1>5, SumTypes
  <1>7. Balanced(wallet', reservation, ledger')
    BY <1>2, <1>4, <1>6 DEF BalanceInv, Balanced
  <1>8. QED
    BY <1>5, <1>7 DEF BalanceInv, NothingCapturedEarly

\* A reservation moves its hold from one balance to the other, which covers it.
LEMMA ReserveBalance ==
    ASSUME TypeOK, TypeOK', BalanceInv, ReserveStep
    PROVE  BalanceInv'
  <1>1. PICK r \in Requests :
            /\ Covered(r) /\ KeysFree(r)
            /\ reservation' = [reservation EXCEPT ![r] =
                    [status |-> "reserved", amount |-> HoldOf[r], captured |-> 0]]
            /\ Move(wallet, "reserve", KeyOf[r], -HoldOf[r], HoldOf[r])
    BY DEF ReserveStep
  <1> DEFINE hold == HoldOf[r]
  <1>2. hold \in Nat /\ hold \in Int /\ -hold \in Int
    BY LedgerAssumption
  <1>3. reservation \in Reservations /\ reservation' \in Reservations
    BY DEF TypeOK, Reservations
  <1>4. reservation[r].status = "none" /\ reservation[r].captured = 0
    BY <1>1 DEF KeysFree, KeyTaken, BalanceInv, NothingCapturedEarly
  <1>5. reservation'[r] = [status |-> "reserved", amount |-> hold, captured |-> 0]
    BY <1>1, <1>3 DEF Reservations
  <1>6. \A q \in Requests \ {r} : reservation'[q] = reservation[q]
    BY <1>1, <1>3 DEF Reservations
  <1>7. /\ wallet'.available = wallet.available + (-hold)
        /\ wallet'.reserved = wallet.reserved + hold
        /\ wallet.available \in Int /\ wallet.reserved \in Int
        /\ Granted(ledger) \in Int
        /\ Granted(ledger') = Granted(ledger) + (IF "reserve" = "grant" THEN -hold ELSE 0)
    BY <1>1, <1>2, MoveBalances
  <1> HIDE DEF hold
  <1>8. reservation[r].amount \in Nat
    BY <1>3 DEF Reservations
  <1>9. /\ HeldAmounts(reservation)[r] = 0 /\ HeldAmounts(reservation')[r] = hold
        /\ Excesses(reservation)[r] = 0 /\ Excesses(reservation')[r] = 0
    BY <1>2, <1>4, <1>5, <1>8 DEF HeldAmounts, Excesses
  <1>10. /\ Held(reservation') = Held(reservation) - 0 + hold
         /\ Captured(reservation') = Captured(reservation) - 0 + 0
         /\ Excess(reservation') = Excess(reservation) - 0 + 0
    <2>1. /\ Held(reservation') = Held(reservation) - HeldAmounts(reservation)[r]
                                    + HeldAmounts(reservation')[r]
          /\ Captured(reservation') = Captured(reservation) - reservation[r].captured
                                        + reservation'[r].captured
          /\ Excess(reservation') = Excess(reservation) - Excesses(reservation)[r]
                                      + Excesses(reservation')[r]
      BY <1>3, <1>6, SumsMove
    <2>2. QED
      BY <2>1, <1>4, <1>5, <1>9
  <1>11. /\ Held(reservation) \in Int /\ Captured(reservation) \in Int
         /\ Excess(reservation) \in Nat
    BY <1>3, SumTypes
  <1>12. wallet.available >= hold
    BY <1>1 DEF Covered, hold
  <1>13. Balanced(wallet', reservation', ledger')
    BY <1>2, <1>7, <1>10, <1>11, <1>12 DEF BalanceInv, Balanced
  <1>14. NothingCapturedEarly'
    <2>1. reservation'[r].captured = 0
      BY <1>5
    <2>2. \A q \in Requests \ {r} :
            reservation'[q].status \in {"none", "reserved"} => reservation'[q].captured = 0
      BY <1>6 DEF BalanceInv, NothingCapturedEarly
    <2>3. QED
      BY <2>1, <2>2 DEF NothingCapturedEarly
  <1>15. QED
    BY <1>13, <1>14 DEF BalanceInv

\* A settlement takes the hold out of the held credit, keeps the charge and gives
\* the rest back, or takes the excess: what it leaves below zero is the excess.
LEMMA SettleBalance ==
    ASSUME TypeOK, TypeOK', BalanceInv, SettleStep
    PROVE  BalanceInv'
  <1>1. PICK s \in Settlements : Open(s.request) /\ Settle(s)
    BY DEF SettleStep
  <1> DEFINE r == s.request
             kind == IF s.hasResult THEN "capture" ELSE "release"
             amount == reservation[r].amount
             charge == Charge(s)
  <1>2. r \in Requests /\ charge \in Nat
    BY ChargeTyped DEF Settlements
  <1>3. reservation \in Reservations /\ reservation' \in Reservations
    BY DEF TypeOK, Reservations
  <1>4. reservation[r].status = "reserved" /\ reservation[r].captured = 0
    BY <1>1, <1>2 DEF Open, BalanceInv, NothingCapturedEarly
  <1>5. /\ reservation'[r].status \in {"captured", "released"}
        /\ reservation'[r].amount = amount /\ reservation'[r].captured = charge
        /\ \A q \in Requests \ {r} : reservation'[q] = reservation[q]
    BY <1>1, <1>2, <1>3 DEF Settle, Reservations
  <1>6. amount \in Nat /\ amount - charge \in Int /\ -amount \in Int
    BY <1>2, <1>3 DEF Reservations
  <1>7. kind # "grant"
    OBVIOUS
  <1>8. Move(wallet, kind, r, amount - charge, -amount)
    BY <1>1 DEF Settle, Given, HoldTaken
  <1> HIDE DEF kind, amount, charge, r
  <1>9. /\ wallet'.available = wallet.available + (amount - charge)
        /\ wallet'.reserved = wallet.reserved + (-amount)
        /\ wallet.available \in Int /\ wallet.reserved \in Int
        /\ Granted(ledger) \in Int
        /\ Granted(ledger')
             = Granted(ledger) + (IF kind = "grant" THEN amount - charge ELSE 0)
    BY <1>6, <1>8, MoveBalances
  <1> DEFINE owed == IF charge > amount THEN charge - amount ELSE 0
  <1>10. /\ HeldAmounts(reservation)[r] = amount /\ HeldAmounts(reservation')[r] = 0
         /\ Excesses(reservation)[r] = 0 /\ Excesses(reservation')[r] = owed
    BY <1>2, <1>4, <1>5, <1>6 DEF HeldAmounts, Excesses, amount
  <1>11. /\ Held(reservation') = Held(reservation) - amount + 0
         /\ Captured(reservation') = Captured(reservation) - 0 + charge
         /\ Excess(reservation') = Excess(reservation) - 0 + owed
    <2>1. /\ Held(reservation') = Held(reservation) - HeldAmounts(reservation)[r]
                                    + HeldAmounts(reservation')[r]
          /\ Captured(reservation') = Captured(reservation) - reservation[r].captured
                                        + reservation'[r].captured
          /\ Excess(reservation') = Excess(reservation) - Excesses(reservation)[r]
                                      + Excesses(reservation')[r]
      BY <1>2, <1>3, <1>5, SumsMove
    <2>2. QED
      BY <2>1, <1>4, <1>5, <1>10
  <1>12. /\ Held(reservation) \in Int /\ Captured(reservation) \in Int
         /\ Excess(reservation) \in Nat
    BY <1>3, SumTypes
  <1>13. Balanced(wallet', reservation', ledger')
    BY <1>2, <1>6, <1>7, <1>9, <1>11, <1>12 DEF BalanceInv, Balanced
  <1>14. NothingCapturedEarly'
    BY <1>5 DEF BalanceInv, NothingCapturedEarly
  <1>15. QED
    BY <1>13, <1>14 DEF BalanceInv

\* The kinds of steps together.
LEMMA StepBalance ==
    ASSUME TypeOK, TypeOK', BalanceInv, IInv, [Next]_creditVars
    PROVE  BalanceInv'
  <1>1. CASE UNCHANGED creditVars
    BY <1>1 DEF creditVars, BalanceInv, NothingCapturedEarly
  <1>2. CASE QuietStep
    BY <1>2 DEF QuietStep, BalanceInv, NothingCapturedEarly
  <1>3. CASE OpenStep
    <2>1. /\ wallet'.available = wallet.available /\ wallet'.reserved = wallet.reserved
          /\ UNCHANGED <<ledger, reservation>>
      BY <1>3 DEF OpenStep, OpenWallet, TypeOK
    <2>2. QED
      BY <2>1 DEF BalanceInv, Balanced, NothingCapturedEarly
  <1>4. QED
    BY <1>1, <1>2, <1>3, StepKinds, GrantBalance, ReserveBalance, SettleBalance

\* The balances are the sums over the reservations and the entries, in every state.
THEOREM BalancesAreSums == Spec => []BalanceInv
  <1>1. BalanceInv /\ IInv /\ IInv' /\ [Next]_creditVars => BalanceInv'
    <2> SUFFICES ASSUME BalanceInv, IInv, IInv', [Next]_creditVars PROVE BalanceInv'
      OBVIOUS
    <2>1. TypeOK /\ TypeOK'
      BY DEF IInv
    <2>2. QED
      BY <2>1, StepBalance
  <1>2. QED
    BY InitBalance, InductiveInvariant, <1>1, PTL DEF Spec

\* Credit is neither created nor lost: what was granted is available, held or
\* captured, and the wallet holds the sum of the open reservations, whatever
\* grants, reservations, settlements, sweeps and crashes come in between.
THEOREM CreditIsConserved == Spec => []Conservation
  <1>1. BalanceInv => Conservation
    BY BalancedMeans DEF BalanceInv
  <1>2. QED
    BY <1>1, BalancesAreSums, PTL

\* The balance goes below zero by no more than what usage cost over its holds.
THEOREM DebtIsExcessUsage == Spec => []DebtComesFromUsage
  <1>1. BalanceInv => DebtComesFromUsage
    BY BalancedMeans DEF BalanceInv
  <1>2. QED
    BY <1>1, BalancesAreSums, PTL

-----------------------------------------------------------------------------
(* The refinement: the reservations are the holds of one account.          *)

\* The hold a reservation stands for.
HoldFor(x) ==
    [state |-> CASE x.status = "none" -> "absent"
                 [] x.status = "reserved" -> "held"
                 [] OTHER -> "closed",
     amount |-> x.amount, charged |-> x.captured]

Holds == [r \in Requests |-> HoldFor(reservation[r])]

\* An initial ledger is an initial account.
LEMMA InitMaps == Init => Account!Init
  <1> SUFFICES ASSUME Init PROVE Account!Init
    OBVIOUS
  <1>1. wallet.available = 0
    BY DEF Init
  <1>2. \A r \in Requests : reservation[r] = [status |-> "none", amount |-> 0, captured |-> 0]
    BY DEF Init, NoReservation
  <1>3. QED
    BY <1>1, <1>2 DEF Account!Init, Account!Absent, Open

\* Every step is a step of the account or a stutter.
LEMMA StepMaps ==
    ASSUME IInv, [Next]_creditVars
    PROVE  [Account!Next]_(Account!accountVars)
  <1> DEFINE hold == [r \in Requests |->
                [state |-> CASE reservation[r].status = "none" -> "absent"
                             [] Open(r) -> "held"
                             [] OTHER -> "closed",
                 amount |-> reservation[r].amount, charged |-> reservation[r].captured]]
  <1>0. TypeOK
    BY DEF IInv
  <1>1. /\ hold = Holds /\ hold' = Holds'
    BY DEF Holds, HoldFor, Open
  <1>2. CASE UNCHANGED <<wallet, reservation>>
    BY <1>2 DEF Account!accountVars, Open
  <1>3. CASE OpenStep
    <2>1. wallet'.available = wallet.available /\ UNCHANGED reservation
      BY <1>0, <1>3 DEF OpenStep, OpenWallet, TypeOK
    <2>2. QED
      BY <2>1 DEF Account!accountVars, Open
  <1>4. CASE GrantStep
    <2>1. PICK g \in Grants, a \in Amounts :
            Move([wallet EXCEPT !.version = IF @ = 0 THEN 1 ELSE @], "grant", GrantKeyOf[g], a, 0)
      BY <1>4 DEF GrantStep
    <2>2. wallet'.available = wallet.available + a
      BY <1>0, <2>1 DEF Move, Moved, TypeOK
    <2>3. a \in Nat /\ a > 0 /\ wallet.available \in Int
      BY <1>0, LedgerAssumption DEF TypeOK
    <2>4. wallet'.available > wallet.available
      BY <2>2, <2>3
    <2>5. UNCHANGED reservation
      BY <1>4 DEF GrantStep
    <2>6. Account!Grant
      BY <2>4, <2>5 DEF Account!Grant, Open
    <2>7. QED
      BY <2>6 DEF Account!Next
  <1>5. CASE ReserveStep
    <2>1. PICK r \in Requests :
            /\ Covered(r)
            /\ reservation[r].status = "none"
            /\ reservation' = [reservation EXCEPT ![r] =
                    [status |-> "reserved", amount |-> HoldOf[r], captured |-> 0]]
            /\ wallet'.available = wallet.available - HoldOf[r]
      BY <1>0, <1>5, ReserveFacts
    <2>2. /\ wallet.available - wallet'.available = HoldOf[r]
          /\ HoldOf[r] \in 0..wallet.available
      <3>1. HoldOf[r] \in Nat /\ wallet.available \in Int /\ wallet.available >= HoldOf[r]
        BY <1>0, <2>1, LedgerAssumption DEF Covered, TypeOK
      <3>2. QED
        BY <2>1, <3>1
    <2>3. Holds[r].state = "absent"
      BY <2>1 DEF Holds, HoldFor
    <2>4. Holds' = [Holds EXCEPT ![r] = [state |-> "held", amount |-> HoldOf[r], charged |-> 0]]
      <3>1. reservation'[r] = [status |-> "reserved", amount |-> HoldOf[r], captured |-> 0]
        BY <1>0, <2>1 DEF TypeOK
      <3>2. \A q \in Requests \ {r} : reservation'[q] = reservation[q]
        BY <1>0, <2>1 DEF TypeOK
      <3>3. HoldFor(reservation'[r]) = [state |-> "held", amount |-> HoldOf[r], charged |-> 0]
        BY <3>1 DEF HoldFor
      <3>4. QED
        BY <3>2, <3>3 DEF Holds
    <2>5. Account!Reserve(r)
      BY <1>1, <2>2, <2>3, <2>4 DEF Account!Reserve
    <2>6. QED
      BY <2>5 DEF Account!Next
  <1>6. CASE SettleStep
    <2>1. PICK s \in Settlements :
            /\ s.request \in Requests
            /\ reservation[s.request].status = "reserved"
            /\ reservation' \in [Requests -> [status : ReservationStatuses, amount : Nat,
                                             captured : Nat]]
            /\ reservation'[s.request].status = IF s.hasResult THEN "captured" ELSE "released"
            /\ reservation'[s.request].amount = reservation[s.request].amount
            /\ reservation'[s.request].captured = Charge(s)
            /\ \A r \in Requests \ {s.request} : reservation'[r] = reservation[r]
            /\ wallet'.available = wallet.available
                    + Given(reservation[s.request].amount, Charge(s))
      BY <1>0, <1>6, SettleFacts
    <2> DEFINE r == s.request
    <2>2. Charge(s) \in Nat /\ reservation[r].amount \in Nat /\ wallet.available \in Int
      BY <1>0, <2>1, ChargeTyped DEF TypeOK
    <2>3. Holds[r].state = "held" /\ Holds[r].amount = reservation[r].amount
      BY <2>1 DEF Holds, HoldFor
    <2>4. wallet.available + Holds[r].amount - wallet'.available = Charge(s)
      BY <2>1, <2>2, <2>3 DEF Given
    <2>5. Holds' = [Holds EXCEPT ![r].state = "closed", ![r].charged = Charge(s)]
      <3>1. HoldFor(reservation'[r]) =
                [state |-> "closed", amount |-> reservation[r].amount, charged |-> Charge(s)]
        BY <2>1 DEF HoldFor
      <3>2. Holds[r] = [state |-> "held", amount |-> reservation[r].amount,
                        charged |-> reservation[r].captured]
        BY <2>1 DEF Holds, HoldFor
      <3>3. QED
        BY <2>1, <3>1, <3>2 DEF Holds
    <2>6. Account!Close(r)
      <3>1. /\ hold[r].state = "held"
            /\ wallet.available + hold[r].amount - wallet'.available = Charge(s)
            /\ hold' = [hold EXCEPT ![r].state = "closed", ![r].charged = Charge(s)]
        BY <1>1, <2>3, <2>4, <2>5
      <3>2. Charge(s) >= 0
        BY <2>2
      <3>3. QED
        BY <3>1, <3>2 DEF Account!Close
    <2>7. QED
      BY <2>1, <2>6 DEF Account!Next
  <1>7. QED
    BY <1>0, <1>2, <1>3, <1>4, <1>5, <1>6, StepKinds DEF QuietStep, creditVars

\* The tables behave as one account from which every hold is taken once: only a grant
\* adds credit, a hold is taken when the balance covers it, and closing it once gives
\* back what the usage did not cost.
THEOREM LedgerImplementsAccount == Spec => ImplementsAccount
  <1>1. IInv /\ [Next]_creditVars => [Account!Next]_(Account!accountVars)
    BY StepMaps
  <1>2. QED
    BY <1>1, InitMaps, InductiveInvariant, PTL DEF Spec, ImplementsAccount, Account!Spec

=============================================================================
