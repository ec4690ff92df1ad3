---------------------------- MODULE CreditLedger ----------------------------
(***************************************************************************)
(* The RenCredit wallet of one organization and the metered inference      *)
(* requests that spend from it: grants, the reservation made before a      *)
(* request leaves for the provider, its settlement when the answer, the    *)
(* failure or the client's abort comes, and the sweep that releases the    *)
(* reservations nobody settled.                                            *)
(*                                                                         *)
(* A transaction takes its locks in its first locking read and holds them  *)
(* until it commits, so it is one action; the plain read of an idempotency *)
(* key that comes before the lock is an action of its own.  An action that *)
(* would break a unique index rolls back and leaves the tables alone.      *)
(*                                                                         *)
(* Source: ee/apps/den-api/src/rencredit-ledger.ts and                     *)
(* routes/inference-gateway.ts; the unique indexes are those of            *)
(* ee/packages/den-db/src/schema/inference.ts.  Routing, pricing, the      *)
(* failure code and the suspended status, which no code sets, are left out.*)
(***************************************************************************)
EXTENDS Integers, Sequences, FiniteSets, Functions

CONSTANTS
    Requests,    \* inference requests; each has its reservation
    KeyOf,       \* the Idempotency-Key header of each request
    RunOf,       \* the run id of each request
    Free,        \* the requests whose route has the billing mode "free"
    HoldOf,      \* the estimated cost of each request
    Streams,     \* the requests that ask for a stream
    Grants,      \* calls of the admin grant route
    GrantKeyOf,  \* the idempotency key of each grant
    Amounts,     \* what a grant adds
    Charges,     \* what usage costs
    Responses,   \* ids a provider gives its answers
    Replicas,    \* Den API processes, each with a sweep
    SweepLimit,  \* reservations one sweep reads
    MaxCrashes   \* BOUND: crashes

ASSUME LedgerAssumption ==
    /\ DOMAIN KeyOf = Requests
    /\ DOMAIN RunOf = Requests
    /\ DOMAIN GrantKeyOf = Grants
    /\ Amounts \subseteq Nat \ {0}
    /\ Free \subseteq Requests
    /\ HoldOf \in [Requests -> Nat]
    /\ \A r \in Free : HoldOf[r] = 0
    /\ Charges \subseteq Nat
    /\ Streams \subseteq Requests
    /\ Responses # {}
    /\ MaxCrashes \in Nat
    /\ SweepLimit \in Nat \ {0}

\* The reservations of a table can be added up.
ASSUME RequestsAreFinite == IsFiniteSet(Requests)

VARIABLES
    wallet,       \* rencredit_wallets, one row; version 0 before it is created
    reservation,  \* rencredit_reservations, one row for each request
    ledger,       \* rencredit_ledger_entries, in the order they are written
    usage,        \* rencredit_usage_events: the response each reservation was charged for
    expired,      \* the reservations whose expires_at has passed
    request,      \* where the handler of each request is
    grant,        \* where the handler of each grant is
    settling,     \* settlements the gateway has asked for and not committed
    sweep,        \* the expired reservations each sweep has read and not released
    crashes

creditVars ==
    <<wallet, reservation, ledger, usage, expired, request, grant, settling, sweep, crashes>>

Handlers == {"new", "looked", "reserved", "calling", "ended"}
ReservationStatuses == {"none", "reserved", "captured", "released"}

NoReservation == [status |-> "none", amount |-> 0, captured |-> 0]

\* What the gateway asks settleInferenceCredits for.
Settlements ==
    [request : Requests, hasResult : BOOLEAN, charge : Nat, response : Responses]

Entries ==
    [kind : {"grant", "reserve", "capture", "release"}, key : {KeyOf[r] : r \in Requests}
        \cup {GrantKeyOf[g] : g \in Grants} \cup Requests,
     available : Int, reserved : Int, availableAfter : Int, reservedAfter : Int,
     version : Nat]

TypeOK ==
    /\ wallet \in [available : Int, reserved : Int, version : Nat]
    /\ reservation \in [Requests -> [status : ReservationStatuses, amount : Nat,
                                     captured : Nat]]
    /\ ledger \in Seq(Entries)
    /\ usage \subseteq Requests \X Responses
    /\ expired \subseteq Requests
    /\ request \in [Requests -> Handlers]
    /\ grant \in [Grants -> {"new", "looked", "ended"}]
    /\ settling \subseteq Settlements
    /\ sweep \in [Replicas -> SUBSET Requests]
    /\ crashes \in 0..MaxCrashes

Init ==
    /\ wallet = [available |-> 0, reserved |-> 0, version |-> 0]
    /\ reservation = [r \in Requests |-> NoReservation]
    /\ ledger = << >>
    /\ usage = {}
    /\ expired = {}
    /\ request = [r \in Requests |-> "new"]
    /\ grant = [g \in Grants |-> "new"]
    /\ settling = {}
    /\ sweep = [p \in Replicas |-> {}]
    /\ crashes = 0

-----------------------------------------------------------------------------
(* Moving the balance.                                                     *)

\* Mutant of Moved: the version is left as it was.
MovedSilently(w, available, reserved) ==
    [w EXCEPT !.available = @ + available, !.reserved = @ + reserved]

\* The wallet row after its balances change, and the entry written with it.
\* Every transaction that does so increments the version of the row it locked.
Moved(w, available, reserved) ==
    [available |-> w.available + available, reserved |-> w.reserved + reserved,
     version |-> w.version + 1]

Move(w, kind, key, available, reserved) ==
    LET after == Moved(w, available, reserved)
    IN /\ wallet' = after
       /\ ledger' = Append(ledger,
            [kind |-> kind, key |-> key, available |-> available, reserved |-> reserved,
             availableAfter |-> after.available, reservedAfter |-> after.reserved,
             version |-> after.version])

LedgerHas(kind, key) == \E i \in DOMAIN ledger : ledger[i].kind = kind /\ ledger[i].key = key

\* getOrCreateRenCreditWallet
OpenWallet ==
    /\ wallet.version = 0
    /\ wallet' = [wallet EXCEPT !.version = 1]
    /\ UNCHANGED <<reservation, ledger, usage, expired, request, grant, settling, sweep, crashes>>

-----------------------------------------------------------------------------
(* grantRenCredit.                                                         *)

LookUpGrant(g) ==
    /\ grant[g] = "new"
    /\ grant' = [grant EXCEPT ![g] =
            IF LedgerHas("grant", GrantKeyOf[g]) THEN "ended" ELSE "looked"]
    /\ UNCHANGED <<wallet, reservation, ledger, usage, expired, request, settling, sweep, crashes>>

\* The row is created on the way when it is missing.
CommitGrant(g) ==
    /\ grant[g] = "looked"
    /\ grant' = [grant EXCEPT ![g] = "ended"]
    /\ IF LedgerHas("grant", GrantKeyOf[g])
       THEN UNCHANGED <<wallet, ledger>>
       ELSE \E a \in Amounts :
            Move([wallet EXCEPT !.version = IF @ = 0 THEN 1 ELSE @],
                 "grant", GrantKeyOf[g], a, 0)
    /\ UNCHANGED <<reservation, usage, expired, request, settling, sweep, crashes>>

-----------------------------------------------------------------------------
(* reserveInferenceCredits, called by the gateway before egress.           *)

KeyTaken(r) == \E q \in Requests : reservation[q].status # "none" /\ KeyOf[q] = KeyOf[r]

RunTaken(r) == \E q \in Requests : reservation[q].status # "none" /\ RunOf[q] = RunOf[r]

\* A key that already has a reservation is answered 409 and goes no further.
LookUp(r) ==
    /\ request[r] = "new"
    /\ request' = [request EXCEPT ![r] = IF KeyTaken(r) THEN "ended" ELSE "looked"]
    /\ UNCHANGED <<wallet, reservation, ledger, usage, expired, grant, settling, sweep, crashes>>

\* Mutant of Covered: the hold is not checked against the balance.
CoveredUnchecked(r) == wallet.version > 0

Covered(r) == wallet.version > 0 /\ wallet.available >= HoldOf[r]

\* Mutant of KeysFree: the unique index on the run alone.
KeysFreeByRun(r) == ~RunTaken(r)

\* The unique indexes on (organization, idempotency key) and (organization, run).
KeysFree(r) == ~KeyTaken(r) /\ ~RunTaken(r)

Reserve(r) ==
    /\ request[r] = "looked"
    /\ IF Covered(r) /\ KeysFree(r)
       THEN /\ request' = [request EXCEPT ![r] = "reserved"]
            /\ reservation' = [reservation EXCEPT ![r] =
                    [status |-> "reserved", amount |-> HoldOf[r], captured |-> 0]]
            /\ Move(wallet, "reserve", KeyOf[r], -HoldOf[r], HoldOf[r])
       ELSE /\ request' = [request EXCEPT ![r] = "ended"]
            /\ UNCHANGED <<reservation, wallet, ledger>>
    /\ UNCHANGED <<usage, expired, grant, settling, sweep, crashes>>

-----------------------------------------------------------------------------
(* The gateway between the reservation and its settlement.                 *)

\* releaseInferenceCredits settles with no result and no usage.
ReleaseOf(r) ==
    [request |-> r, hasResult |-> FALSE, charge |-> 0, response |-> CHOOSE x \in Responses : TRUE]

\* What an answer is settled with; usage is not charged without a result.
AnswersOf(r) ==
    {ReleaseOf(r)} \cup
    [request : {r}, hasResult : {TRUE}, charge : Charges, response : Responses]

CallProvider(r) ==
    /\ request[r] = "reserved"
    /\ request' = [request EXCEPT ![r] = "calling"]
    /\ UNCHANGED <<wallet, reservation, ledger, usage, expired, grant, settling, sweep, crashes>>

\* A network error, an error status, an invalid answer or an empty stream.
ProviderFails(r) ==
    /\ request[r] = "calling"
    /\ request' = [request EXCEPT ![r] = "ended"]
    /\ settling' = settling \cup {ReleaseOf(r)}
    /\ UNCHANGED <<wallet, reservation, ledger, usage, expired, grant, sweep, crashes>>

\* A whole answer, or the end of a stream; an answer may have no content.
ProviderAnswers(r) ==
    /\ request[r] = "calling"
    /\ request' = [request EXCEPT ![r] = "ended"]
    /\ \E s \in AnswersOf(r) : settling' = settling \cup {s}
    /\ UNCHANGED <<wallet, reservation, ledger, usage, expired, grant, sweep, crashes>>

\* cancel() of the stream releases; a read it interrupts ends the stream, which
\* settles what was read so far.
ClientAborts(r) ==
    /\ request[r] = "calling"
    /\ request' = [request EXCEPT ![r] = "ended"]
    /\ \/ settling' = settling \cup {ReleaseOf(r)}
       \/ /\ r \in Streams
          /\ \E s \in AnswersOf(r) : settling' = settling \cup {ReleaseOf(r), s}
    /\ UNCHANGED <<wallet, reservation, ledger, usage, expired, grant, sweep, crashes>>

-----------------------------------------------------------------------------
(* settleInferenceCredits and releaseInferenceCredits.                     *)

\* Mutant of Open: the status read under the lock is not looked at.
OpenUnchecked(r) == reservation[r].status # "none"

\* A reservation that is settled already is returned as it is.
Open(r) == reservation[r].status = "reserved"

\* Usage without a result is free, and so is that of a free route.
Charge(s) == IF s.hasResult /\ s.request \notin Free THEN s.charge ELSE 0

\* Mutant of ResponseTaken: no unique index on the response.
ResponseNeverTaken(s) == FALSE

\* The unique index on (organization, provider response) fails the transaction.
ResponseTaken(s) == s.hasResult /\ \E r \in Requests : <<r, s.response>> \in usage

\* Mutant of Given: an excess over the hold is not charged.
GivenBounded(amount, captured) == IF captured > amount THEN 0 ELSE amount - captured

\* Released when the hold covers the charge, an additional charge when not.
Given(amount, captured) == amount - captured

\* Mutant of SettledUsage: the two ids are swapped.
SettledUsageSwapped(s) ==
    IF s.hasResult THEN usage \cup {<<s.response, s.request>>} ELSE usage

SettledUsage(s) == IF s.hasResult THEN usage \cup {<<s.request, s.response>>} ELSE usage

\* Mutant of HoldTaken: what was captured is taken out of the held credit.
HoldTakenCaptured(s) == Charge(s)

\* The held credit of the wallet goes down by the whole hold.
HoldTaken(s) == reservation[s.request].amount

Settle(s) ==
    LET status == IF s.hasResult THEN "captured" ELSE "released"
        kind == IF s.hasResult THEN "capture" ELSE "release"
    IN /\ Move(wallet, kind, s.request,
               Given(reservation[s.request].amount, Charge(s)), -HoldTaken(s))
       /\ usage' = SettledUsage(s)
       /\ reservation' = [reservation EXCEPT ![s.request].status = status,
                                             ![s.request].captured = Charge(s)]

\* One transaction: nothing to do, rolled back, or settled.
Transaction(s) ==
    IF Open(s.request) /\ ~ResponseTaken(s) THEN Settle(s)
    ELSE UNCHANGED <<wallet, ledger, usage, reservation>>

\* A settlement that is rolled back fails the request; a stream releases instead.
CommitSettlement(s) ==
    /\ s \in settling
    /\ Transaction(s)
    /\ settling' = (settling \ {s}) \cup
            IF s.request \in Streams /\ Open(s.request) /\ ResponseTaken(s)
            THEN {ReleaseOf(s.request)} ELSE {}
    /\ UNCHANGED <<expired, request, grant, sweep, crashes>>

-----------------------------------------------------------------------------
(* startRenCreditReservationSweep.                                         *)

\* Mutant of Expired: the comparison is turned round.
ExpiredReversed(r) == Open(r) /\ r \notin expired

Expired(r) == Open(r) /\ r \in expired

\* A sweep that is still running is not started again.
Sweep(p) ==
    /\ sweep[p] = {}
    /\ \E batch \in SUBSET {r \in Requests : Expired(r)} :
        /\ batch # {}
        /\ Cardinality(batch) <= SweepLimit
        /\ \/ Cardinality(batch) = SweepLimit
           \/ batch = {r \in Requests : Expired(r)}
        /\ sweep' = [sweep EXCEPT ![p] = batch]
    /\ UNCHANGED <<wallet, reservation, ledger, usage, expired, request, grant, settling, crashes>>

SweepRelease(p, r) ==
    /\ r \in sweep[p]
    /\ Transaction(ReleaseOf(r))
    /\ sweep' = [sweep EXCEPT ![p] = @ \ {r}]
    /\ UNCHANGED <<expired, request, grant, settling, crashes>>

-----------------------------------------------------------------------------
\* The half hour a reservation is given passes.
Expire(r) ==
    /\ Open(r)
    /\ r \notin expired
    /\ expired' = expired \cup {r}
    /\ UNCHANGED <<wallet, reservation, ledger, usage, request, grant, settling, sweep,
                   crashes>>

\* The process of a request stops: the request and what it asked for are lost.
CrashGateway(r) ==
    /\ crashes < MaxCrashes
    /\ request[r] \in {"looked", "reserved", "calling"} \/ \E s \in settling : s.request = r
    /\ request' = [request EXCEPT ![r] = "ended"]
    /\ settling' = {s \in settling : s.request # r}
    /\ crashes' = crashes + 1
    /\ UNCHANGED <<wallet, reservation, ledger, usage, expired, grant, sweep>>

CrashSweep(p) ==
    /\ crashes < MaxCrashes
    /\ sweep[p] # {}
    /\ sweep' = [sweep EXCEPT ![p] = {}]
    /\ crashes' = crashes + 1
    /\ UNCHANGED <<wallet, reservation, ledger, usage, expired, request, grant, settling>>

GatewayStep(r) ==
    \/ LookUp(r) \/ Reserve(r) \/ CallProvider(r)
    \/ ProviderFails(r) \/ ProviderAnswers(r) \/ ClientAborts(r) \/ CrashGateway(r)

SweepStep(p) ==
    \/ Sweep(p)
    \/ \E r \in Requests : SweepRelease(p, r)

Next ==
    \/ OpenWallet
    \/ \E g \in Grants : LookUpGrant(g) \/ CommitGrant(g)
    \/ \E r \in Requests : GatewayStep(r) \/ Expire(r)
    \/ \E s \in settling : CommitSettlement(s)
    \/ \E p \in Replicas : SweepStep(p) \/ CrashSweep(p)

Spec == Init /\ [][Next]_creditVars

\* The timer of the sweep runs as long as a process does, the clock goes on, and a
\* settlement that was asked for is committed.  Clients and providers owe nothing.
FairSpec ==
    /\ Spec
    /\ \A r \in Requests : WF_creditVars(Expire(r))
    /\ \A p \in Replicas : WF_creditVars(SweepStep(p))
    /\ WF_creditVars(\E s \in settling : CommitSettlement(s))

-----------------------------------------------------------------------------
(* Properties.                                                             *)

\* The entries explain the wallet: each starts from the balances and the version
\* the one before it left, and the last one left the wallet as it is, although
\* grants, reservations and settlements of several processes write them.
LedgerExplainsWallet ==
    /\ \A i \in DOMAIN ledger :
        /\ ledger[i].version = i + 1
        /\ ledger[i].availableAfter = ledger[i].available +
                (IF i = 1 THEN 0 ELSE ledger[i - 1].availableAfter)
        /\ ledger[i].reservedAfter = ledger[i].reserved +
                (IF i = 1 THEN 0 ELSE ledger[i - 1].reservedAfter)
    /\ IF ledger = << >> THEN wallet.available = 0 /\ wallet.reserved = 0
       ELSE LET last == ledger[Len(ledger)]
            IN wallet = [available |-> last.availableAfter, reserved |-> last.reservedAfter,
                         version |-> last.version]

\* Credit is conserved: what was granted is available, held or captured, and what
\* the wallet counts as held is the sum of the open reservations.
Conservation ==
    /\ wallet.reserved = SumFunction([r \in Requests |->
            IF Open(r) THEN reservation[r].amount ELSE 0])
    /\ wallet.available + wallet.reserved
            + SumFunction([r \in Requests |-> reservation[r].captured])
        = SumFunction([i \in DOMAIN ledger |->
            IF ledger[i].kind = "grant" THEN ledger[i].available ELSE 0])

\* The balance goes below zero only by usage that cost more than its hold.
DebtComesFromUsage ==
    wallet.available + SumFunction([r \in Requests |->
        IF reservation[r].captured > reservation[r].amount
        THEN reservation[r].captured - reservation[r].amount ELSE 0]) >= 0

\* However many copies of a request arrive, one at most goes to the provider for
\* an idempotency key, and one for a run; it has a reservation of its own.
OneEgressPerKey ==
    \A r \in Requests : request[r] \in {"reserved", "calling"} =>
        /\ reservation[r].status # "none"
        /\ \A q \in Requests \ {r} : KeyOf[q] = KeyOf[r] \/ RunOf[q] = RunOf[r]
                                     => reservation[q].status = "none"

\* A usage event is written for the captured reservations and no others, and no
\* response of the provider is charged twice.
UsageMatchesCapture ==
    /\ \A r \in Requests :
        reservation[r].status = "captured" <=> \E x \in Responses : <<r, x>> \in usage
    /\ \A u, v \in usage : u[2] = v[2] => u = v

\* What settled stays settled, whoever comes later: the sweep, an abort or an answer.
SettledIsFinal ==
    [][\A r \in Requests : reservation[r].status \in {"captured", "released"}
            => reservation'[r] = reservation[r]]_creditVars

Account == INSTANCE CreditAccount WITH
    Reservations <- Requests,
    available <- wallet.available,
    hold <- [r \in Requests |->
        [state |-> CASE reservation[r].status = "none" -> "absent"
                     [] Open(r) -> "held"
                     [] OTHER -> "closed",
         amount |-> reservation[r].amount, charged |-> reservation[r].captured]]

\* The tables behave as one account from which every hold is taken once.
ImplementsAccount == Account!Spec

\* A hold does not stay: when the process that took it is gone the sweep gives it back.
HoldsEnd == \A r \in Requests : Open(r) ~> ~Open(r)
=============================================================================
