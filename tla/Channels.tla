------------------------------ MODULE Channels ------------------------------
(***************************************************************************)
(* Payments off the chain: a payment channel, a payment routed over hash and *)
(* time locks, the accounts of the second layer, the balances wrapped from  *)
(* other networks.                                                           *)
(*                                                                          *)
(* Amounts are unsigned words of AmountWidth values and times of TimeWidth     *)
(* values: additions wrap as in the code.  Signatures are only required to be   *)
(* present, so every update that is offered carries them.                     *)
(***************************************************************************)
EXTENDS Integers, FiniteSets, Sequences, Sums

CONSTANTS
    AmountWidth, TimeWidth,
    Funding,        \* the initial balance of each asset: <<party A, party B>>
    MaxSequence,    \* bound on the sequence numbers that are offered
    Disputes,       \* dispute periods
    Expiries,       \* expiries a hop of a route may have
    MaxHops,        \* bound on the hops of a route
    MaxChannelTime,        \* bound on the clock
    Account,        \* accounts of PaymentsStateMachine and of CrossChainBridge
    Transfers       \* pairs <<amount, fee>>

ASSUME ChannelAssumption ==
    /\ {AmountWidth, TimeWidth} \subseteq Nat \ {0} /\ MaxChannelTime < TimeWidth
    /\ {MaxSequence, MaxHops, MaxChannelTime} \subseteq Nat /\ Disputes \cup Expiries \subseteq 0 .. TimeWidth - 1
    /\ IsFiniteSet(Account) /\ Transfers \subseteq (0 .. AmountWidth - 1) \X (0 .. AmountWidth - 1)
    /\ \A x \in DOMAIN Funding : Funding[x] \in (0 .. AmountWidth - 1) \X (0 .. AmountWidth - 1)

VARIABLES
    channel,    \* PaymentChannel
    agreed,     \* the updates both parties signed: sequence -> balances
    route,      \* HTLCRoute: the expiries of its hops
    locks,      \* the HTLC of each hop, once the route was validated: [claim, at]
    paid,       \* PaymentsStateMachine: balances, fees, and what was credited
    wrapped,    \* CrossChainBridge: balances, and what was locked and unlocked
    time        \* std::time and the time callers pass
channelVars == <<channel, agreed, route, locks, paid, wrapped, time>>

Asset == DOMAIN Funding
Word == 0 .. AmountWidth - 1
Plus(a, b) == (a + b) % AmountWidth
Minus(a, b) == (a - b) % AmountWidth

InitChannels ==
    /\ channel = [state |-> "FUNDING", sequence |-> 0, closedAt |-> 0, dispute |-> 0,
                  a |-> [x \in Asset |-> Funding[x][1]], b |-> [x \in Asset |-> Funding[x][2]]]
    /\ agreed = {}
    /\ route = <<>> /\ locks = <<>>
    /\ paid = [balance |-> [x \in Account |-> 0], fees |-> 0, credited |-> 0]
    /\ wrapped = [balance |-> [x \in Account |-> 0], locked |-> 0, unlocked |-> 0]
    /\ time = 0

Clock ==
    /\ time < MaxChannelTime
    /\ time' = time + 1
    /\ UNCHANGED <<channel, agreed, route, locks, paid, wrapped>>

-----------------------------------------------------------------------------
Open ==
    /\ channel.state = "FUNDING"
    /\ channel' = [channel EXCEPT !.state = "OPEN"]
    /\ UNCHANGED <<agreed, route, locks, paid, wrapped, time>>

(* VerifyBalances and the check of UpdateState: per asset, modulo the width *)
Covers(a, b) == \A x \in Asset : Plus(a[x], b[x]) = Plus(Funding[x][1], Funding[x][2])

(* Mutant: an update with the sequence number of the last one is taken *)
Newer_OrSame(sequence) == sequence >= channel.sequence

Newer(sequence) == sequence > channel.sequence

UpdateState(a, b, sequence) ==
    /\ channel.state = "OPEN"
    /\ Newer(sequence)
    /\ Covers(a, b)
    /\ channel' = [channel EXCEPT !.a = a, !.b = b, !.sequence = sequence]
    /\ agreed' = agreed \cup {[sequence |-> sequence, a |-> a, b |-> b]}
    /\ UNCHANGED <<route, locks, paid, wrapped, time>>

InitiateClose(dispute) ==
    /\ channel.state = "OPEN"
    /\ channel' = [channel EXCEPT !.state = "CLOSING", !.closedAt = time, !.dispute = dispute]
    /\ UNCHANGED <<agreed, route, locks, paid, wrapped, time>>

FinalizeClose ==
    /\ channel.state = "CLOSING"
    /\ time >= (channel.closedAt + channel.dispute) % TimeWidth
    /\ channel' = [channel EXCEPT !.state = "CLOSED"]
    /\ UNCHANGED <<agreed, route, locks, paid, wrapped, time>>

ChannelStep ==
    \/ Open \/ FinalizeClose \/ Clock
    \/ \E dispute \in Disputes : InitiateClose(dispute)
    \/ \E a, b \in [Asset -> Word] : \E s \in 1 .. MaxSequence : UpdateState(a, b, s)

-----------------------------------------------------------------------------
(* A routed payment: hop i pays over an HTLC that its sender can take back from expiry i on; *)
(* the receiver of the last hop knows the preimage, every other one learns it when the next    *)
(* hop is claimed with it.                                                                     *)
AddHop(expiry) ==
    /\ locks = <<>> /\ Len(route) < MaxHops
    /\ route' = Append(route, expiry)
    /\ UNCHANGED <<channel, agreed, locks, paid, wrapped, time>>

Validate == route # <<>> /\ \A i \in 2 .. Len(route) : route[i] < route[i - 1]

LockRoute ==
    /\ locks = <<>> /\ Validate
    /\ locks' = [i \in 1 .. Len(route) |-> [claim |-> "none", at |-> 0]]
    /\ UNCHANGED <<channel, agreed, route, paid, wrapped, time>>

KnowsPreimage(i) == i < Len(route) => locks[i + 1].claim = "preimage"

(* The time lock does not end the receiver's claim *)
ClaimWithPreimage(i) ==
    /\ locks[i].claim = "none" /\ KnowsPreimage(i)
    /\ locks' = [locks EXCEPT ![i] = [claim |-> "preimage", at |-> time]]
    /\ UNCHANGED <<channel, agreed, route, paid, wrapped, time>>

ClaimWithTimeout(i) ==
    /\ locks[i].claim = "none" /\ time >= route[i]
    /\ locks' = [locks EXCEPT ![i] = [claim |-> "timeout", at |-> time]]
    /\ UNCHANGED <<channel, agreed, route, paid, wrapped, time>>

RouteStep ==
    \/ \E e \in Expiries : AddHop(e)
    \/ LockRoute \/ Clock
    \/ \E i \in DOMAIN locks : ClaimWithPreimage(i) \/ ClaimWithTimeout(i)

-----------------------------------------------------------------------------
Credit(x, amount) ==
    /\ paid.credited + amount < 2 * AmountWidth
    /\ paid' = [paid EXCEPT !.balance[x] = Plus(@, amount), !.credited = @ + amount]
    /\ UNCHANGED <<channel, agreed, route, locks, wrapped, time>>

Transfer(from, to, amount, fee) ==
    LET debit == Plus(amount, fee) IN
    /\ from # to /\ amount # 0 /\ debit >= amount
    /\ paid.balance[from] >= debit
    /\ paid' = [paid EXCEPT !.balance[from] = @ - debit, !.balance[to] = Plus(@, amount),
                                    !.fees = Plus(@, fee)]
    /\ UNCHANGED <<channel, agreed, route, locks, wrapped, time>>

LockAsset(x, amount) ==
    /\ amount # 0 /\ wrapped.locked + amount < 2 * AmountWidth
    /\ wrapped' = [wrapped EXCEPT !.balance[x] = Plus(@, amount), !.locked = @ + amount]
    /\ UNCHANGED <<channel, agreed, route, locks, paid, time>>

UnlockAsset(x, amount) ==
    /\ amount # 0 /\ wrapped.balance[x] >= amount
    /\ wrapped' = [wrapped EXCEPT !.balance[x] = @ - amount, !.unlocked = @ + amount]
    /\ UNCHANGED <<channel, agreed, route, locks, paid, time>>

AccountStep ==
    \/ \E x \in Account : \E t \in Transfers :
          Credit(x, t[1]) \/ LockAsset(x, t[1]) \/ UnlockAsset(x, t[1])
    \/ \E x, y \in Account : \E t \in Transfers : Transfer(x, y, t[1], t[2])

ChannelsSpec == InitChannels /\ [][ChannelStep \/ RouteStep \/ AccountStep]_channelVars

-----------------------------------------------------------------------------
ChannelsTypeOK ==
    /\ channel.state \in {"FUNDING", "OPEN", "CLOSING", "CLOSED"}
    /\ channel.a \in [Asset -> Word] /\ channel.b \in [Asset -> Word]
    /\ DOMAIN locks \in {{}, DOMAIN route}
    /\ time \in 0 .. MaxChannelTime

(* Each party can rely on what it signed or holds.  A channel is worth the one update of the *)
(* highest sequence number, and no two signed updates share a number.  An intermediary whose   *)
(* outgoing payment was claimed before it could take it back has had more than one unit of      *)
(* time before the incoming one could be taken back: Validate's decreasing expiries.  The sums   *)
(* of balances follow what came in and went out, modulo the width of an amount.                 *)
ClaimsSettle ==
    /\ \A u, v \in agreed : u.sequence = v.sequence => u = v
    /\ agreed # {} => \E u \in agreed :
          /\ \A v \in agreed : v.sequence <= u.sequence
          /\ channel.a = u.a /\ channel.b = u.b
    /\ \A i \in 1 .. Len(locks) - 1 :
          /\ locks[i].claim = "timeout" /\ locks[i + 1].claim = "preimage"
          /\ locks[i + 1].at < route[i + 1]
          => locks[i].at > locks[i + 1].at + 1
    /\ (Sum(paid.balance) + paid.fees - paid.credited) % AmountWidth = 0
    /\ (Sum(wrapped.balance) + wrapped.unlocked - wrapped.locked) % AmountWidth = 0
=============================================================================
